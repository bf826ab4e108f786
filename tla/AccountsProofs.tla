--------------------------- MODULE AccountsProofs ---------------------------
(* That credentials, confinements, administrators and the cached one are sound, for *)
(* any accounts, groups, clients and updates, with both processes of the module; and *)
(* that the limiter of logins counts what it must, for any limits and keys.        *)
EXTENDS Accounts, LoginLimiter, TLAPS, FiniteSetTheorems, WellFoundedInduction

Sound == AccountsStrengthening /\ CredentialsSound /\ ScopesHold

\* What every step leaves: sound accounts and, if there was one, an administrator.
Kept == Sound' /\ (Admins # {} => Admins' # {})

-----------------------------------------------------------------------------
(* How a goroutine moves.                                                    *)

\* What RequestsHold says of one goroutine.
Fine(r) ==
  /\ DOMAIN r = DOMAIN Idle /\ r.next \in {"idle", "count", "up"}
  /\ r.pc \in {"mint", "account", "update", "promote", "reuse"} => r.user \in Ids
  /\ r.pc = "mint" => r.seen \in Nat
  /\ r.pc = "update" => r.change \in Changes
  /\ r.pc = "account" =>
       /\ r.seen \in [client : Clients, user : Ids, hash : Nat]
       /\ r.seen.user = r.user

\* What a step leaves of the goroutines: p moves, to a place it may be in.
Moves(p) ==
  /\ RequestsHold'
  /\ \A q \in Mains \ {p} : procs'[q] = procs[q]

LEMMA OneMoves ==
  ASSUME RequestsHold, NEW p \in Clients \cup Mains, NEW r, Fine(r),
         procs' = [procs EXCEPT ![p] = r]
  PROVE  Moves(p) /\ procs'[p] = r
<1>1. procs'[p] = r /\ DOMAIN procs' = DOMAIN procs
  BY DEF RequestsHold
<1>2. \A q \in DOMAIN procs : q # p => procs'[q] = procs[q]
  BY DEF RequestsHold
<1>3. \A q \in DOMAIN procs : Fine(procs[q])
  BY DEF RequestsHold, Fine
<1>4. \A q \in DOMAIN procs' : Fine(procs'[q])
  BY <1>1, <1>2, <1>3
<1>5. RequestsHold'
  BY <1>1, <1>4 DEF RequestsHold, Fine
<1>6. QED
  BY <1>1, <1>2, <1>5 DEF Moves, RequestsHold

\* The same for Goto, Return and Hold, which all but StoreRoot and commits use.
LEMMA GotoMoves ==
  ASSUME RequestsHold, NEW p \in Clients \cup Mains, NEW pc, Goto(p, pc),
         pc \notin {"mint", "account", "update", "promote", "reuse"}
  PROVE  Moves(p) /\ procs'[p].pc = pc
<1> DEFINE r == [procs[p] EXCEPT !.pc = pc]
<1>1. DOMAIN procs[p] = DOMAIN Idle /\ procs[p].next \in {"idle", "count", "up"}
  BY DEF RequestsHold
<1>2. r.pc = pc /\ r.next = procs[p].next /\ DOMAIN r = DOMAIN Idle
  BY <1>1 DEF Idle
<1>3. Fine(r)
  BY <1>1, <1>2 DEF Fine
<1>4. procs' = [procs EXCEPT ![p] = r]
  BY DEF Goto
<1> HIDE DEF r
<1>5. QED
  BY <1>2, <1>3, <1>4, OneMoves

LEMMA ReturnMoves ==
  ASSUME RequestsHold, NEW p \in Clients \cup Mains, Return(p)
  PROVE  Moves(p) /\ procs'[p] = Idle
<1>1. Fine(Idle)
  BY DEF Fine, Idle
<1>2. QED
  BY <1>1, OneMoves DEF Return

LEMMA HoldMoves ==
  ASSUME RequestsHold, NEW p \in Clients \cup Mains, NEW pc, NEW u, NEW seen, NEW change,
         Hold(p, pc, u, seen, change),
         pc \in {"mint", "account", "update", "promote", "reuse"} => u \in Ids,
         pc = "mint" => seen \in Nat,
         pc = "update" => change \in Changes,
         pc = "account" => seen \in [client : Clients, user : Ids, hash : Nat] /\ seen.user = u
  PROVE  Moves(p) /\ procs'[p].pc = pc
<1> DEFINE r == [Idle EXCEPT !.pc = pc, !.user = u, !.seen = seen, !.change = change]
<1>1. procs' = [procs EXCEPT ![p] = r]
  BY DEF Hold
<1>2. /\ DOMAIN r = DOMAIN Idle
      /\ r.pc = pc /\ r.user = u /\ r.seen = seen /\ r.change = change /\ r.next = "idle"
  BY DEF Idle
<1> HIDE DEF r
<1>3. Fine(r)
  BY <1>2 DEF Fine
<1>4. QED
  BY <1>1, <1>2, <1>3, OneMoves

LEMMA CommitMoves ==
  ASSUME RequestsHold, NEW p \in Clients \cup Mains, NEW next, CommitAnd(p, next),
         next \in {"idle", "count", "up"}
  PROVE  /\ Moves(p)
         /\ procs'[p].pc \in {next, "refresh"} /\ procs'[p].next = next
<1> DEFINE r == [Idle EXCEPT !.pc = IF p = OtherMain THEN next ELSE "refresh", !.next = next]
<1>1. procs' = [procs EXCEPT ![p] = r]
  BY DEF CommitAnd
<1>2. Fine(r) /\ r.pc \in {next, "refresh"} /\ r.next = next
  BY DEF Fine, Idle
<1> HIDE DEF r
<1>3. QED
  BY <1>1, <1>2, OneMoves

-----------------------------------------------------------------------------
(* What a step does to the rows.                                             *)

\* A step of p that keeps the stored state sound, and an administrator if there was one.
Keeps(p) ==
  /\ AccountsTypeOK' /\ CredentialsSound' /\ ScopesHold'
  /\ Admins # {} => Admins' # {}

\* A goroutine that has a process settle leaves an administrator.
LEMMA StepSound ==
  ASSUME Sound, NEW p, Keeps(p), Moves(p), p \in Mains /\ Settled(p)' => Admins' # {}
  PROVE  Kept
<1>1. SettledHaveAdmin'
  <2> SUFFICES ASSUME NEW m \in Mains, Settled(m)' PROVE Admins' # {}
    BY DEF SettledHaveAdmin
  <2>1. CASE m = p
    BY <2>1
  <2>2. CASE m # p
    <3>1. procs'[m] = procs[m]
      BY <2>2 DEF Moves
    <3>2. Settled(m)
      BY <3>1 DEF Settled, At
    <3>3. QED
      BY <3>2 DEF Keeps, Sound, AccountsStrengthening, SettledHaveAdmin
  <2>3. QED
    BY <2>1, <2>2
<1>2. QED
  BY <1>1 DEF Keeps, Moves, Sound, AccountsStrengthening, Kept

\* A step that writes no row.
LEMMA RowsStayKeeps ==
  ASSUME Sound, NEW p, RowsStay
  PROVE  Keeps(p) /\ Admins' = Admins
<1>1. Admins' = Admins
  BY DEF RowsStay, Admins, Enabled, Exists
<1>2. AccountsTypeOK'
  BY DEF RowsStay, Sound, AccountsStrengthening, AccountsTypeOK
<1>3. CredentialsSound' /\ ScopesHold'
  BY DEF RowsStay, Sound, CredentialsSound, ScopesHold, Enabled, Exists
<1>4. QED
  BY <1>1, <1>2, <1>3 DEF Keeps

-----------------------------------------------------------------------------
(* The steps that write no row.                                              *)

LEMMA ResolveRootSound ==
  ASSUME Sound, NEW p \in Clients \cup Mains, ResolveRoot(p)
  PROVE  Kept
<1> DEFINE r == [procs[p] EXCEPT !.pc = "store", !.seen = RootAdmin]
<1>1. procs' = [procs EXCEPT ![p] = r]
  BY DEF ResolveRoot
<1>2. DOMAIN procs[p] = DOMAIN Idle /\ procs[p].next \in {"idle", "count", "up"}
  BY DEF Sound, AccountsStrengthening, RequestsHold
<1>3. DOMAIN r = DOMAIN Idle /\ r.pc = "store" /\ r.next = procs[p].next
  BY <1>2 DEF Idle
<1> HIDE DEF r
<1>4. Moves(p) /\ procs'[p] = r
  BY <1>1, <1>2, <1>3, OneMoves DEF Fine, Sound, AccountsStrengthening
<1>5. Keeps(p) /\ Admins' = Admins
  BY RowsStayKeeps DEF ResolveRoot
<1>6. p \in Mains /\ Settled(p)' => Settled(p)
  BY <1>3, <1>4 DEF Settled, At, ResolveRoot
<1>7. p \in Mains /\ Settled(p)' => Admins' # {}
  BY <1>5, <1>6 DEF Sound, AccountsStrengthening, SettledHaveAdmin
<1>8. QED
  BY <1>4, <1>5, <1>7, StepSound

LEMMA StoreRootSound ==
  ASSUME Sound, NEW p \in Clients \cup Mains, StoreRoot(p)
  PROVE  Kept
<1> DEFINE r == [Idle EXCEPT !.pc = procs[p].next]
<1>1. procs' = [procs EXCEPT ![p] = r]
  BY DEF StoreRoot
<1>2. procs[p].next \in {"idle", "count", "up"}
  BY DEF Sound, AccountsStrengthening, RequestsHold
<1>3. DOMAIN r = DOMAIN Idle /\ r.pc = procs[p].next /\ r.next = "idle"
  BY DEF Idle
<1> HIDE DEF r
<1>4. Moves(p) /\ procs'[p] = r
  BY <1>1, <1>2, <1>3, OneMoves DEF Fine, Sound, AccountsStrengthening
<1>5. Keeps(p) /\ Admins' = Admins
  BY RowsStayKeeps DEF StoreRoot
<1>6. p \in Mains /\ Settled(p)' => Settled(p)
  BY <1>2, <1>3, <1>4 DEF Settled, At, StoreRoot
<1>7. p \in Mains /\ Settled(p)' => Admins' # {}
  BY <1>5, <1>6 DEF Sound, AccountsStrengthening, SettledHaveAdmin
<1>8. QED
  BY <1>4, <1>5, <1>7, StepSound

\* What reads, and goes on to where nobody is settled.
LEMMA ReadSound ==
  ASSUME Sound, NEW p \in Clients \cup Mains, RowsStay, Moves(p),
         procs'[p].pc \notin {"up", "refresh", "store"}
  PROVE  Kept
<1>1. Keeps(p)
  BY RowsStayKeeps
<1>2. ~Settled(p)'
  BY DEF Settled, At
<1>3. QED
  BY <1>1, <1>2, StepSound

LEMMA StartSound ==
  ASSUME Sound, NEW m \in Mains, Start(m) \/ LookupAdmin(m) \/ LookupRoot(m)
  PROVE  Kept
<1>1. RowsStay /\ RequestsHold
  BY DEF Start, LookupAdmin, LookupRoot, Sound, AccountsStrengthening
<1>2. CASE \E pc \in {"lookup", "count", "create"} : Goto(m, pc)
  <2>1. PICK pc \in {"lookup", "count", "create"} : Goto(m, pc)
    BY <1>2
  <2>2. QED
    BY <1>1, <2>1, GotoMoves, ReadSound
<1>3. CASE \E pc \in {"promote", "reuse", "make"}, u \in Ids \cup {Nobody} :
             (pc # "make" => u \in Ids) /\ \E seen : Hold(m, pc, u, seen, None)
  <2>1. PICK pc \in {"promote", "reuse", "make"}, u \in Ids \cup {Nobody} :
             (pc # "make" => u \in Ids) /\ \E seen : Hold(m, pc, u, seen, None)
    BY <1>3
  <2>2. Moves(m) /\ procs'[m].pc = pc
    BY <1>1, <2>1, HoldMoves
  <2>3. QED
    BY <1>1, <2>1, <2>2, ReadSound
<1>4. QED
  BY <1>2, <1>3 DEF Start, LookupAdmin, LookupRoot, Named

LEMMA CountSound ==
  ASSUME Sound, NEW m \in Mains, Count(m)
  PROVE  Kept
<1> RowsStay /\ RequestsHold
  BY DEF Count, Sound, AccountsStrengthening
<1>1. CASE Admins = {}
  BY <1>1, GotoMoves, ReadSound DEF Count
<1>2. CASE Admins # {}
  <2> DEFINE r == [Idle EXCEPT !.pc = IF m = OtherMain THEN "up" ELSE "refresh", !.next = "up"]
  <2>1. procs' = [procs EXCEPT ![m] = r]
    BY <1>2 DEF Count
  <2>2. Fine(r)
    BY DEF Fine, Idle
  <2> HIDE DEF r
  <2>3. Moves(m)
    BY <2>1, <2>2, OneMoves
  <2>4. QED
    BY <1>2, <2>3, RowsStayKeeps, StepSound
<1>3. QED
  BY <1>1, <1>2

LEMMA RequestSound ==
  ASSUME AccountsAssumption, Sound, NEW c \in Clients,
         Authenticate(c) \/ ValidateSession(c) \/ Observe(c)
  PROVE  Kept
<1>1. RowsStay /\ RequestsHold /\ AccountsTypeOK
  BY DEF Authenticate, ValidateSession, Observe, Sound, AccountsStrengthening
<1>2. CASE Authenticate(c)
  <2>1. PICK u \in Ids : Enabled(u) /\ Hold(c, "mint", u, users[u].hash, None)
    BY <1>2 DEF Authenticate
  <2>2. users[u].hash \in Nat
    BY <1>1, <2>1 DEF AccountsTypeOK, Enabled, Exists, Unborn, Deleted, UserRows
  <2>3. Moves(c) /\ procs'[c].pc = "mint"
    BY <1>1, <2>1, <2>2, HoldMoves
  <2>4. QED
    BY <1>1, <2>3, ReadSound
<1>3. CASE ValidateSession(c)
  <2>1. PICK s \in sessions : Hold(c, "account", s.user, s, None)
    BY <1>3 DEF ValidateSession
  <2>2. s \in [client : Clients, user : Ids, hash : Nat] /\ s.user \in Ids
    BY <1>1, <2>1 DEF AccountsTypeOK
  <2>3. Moves(c) /\ procs'[c].pc = "account"
    BY <1>1, <2>1, <2>2, HoldMoves
  <2>4. QED
    BY <1>1, <2>3, ReadSound
<1>4. CASE Observe(c)
  <2>1. PICK u \in Ids, change \in Changes : \E seen : Hold(c, "update", u, seen, change)
    BY <1>4 DEF Observe
  <2>2. Moves(c) /\ procs'[c].pc = "update"
    BY <1>1, <2>1, HoldMoves
  <2>3. QED
    BY <1>1, <2>2, ReadSound
<1>5. QED
  BY <1>2, <1>3, <1>4

-----------------------------------------------------------------------------
(* The steps that write rows.                                                *)

Cookies == [client : Clients, user : Ids, hash : Nat]

\* A row of users is written: each session that stays is of another account, or of the
\* password and the state the row has now.
LEMMA RowWritten ==
  ASSUME Sound, NEW p, NEW u \in Ids, NEW row \in UserRows,
         users' = [users EXCEPT ![u] = row], groups' = groups, hashes' \in Nat,
         tokens' \in [Ids -> Nat], \A v \in Ids \ {u} : tokens'[v] = tokens[v],
         sessions' \subseteq Cookies,
         \A s \in sessions' :
           \/ s \in sessions /\ s.user # u
           \/ s.user = u /\ ~row.disabled /\ row.hash = s.hash,
         Confined(row.role, row.scope), row.scope \in groups \cup {None},
         u \in Admins => (row.role = "admin" /\ ~row.disabled) \/ Admins \ {u} # {}
  PROVE  Keeps(p) /\ (row.role = "admin" /\ ~row.disabled => Admins' # {})
<1>1. AccountsTypeOK /\ CredentialsSound /\ ScopesHold
  BY DEF Sound, AccountsStrengthening
<1>2. users'[u] = row /\ \A v \in Ids \ {u} : users'[v] = users[v]
  BY <1>1 DEF AccountsTypeOK
<1>3. row.state = "row"
  BY DEF UserRows
<1>4. AccountsTypeOK'
  BY <1>1 DEF AccountsTypeOK, Cookies
<1>5. \A s \in sessions' : (Enabled(s.user) /\ users[s.user].hash = s.hash)'
  <2> SUFFICES ASSUME NEW s \in sessions' PROVE (Enabled(s.user) /\ users[s.user].hash = s.hash)'
    OBVIOUS
  <2>1. s.user \in Ids
    BY DEF Cookies
  <2>2. CASE s \in sessions /\ s.user # u
    BY <1>1, <1>2, <2>1, <2>2 DEF CredentialsSound, Enabled, Exists
  <2>3. CASE s.user = u /\ ~row.disabled /\ row.hash = s.hash
    BY <1>2, <1>3, <2>3 DEF Enabled, Exists
  <2>4. QED
    BY <2>2, <2>3
<1>6. \A v \in Ids : tokens'[v] > 0 => Exists(v)'
  BY <1>1, <1>2, <1>3 DEF CredentialsSound, Exists
<1>7. ScopesHold'
  BY <1>1, <1>2 DEF ScopesHold, Exists
<1>8. Admins \ {u} \subseteq Admins'
  BY <1>2 DEF Admins, Enabled, Exists
<1>9. row.role = "admin" /\ ~row.disabled => u \in Admins'
  BY <1>2, <1>3 DEF Admins, Enabled, Exists
<1>10. QED
  BY <1>4, <1>5, <1>6, <1>7, <1>8, <1>9 DEF Keeps, CredentialsSound

\* An account is created.
LEMMA Inserted ==
  ASSUME Sound, NEW p, NEW name \in Names, NEW role \in Roles, NEW scope \in Groups \cup {None},
         NEW auto \in BOOLEAN, NewHash, CredentialsStay, groups' = groups,
         Insert(Row(name, role, scope, FALSE, hashes', auto)),
         Confined(role, scope), scope \in groups \cup {None}
  PROVE  Keeps(p) /\ (role = "admin" => Admins' # {})
<1> DEFINE row == Row(name, role, scope, FALSE, hashes', auto)
<1>1. AccountsTypeOK /\ CredentialsSound
  BY DEF Sound, AccountsStrengthening
<1>2. hashes' \in Nat
  BY <1>1 DEF NewHash, AccountsTypeOK
<1>3. /\ row \in UserRows /\ row.role = role /\ row.scope = scope /\ ~row.disabled
  BY <1>2 DEF Row, UserRows
<1> HIDE DEF row
<1>4. PICK u \in Ids : users[u] = Unborn /\ users' = [users EXCEPT ![u] = row]
  BY DEF Insert, row
<1>5. ~Exists(u)
  BY <1>4 DEF Exists, Unborn
<1>6. \A s \in sessions : s.user # u
  BY <1>1, <1>5 DEF CredentialsSound, Enabled
<1>7. u \notin Admins
  BY <1>5 DEF Admins, Enabled
<1>8. QED
  BY <1>1, <1>2, <1>3, <1>4, <1>6, <1>7, RowWritten DEF CredentialsStay, AccountsTypeOK, Cookies

\* An account becomes an enabled administrator with a new password.
LEMMA Reclaimed ==
  ASSUME Sound, NEW p, NEW u \in Ids, Exists(u), NEW auto \in BOOLEAN,
         Reclaim(u, auto), groups' = groups
  PROVE  Keeps(p) /\ Admins' # {}
<1> DEFINE row == Row(users[u].name, "admin", None, FALSE, hashes', auto)
<1>1. AccountsTypeOK
  BY DEF Sound, AccountsStrengthening
<1>2. hashes' \in Nat /\ users[u].name \in Names
  BY <1>1 DEF Reclaim, NewHash, AccountsTypeOK, Exists, Unborn, Deleted, UserRows
<1>3. /\ row \in UserRows /\ row.role = "admin" /\ row.scope = None /\ ~row.disabled
  BY <1>2 DEF Row, UserRows, Roles
<1>4. users' = [users EXCEPT ![u] = row]
  BY <1>1 DEF Reclaim, AccountsTypeOK
<1> HIDE DEF row
<1>5. Confined(row.role, row.scope)
  BY <1>3 DEF Confined
<1>6. sessions' \subseteq sessions /\ \A s \in sessions' : s.user # u
  BY DEF Reclaim, Revoke, SessionsOf
<1>7. tokens' \in [Ids -> Nat] /\ \A v \in Ids \ {u} : tokens'[v] = tokens[v]
  BY <1>1 DEF Reclaim, Revoke, AccountsTypeOK
<1>8. QED
  BY <1>1, <1>2, <1>3, <1>4, <1>5, <1>6, <1>7, RowWritten DEF AccountsTypeOK, Cookies

-----------------------------------------------------------------------------
(* The start of a process.                                                   *)

LEMMA AdminConfined == Confined("admin", None) /\ "admin" \in Roles
BY DEF Confined, Roles

LEMMA CreateAdminSound ==
  ASSUME AccountsAssumption, Sound, NEW m \in Mains, CreateAdmin(m)
  PROVE  Kept
<1> RequestsHold
  BY DEF Sound, AccountsStrengthening
<1>1. CASE Goto(m, "lookup") /\ RowsStay
  BY <1>1, GotoMoves, ReadSound
<1>2. CASE /\ NewHash /\ Insert(Row(AdminName, "admin", None, FALSE, hashes', FALSE))
           /\ CommitAnd(m, "count") /\ CredentialsStay /\ groups' = groups
  <2>1. Keeps(m) /\ Admins' # {}
    BY <1>2, AdminConfined, Inserted DEF AccountsAssumption
  <2>2. Moves(m)
    BY <1>2, CommitMoves
  <2>3. QED
    BY <2>1, <2>2, StepSound
<1>3. QED
  BY <1>1, <1>2 DEF CreateAdmin

LEMMA PromoteAdminSound ==
  ASSUME AccountsAssumption, Sound, NEW m \in Mains, PromoteAdmin(m)
  PROVE  Kept
<1> DEFINE u == procs[m].user
<1> RequestsHold /\ u \in Ids
  BY DEF Sound, AccountsStrengthening, RequestsHold, PromoteAdmin, At
<1>1. CASE Goto(m, "lookup") /\ RowsStay
  BY <1>1, GotoMoves, ReadSound
<1>2. CASE Exists(u) /\ Reclaim(u, FALSE) /\ CommitAnd(m, "count") /\ groups' = groups
  <2>1. Keeps(m) /\ Admins' # {}
    BY <1>2, Reclaimed
  <2>2. Moves(m)
    BY <1>2, CommitMoves
  <2>3. QED
    BY <2>1, <2>2, StepSound
<1>3. QED
  BY <1>1, <1>2 DEF PromoteAdmin, StillIs

LEMMA WinnerSound ==
  ASSUME Sound, NEW m \in Mains, Winner(m)
  PROVE  Kept
<1>1. /\ Admins # {} /\ CommitAnd(m, "up")
      /\ UNCHANGED <<users, sessions, tokens, groups, hashes>>
  BY DEF Winner, CredentialsStay
<1>2. Moves(m)
  BY <1>1, CommitMoves DEF Sound, AccountsStrengthening
<1>3. Admins' = Admins
  BY <1>1 DEF Admins, Enabled, Exists
<1>4. AccountsTypeOK'
  BY <1>1 DEF Sound, AccountsStrengthening, AccountsTypeOK
<1>5. CredentialsSound' /\ ScopesHold'
  BY <1>1 DEF Sound, CredentialsSound, ScopesHold, Enabled, Exists
<1>6. QED
  BY <1>1, <1>2, <1>3, <1>4, <1>5, StepSound DEF Keeps

LEMMA MakeRootSound ==
  ASSUME AccountsAssumption, Sound, NEW m \in Mains, MakeRoot(m)
  PROVE  Kept
<1> RequestsHold
  BY DEF Sound, AccountsStrengthening
<1>1. CASE Winner(m)
  BY <1>1, WinnerSound
<1>2. CASE Goto(m, "root") /\ RowsStay
  BY <1>2, GotoMoves, ReadSound
<1>3. CASE /\ NewHash /\ CommitAnd(m, "up") /\ CredentialsStay /\ groups' = groups
           /\ \E name \in Names : Insert(Row(name, "admin", None, FALSE, hashes', TRUE))
  <2>1. PICK name \in Names : Insert(Row(name, "admin", None, FALSE, hashes', TRUE))
    BY <1>3
  <2>2. Keeps(m) /\ Admins' # {}
    BY <1>3, <2>1, AdminConfined, Inserted
  <2>3. Moves(m)
    BY <1>3, CommitMoves
  <2>4. QED
    BY <2>2, <2>3, StepSound
<1>4. QED
  BY <1>1, <1>2, <1>3 DEF MakeRoot, AccountsAssumption

LEMMA ReuseRootSound ==
  ASSUME AccountsAssumption, Sound, NEW m \in Mains, ReuseRoot(m)
  PROVE  Kept
<1> DEFINE u == procs[m].user
<1> RequestsHold /\ u \in Ids
  BY DEF Sound, AccountsStrengthening, RequestsHold, ReuseRoot, At
<1>1. CASE Winner(m)
  BY <1>1, WinnerSound
<1>2. CASE Goto(m, "root") /\ RowsStay
  BY <1>2, GotoMoves, ReadSound
<1>3. CASE Exists(u) /\ Reclaim(u, TRUE) /\ CommitAnd(m, "up") /\ groups' = groups
  <2>1. Keeps(m) /\ Admins' # {}
    BY <1>3, Reclaimed
  <2>2. Moves(m)
    BY <1>3, CommitMoves
  <2>3. QED
    BY <2>1, <2>2, StepSound
<1>4. QED
  BY <1>1, <1>2, <1>3 DEF ReuseRoot, StillIs

-----------------------------------------------------------------------------
(* What users do with their accounts.                                        *)

\* A step of a client that leaves the accounts and the groups: the sessions and the
\* tokens that are new have an account, and a session its password.
LEMMA NewCredentials ==
  ASSUME Sound, NEW p, UNCHANGED <<users, groups, hashes>>,
         sessions' \subseteq Cookies, tokens' \in [Ids -> Nat],
         \A s \in sessions' : s \in sessions \/ (Enabled(s.user) /\ users[s.user].hash = s.hash),
         \A u \in Ids : tokens'[u] > 0 => tokens[u] > 0 \/ Exists(u)
  PROVE  Keeps(p)
<1>1. Admins' = Admins
  BY DEF Admins, Enabled, Exists
<1>2. AccountsTypeOK'
  BY DEF Sound, AccountsStrengthening, AccountsTypeOK, Cookies
<1>3. CredentialsSound'
  BY DEF Sound, CredentialsSound, Enabled, Exists
<1>4. ScopesHold'
  BY DEF Sound, ScopesHold, Exists
<1>5. QED
  BY <1>1, <1>2, <1>3, <1>4 DEF Keeps

LEMMA CredentialSteps ==
  ASSUME AccountsAssumption, Sound, NEW c \in Clients,
         MintSession(c) \/ CreateApiToken(c) \/ RevokeApiToken(c)
  PROVE  Kept
<1>1. RequestsHold /\ AccountsTypeOK
  BY DEF Sound, AccountsStrengthening
<1>2. Moves(c)
  BY <1>1, ReturnMoves DEF MintSession, CreateApiToken, RevokeApiToken
<1>3. c \notin Mains
  BY DEF AccountsAssumption
<1> DEFINE u == procs[c].user
<1>4. u \in Ids
  BY <1>1 DEF RequestsHold, MintSession, CreateApiToken, RevokeApiToken, At
<1>5. CASE MintSession(c)
  <2> DEFINE new == [client |-> c, user |-> u, hash |-> procs[c].seen]
  <2>1. procs[c].seen \in Nat
    BY <1>1, <1>5 DEF RequestsHold, MintSession, At
  <2>2. new \in Cookies /\ new.user = u /\ new.hash = procs[c].seen
    BY <1>4, <2>1 DEF Cookies
  <2>3. \/ sessions' = sessions
        \/ sessions' = sessions \cup {new} /\ Enabled(u) /\ users[u].hash = procs[c].seen
    BY <1>5 DEF MintSession
  <2> HIDE DEF new
  <2>4. sessions' \subseteq Cookies
    BY <1>1, <2>2, <2>3 DEF AccountsTypeOK, Cookies
  <2>5. \A s \in sessions' : s \in sessions \/ (Enabled(s.user) /\ users[s.user].hash = s.hash)
    BY <2>2, <2>3
  <2>6. Keeps(c)
    BY <1>1, <1>5, <2>4, <2>5, NewCredentials DEF MintSession, AccountsTypeOK
  <2>7. QED
    BY <1>2, <1>3, <2>6, StepSound
<1>6. CASE CreateApiToken(c) \/ RevokeApiToken(c)
  <2>1. /\ UNCHANGED <<users, sessions, groups, hashes>>
        /\ \/ tokens' = tokens
           \/ Exists(u) /\ tokens' = [tokens EXCEPT ![u] = @ + 1]
           \/ tokens[u] > 0 /\ tokens' = [tokens EXCEPT ![u] = @ - 1]
    BY <1>6 DEF CreateApiToken, RevokeApiToken
  <2>2. tokens' \in [Ids -> Nat]
    BY <1>1, <1>4, <2>1 DEF AccountsTypeOK
  <2>3. \A v \in Ids : tokens'[v] > 0 => tokens[v] > 0 \/ Exists(v)
    BY <1>1, <1>4, <2>1 DEF AccountsTypeOK
  <2>4. Keeps(c)
    BY <1>1, <2>1, <2>2, <2>3, NewCredentials DEF AccountsTypeOK, Cookies
  <2>5. QED
    BY <1>2, <1>3, <2>4, StepSound
<1>7. QED
  BY <1>5, <1>6

\* Nobody moves.
LEMMA StillSound ==
  ASSUME Sound, Keeps(Main), procs' = procs
  PROVE  Kept
<1>1. Moves(Main)
  BY DEF Moves, RequestsHold, Sound, AccountsStrengthening
<1>2. Main \in Mains /\ Settled(Main)' => Admins' # {}
  BY DEF Settled, At, Keeps, Sound, AccountsStrengthening, SettledHaveAdmin
<1>3. QED
  BY <1>1, <1>2, StepSound

LEMMA RevokeSessionSound ==
  ASSUME Sound, RevokeSession
  PROVE  Kept
<1>1. Keeps(Main)
  BY NewCredentials DEF RevokeSession, Sound, AccountsStrengthening, AccountsTypeOK, Cookies
<1>2. QED
  BY <1>1, StillSound DEF RevokeSession

LEMMA ChangeOwnPasswordSound ==
  ASSUME AccountsAssumption, Sound, NEW c \in Clients, ChangeOwnPassword(c)
  PROVE  Kept
<1> DEFINE u == procs[c].user
           own == procs[c].seen
           row == [users[u] EXCEPT !.hash = hashes', !.auto = FALSE]
<1>1. RequestsHold /\ AccountsTypeOK /\ CredentialsSound /\ ScopesHold
  BY DEF Sound, AccountsStrengthening
<1>2. Moves(c)
  BY <1>1, ReturnMoves DEF ChangeOwnPassword
<1>3. c \notin Mains
  BY DEF AccountsAssumption
<1>4. u \in Ids /\ own \in Cookies /\ own.user = u
  BY <1>1 DEF RequestsHold, ChangeOwnPassword, At, Cookies
<1>5. Exists(u) /\ hashes' \in Nat /\ users' = [users EXCEPT ![u] = row]
  BY <1>1, <1>4 DEF ChangeOwnPassword, NewHash, AccountsTypeOK
<1>6. users[u] \in UserRows
  BY <1>1, <1>4, <1>5 DEF AccountsTypeOK, Exists, Unborn, Deleted
<1>7. /\ row \in UserRows /\ row.hash = hashes' /\ row.role = users[u].role
      /\ row.scope = users[u].scope /\ row.disabled = users[u].disabled
  BY <1>5, <1>6 DEF UserRows
<1>8. Confined(row.role, row.scope) /\ row.scope \in groups \cup {None}
  BY <1>1, <1>4, <1>5, <1>7 DEF ScopesHold
<1>9. u \in Admins => row.role = "admin" /\ ~row.disabled
  BY <1>7 DEF Admins, Enabled
<1> DEFINE new == [own EXCEPT !.hash = hashes']
<1>10. new \in Cookies /\ new.user = u /\ new.hash = hashes'
  BY <1>4, <1>5 DEF Cookies
<1>11. \/ sessions' = sessions \ SessionsOf(u)
       \/ own \in sessions /\ sessions' = (sessions \ SessionsOf(u)) \cup {new}
  <2>1. PICK kept \in {{}, {own} \cap sessions} :
          sessions' = (sessions \ SessionsOf(u)) \cup {[s EXCEPT !.hash = hashes'] : s \in kept}
    BY DEF ChangeOwnPassword
  <2>2. CASE kept = {}
    BY <2>1, <2>2
  <2>3. CASE kept = {own} /\ own \in sessions
    BY <2>1, <2>3
  <2>4. QED
    BY <2>2, <2>3
<1> HIDE DEF row, new
<1>12. sessions' \subseteq Cookies
  BY <1>1, <1>10, <1>11 DEF AccountsTypeOK, Cookies
<1>13. own \in sessions => ~users[u].disabled
  BY <1>1, <1>4 DEF CredentialsSound, Enabled
<1>14. \A s \in sessions' :
         \/ s \in sessions /\ s.user # u
         \/ s.user = u /\ ~row.disabled /\ row.hash = s.hash
  BY <1>7, <1>10, <1>11, <1>13 DEF SessionsOf
<1>15. groups' = groups /\ tokens' = tokens /\ tokens' \in [Ids -> Nat]
  BY <1>1 DEF ChangeOwnPassword, AccountsTypeOK
<1>16. \A v \in Ids \ {u} : tokens'[v] = tokens[v]
  BY <1>15
<1>17. u \in Admins => (row.role = "admin" /\ ~row.disabled) \/ Admins \ {u} # {}
  BY <1>9
<1> HIDE DEF u, own
<1>18. Keeps(c)
  <2>1. /\ u \in Ids /\ row \in UserRows
        /\ users' = [users EXCEPT ![u] = row] /\ groups' = groups /\ hashes' \in Nat
    BY <1>4, <1>5, <1>7, <1>15
  <2>2. /\ tokens' \in [Ids -> Nat] /\ \A v \in Ids \ {u} : tokens'[v] = tokens[v]
    BY <1>15, <1>16
  <2>3. /\ Confined(row.role, row.scope) /\ row.scope \in groups \cup {None}
    BY <1>8
  <2>4. /\ sessions' \subseteq Cookies
        /\ \A s \in sessions' :
             \/ s \in sessions /\ s.user # u
             \/ s.user = u /\ ~row.disabled /\ row.hash = s.hash
    BY <1>12, <1>14
  <2>5. QED
    BY <2>1, <2>2, <2>3, <2>4, <1>17, RowWritten
<1>19. QED
  BY <1>2, <1>3, <1>18, StepSound

-----------------------------------------------------------------------------
(* What administrators do.                                                   *)

LEMMA ValidConfined ==
  ASSUME Sound, NEW role \in Roles, NEW scope \in Groups \cup {None},
         ScopeValid(role, scope), role = "admin" => scope = None, AccountsAssumption
  PROVE  Confined(role, scope) /\ scope \in groups \cup {None}
BY DEF ScopeValid, Confined, Roles, AccountsAssumption

LEMMA CreateUserSound ==
  ASSUME AccountsAssumption, Sound, NEW c \in Clients, CreateUser(c)
  PROVE  Kept
<1>1. PICK new \in NewUsers :
        LET scope == normalizeScopeGroup(new.role, new.scope) IN
        /\ ScopeValid(new.role, scope)
        /\ Insert(Row(new.name, new.role, scope, FALSE, hashes', FALSE))
  BY DEF CreateUser
<1> DEFINE scope == normalizeScopeGroup(new.role, new.scope)
<1>2. /\ new.name \in Names /\ new.role \in Roles /\ scope \in Groups \cup {None}
      /\ new.role = "admin" => scope = None
  BY DEF AccountsAssumption, normalizeScopeGroup
<1>3. /\ ScopeValid(new.role, scope)
      /\ Insert(Row(new.name, new.role, scope, FALSE, hashes', FALSE))
  BY <1>1
<1> HIDE DEF scope
<1>4. Confined(new.role, scope) /\ scope \in groups \cup {None}
  BY <1>2, <1>3, ValidConfined
<1>5. NewHash /\ CredentialsStay /\ groups' = groups /\ CommitAnd(c, "idle")
  BY DEF CreateUser
<1>6. Keeps(c)
  BY <1>2, <1>3, <1>4, <1>5, Inserted
<1>7. Moves(c) /\ c \notin Mains
  BY <1>5, CommitMoves DEF Sound, AccountsStrengthening, AccountsAssumption
<1>8. QED
  BY <1>6, <1>7, StepSound

LEMMA DeleteUserSound ==
  ASSUME AccountsAssumption, Sound, NEW c \in Clients, DeleteUser(c)
  PROVE  Kept
<1>1. PICK u \in Ids :
        /\ Exists(u) /\ (u \in Admins => Admins \ {u} # {})
        /\ users' = [users EXCEPT ![u] = Deleted]
        /\ Revoke(u)
  BY DEF DeleteUser
<1>2. AccountsTypeOK /\ CredentialsSound /\ ScopesHold
  BY DEF Sound, AccountsStrengthening
<1>3. users'[u] = Deleted /\ \A v \in Ids \ {u} : users'[v] = users[v]
  BY <1>1, <1>2 DEF AccountsTypeOK
<1>4. UNCHANGED <<groups, hashes>> /\ CommitAnd(c, "idle")
  BY DEF DeleteUser
<1>5. sessions' = sessions \ SessionsOf(u) /\ tokens' = [tokens EXCEPT ![u] = 0]
  BY <1>1 DEF Revoke
<1>6. AccountsTypeOK'
  BY <1>1, <1>2, <1>4, <1>5 DEF AccountsTypeOK
<1>7. CredentialsSound'
  <2>1. \A s \in sessions' : (Enabled(s.user) /\ users[s.user].hash = s.hash)'
    BY <1>2, <1>3, <1>5 DEF AccountsTypeOK, SessionsOf, CredentialsSound, Enabled, Exists
  <2>2. \A v \in Ids : tokens'[v] > 0 => Exists(v)'
    BY <1>2, <1>3, <1>5 DEF AccountsTypeOK, CredentialsSound, Exists
  <2>3. QED
    BY <2>1, <2>2 DEF CredentialsSound
<1>8. ScopesHold'
  BY <1>2, <1>3, <1>4 DEF ScopesHold, Exists, Deleted
<1>9. Admins \ {u} \subseteq Admins'
  BY <1>3 DEF Admins, Enabled, Exists
<1>10. Keeps(c)
  BY <1>1, <1>6, <1>7, <1>8, <1>9 DEF Keeps
<1>11. Moves(c) /\ c \notin Mains
  BY <1>4, CommitMoves DEF Sound, AccountsStrengthening, AccountsAssumption
<1>12. QED
  BY <1>10, <1>11, StepSound

\* The row an update writes.
LEMMA UpdatedRow ==
  ASSUME Sound, AccountsAssumption, NEW u \in Ids, Exists(u), NEW change \in Changes,
         NEW hash \in Nat
  PROVE  LET row == Updated(u, change, hash)
         IN /\ row \in UserRows /\ row.role = EffectiveRole(u, change)
            /\ row.disabled = EffectiveDisabled(u, change) /\ row.hash = hash
            /\ row.scope = IF change.role = Keep /\ change.scope = Keep THEN users[u].scope
                           ELSE EffectiveScope(u, change)
<1> DEFINE role == EffectiveRole(u, change)
           scope == EffectiveScope(u, change)
           disabled == EffectiveDisabled(u, change)
<1>1. /\ change.role \in Roles \cup {Keep} /\ change.scope \in Groups \cup {None, Keep}
      /\ change.password \in BOOLEAN
  BY DEF AccountsAssumption
<1>2. users[u] \in UserRows
  BY DEF Sound, AccountsStrengthening, AccountsTypeOK, Exists, Unborn, Deleted
<1>3. role \in Roles /\ disabled \in BOOLEAN
  BY <1>1, <1>2 DEF EffectiveRole, EffectiveDisabled, UserRows
<1>4. scope \in Groups \cup {None}
  BY <1>1, <1>2 DEF EffectiveScope, normalizeScopeGroup, UserRows
<1> HIDE DEF role, scope, disabled
<1>5. QED
  BY <1>1, <1>2, <1>3, <1>4 DEF Updated, UserRows, role, scope, disabled

LEMMA UpdateUserSound ==
  ASSUME AccountsAssumption, Sound, NEW c \in Clients, UpdateUser(c)
  PROVE  Kept
<1>1. RequestsHold /\ AccountsTypeOK /\ CredentialsSound /\ ScopesHold
  BY DEF Sound, AccountsStrengthening
<1>2. c \notin Mains
  BY DEF AccountsAssumption
<1>3. At(c, "update")
  BY DEF UpdateUser
<1>4. PICK u \in Ids : u = procs[c].user
  BY <1>1, <1>3 DEF RequestsHold, At
<1>5. PICK change \in Changes : change = procs[c].change
  BY <1>1, <1>3 DEF RequestsHold, At
<1>6. ASSUME Exists(u), Classified(change) => MayUpdate(c, u, change),
             IF change.password THEN NewHash ELSE UNCHANGED hashes,
             users' = [users EXCEPT ![u] =
                         Updated(u, change, IF change.password THEN hashes' ELSE @.hash)],
             IF change.password \/ change.disabled = "yes" THEN Revoke(u) ELSE CredentialsStay,
             CommitAnd(c, "idle"), groups' = groups
      PROVE  Kept
  <2> DEFINE hash == IF change.password THEN hashes' ELSE users[u].hash
             row == Updated(u, change, hash)
  <2>1. users[u] \in UserRows
    BY <1>1, <1>6 DEF AccountsTypeOK, Exists, Unborn, Deleted
  <2>2. hashes' \in Nat /\ hash \in Nat
    BY <1>1, <1>6, <2>1 DEF NewHash, AccountsTypeOK, UserRows
  <2>3. users' = [users EXCEPT ![u] = row]
    BY <1>6
  <2> HIDE DEF hash
  <2>4. /\ row \in UserRows /\ row.role = EffectiveRole(u, change)
        /\ row.disabled = EffectiveDisabled(u, change) /\ row.hash = hash
        /\ row.scope = IF change.role = Keep /\ change.scope = Keep THEN users[u].scope
                       ELSE EffectiveScope(u, change)
    BY <1>6, <2>2, UpdatedRow
  <2> HIDE DEF row
  <2>5. Confined(row.role, row.scope) /\ row.scope \in groups \cup {None}
    <3>1. CASE change.role = Keep /\ change.scope = Keep
      BY <1>1, <1>6, <2>4, <3>1 DEF ScopesHold, EffectiveRole
    <3>2. CASE ~(change.role = Keep /\ change.scope = Keep)
      <4>1. ScopeValid(row.role, row.scope)
        BY <1>6, <2>4, <3>2 DEF Classified, MayUpdate
      <4>2. /\ row.role \in Roles /\ row.scope \in Groups \cup {None}
            /\ row.role = "admin" => row.scope = None
        BY <2>4, <3>2 DEF UserRows, EffectiveScope, normalizeScopeGroup
      <4>3. QED
        BY <4>1, <4>2, ValidConfined
    <3>3. QED
      BY <3>1, <3>2
  <2>6. u \in Admins => (row.role = "admin" /\ ~row.disabled) \/ Admins \ {u} # {}
    <3>1. CASE Classified(change)
      BY <1>6, <2>4, <3>1 DEF MayUpdate, Dangerous
    <3>2. CASE ~Classified(change)
      BY <2>4, <3>2 DEF Classified, EffectiveRole, EffectiveDisabled, Admins, Enabled
    <3>3. QED
      BY <3>1, <3>2
  <2>7. /\ tokens' \in [Ids -> Nat] /\ \A v \in Ids \ {u} : tokens'[v] = tokens[v]
        /\ sessions' \subseteq sessions
    BY <1>1, <1>6 DEF Revoke, CredentialsStay, AccountsTypeOK
  <2>8. \A s \in sessions' : s \in sessions
    BY <2>7
  <2>9. \A s \in sessions' :
          \/ s \in sessions /\ s.user # u
          \/ s.user = u /\ ~row.disabled /\ row.hash = s.hash
    <3>1. CASE change.password \/ change.disabled = "yes"
      BY <1>6, <3>1 DEF Revoke, SessionsOf
    <3>2. CASE ~change.password /\ change.disabled # "yes"
      <4>1. row.hash = users[u].hash
        BY <2>4, <3>2 DEF hash
      <4>2. users[u].disabled = FALSE => row.disabled = FALSE
        BY <2>4, <3>2 DEF EffectiveDisabled
      <4>3. row.disabled \in BOOLEAN /\ users[u].disabled \in BOOLEAN
        BY <2>1, <2>4 DEF UserRows
      <4>4. QED
        BY <1>1, <2>8, <4>1, <4>2, <4>3 DEF CredentialsSound, Enabled
    <3>3. QED
      BY <3>1, <3>2
  <2>10. sessions' \subseteq Cookies
    BY <1>1, <2>7 DEF AccountsTypeOK, Cookies
  <2>11. Keeps(c)
    <3>1. row \in UserRows /\ groups' = groups
      BY <1>6, <2>4
    <3>2. hashes' \in Nat
      BY <2>2
    <3>3. tokens' \in [Ids -> Nat] /\ \A v \in Ids \ {u} : tokens'[v] = tokens[v]
      BY <2>7
    <3>4. QED
      BY <2>3, <2>5, <2>6, <2>9, <2>10, <3>1, <3>2, <3>3, RowWritten
  <2>12. Moves(c)
    BY <1>1, <1>6, CommitMoves
  <2>13. QED
    BY <1>2, <2>11, <2>12, StepSound
<1>7. ASSUME \/ Return(c)
             \/ \E seen : procs' = [procs EXCEPT ![c].seen = seen],
             CredentialsStay, UNCHANGED <<users, groups, hashes, foreign>>
      PROVE  Kept
  <2>1. RowsStay
    BY <1>7 DEF RowsStay, CredentialsStay
  <2>2. CASE Return(c)
    <3>1. Moves(c) /\ procs'[c] = Idle
      BY <1>1, <2>2, ReturnMoves
    <3>2. QED
      BY <2>1, <3>1, ReadSound DEF Idle
  <2>3. CASE \E seen : procs' = [procs EXCEPT ![c].seen = seen]
    <3>1. PICK seen : procs' = [procs EXCEPT ![c].seen = seen]
      BY <2>3
    <3> DEFINE r == [procs[c] EXCEPT !.seen = seen]
    <3>2. procs' = [procs EXCEPT ![c] = r]
      BY <3>1
    <3>3. DOMAIN procs[c] = DOMAIN Idle /\ procs[c].next \in {"idle", "count", "up"}
      BY <1>1 DEF RequestsHold
    <3>4. /\ DOMAIN r = DOMAIN Idle /\ r.pc = "update" /\ r.next = procs[c].next
          /\ r.user = u /\ r.change = change
      BY <1>3, <1>4, <1>5, <3>3 DEF At, Idle
    <3> HIDE DEF r
    <3>5. Fine(r)
      BY <3>3, <3>4 DEF Fine
    <3>6. Moves(c) /\ procs'[c] = r
      BY <1>1, <3>2, <3>5, OneMoves
    <3>7. QED
      BY <2>1, <3>4, <3>6, ReadSound
  <2>4. QED
    BY <1>7, <2>2, <2>3
<1>8. QED
  BY <1>4, <1>5, <1>6, <1>7 DEF UpdateUser

-----------------------------------------------------------------------------
(* The groups.                                                               *)

LEMMA DeleteGroupSound ==
  ASSUME Sound, DeleteGroup
  PROVE  Kept
<1>1. PICK g \in groups :
        (\A u \in Ids : Exists(u) => users[u].scope # g) /\ groups' = groups \ {g}
  BY DEF DeleteGroup
<1>2. UNCHANGED <<users, sessions, tokens, hashes, procs>>
  BY DEF DeleteGroup, CredentialsStay
<1>3. AccountsTypeOK /\ CredentialsSound /\ ScopesHold
  BY DEF Sound, AccountsStrengthening
<1>4. AccountsTypeOK' /\ CredentialsSound'
  BY <1>1, <1>2, <1>3 DEF AccountsTypeOK, CredentialsSound, Enabled, Exists
<1>5. ScopesHold'
  BY <1>1, <1>2, <1>3 DEF ScopesHold, Exists
<1>6. Admins' = Admins
  BY <1>2 DEF Admins, Enabled, Exists
<1>7. QED
  BY <1>2, <1>4, <1>5, <1>6, StillSound DEF Keeps

\* A merge of groups moves accounts to another group, and no more.
LEMMA MergeOnlyMoves ==
  ASSUME Sound, MergeGroups
  PROVE  /\ \A u \in Ids : users'[u] = users[u] \/
              /\ Exists(u) /\ Exists(u)'
              /\ users'[u].role = users[u].role /\ users'[u].disabled = users[u].disabled
              /\ users'[u].auto = users[u].auto
         /\ Autos' \subseteq Autos /\ Admins' = Admins
<1>1. PICK winner \in groups, loser \in groups :
        /\ winner # loser
        /\ users' = [u \in Ids |-> IF Exists(u) /\ users[u].scope = loser
                                   THEN [users[u] EXCEPT !.scope = winner] ELSE users[u]]
        /\ groups' = groups \ {loser}
  BY DEF MergeGroups
<1>2. ASSUME NEW u \in Ids
      PROVE  users'[u] = users[u] \/
               /\ Exists(u) /\ Exists(u)'
               /\ users'[u].role = users[u].role /\ users'[u].disabled = users[u].disabled
               /\ users'[u].auto = users[u].auto
  <2>1. CASE users'[u] = users[u]
    BY <2>1
  <2>2. CASE Exists(u) /\ users'[u] = [users[u] EXCEPT !.scope = winner]
    <3>1. users[u] \in UserRows
      BY <2>2 DEF Sound, AccountsStrengthening, AccountsTypeOK, Exists, Unborn, Deleted
    <3>2. QED
      BY <2>2, <3>1 DEF UserRows, Exists
  <2>3. QED
    BY <1>1, <2>1, <2>2
<1>3. \A u \in Ids : Enabled(u)' <=> Enabled(u)
  BY <1>2 DEF Enabled, Exists
<1>4. Admins' = Admins
  BY <1>2, <1>3 DEF Admins
<1>5. Autos' \subseteq Autos
  BY <1>2 DEF Autos, Exists
<1>6. QED
  BY <1>2, <1>4, <1>5

LEMMA MergeGroupsSound ==
  ASSUME AccountsAssumption, Sound, MergeGroups
  PROVE  Kept
<1>1. PICK winner \in groups, loser \in groups :
        /\ winner # loser
        /\ users' = [u \in Ids |-> IF Exists(u) /\ users[u].scope = loser
                                   THEN [users[u] EXCEPT !.scope = winner] ELSE users[u]]
        /\ groups' = groups \ {loser}
  BY DEF MergeGroups
<1>2. UNCHANGED <<sessions, tokens, hashes, procs>>
  BY DEF MergeGroups, CredentialsStay
<1>3. AccountsTypeOK /\ CredentialsSound /\ ScopesHold
  BY DEF Sound, AccountsStrengthening
<1>4. winner \in Groups /\ loser \in Groups /\ None \notin Groups
  BY <1>3 DEF AccountsTypeOK, AccountsAssumption
<1>5. ASSUME NEW u \in Ids
      PROVE  \/ users'[u] = users[u] /\ (Exists(u) => users[u].scope # loser)
             \/ /\ Exists(u) /\ users[u] \in UserRows /\ users[u].scope = loser
                /\ users'[u] = [users[u] EXCEPT !.scope = winner]
  BY <1>1, <1>3 DEF AccountsTypeOK, Exists, Unborn, Deleted
<1>6. ASSUME NEW u \in Ids
      PROVE  /\ Exists(u)' <=> Exists(u)
             /\ Exists(u) => /\ users'[u] \in UserRows /\ users'[u].role = users[u].role
                             /\ users'[u].disabled = users[u].disabled
                             /\ users'[u].hash = users[u].hash
                             /\ \/ users'[u].scope = users[u].scope /\ users[u].scope # loser
                                \/ users'[u].scope = winner /\ users[u].scope = loser
             /\ ~Exists(u) => users'[u] = users[u]
  <2>1. CASE users'[u] = users[u] /\ (Exists(u) => users[u].scope # loser)
    BY <1>3, <2>1 DEF Exists, AccountsTypeOK, Unborn, Deleted
  <2>2. CASE /\ Exists(u) /\ users[u] \in UserRows /\ users[u].scope = loser
             /\ users'[u] = [users[u] EXCEPT !.scope = winner]
    BY <1>4, <2>2 DEF Exists, UserRows
  <2>3. QED
    BY <1>5, <2>1, <2>2
<1>7. users' \in [Ids -> UserRows \cup {Unborn, Deleted}]
  <2>1. users' = [u \in Ids |-> users'[u]]
    BY <1>1
  <2>2. \A u \in Ids : users'[u] \in UserRows \cup {Unborn, Deleted}
    BY <1>3, <1>6 DEF AccountsTypeOK
  <2>3. QED
    BY <2>1, <2>2
<1>8. AccountsTypeOK'
  BY <1>1, <1>2, <1>3, <1>7 DEF AccountsTypeOK
<1>9. \A u \in Ids : Enabled(u)' <=> Enabled(u)
  BY <1>6 DEF Enabled
<1>10. CredentialsSound'
  BY <1>2, <1>3, <1>6, <1>9 DEF CredentialsSound, AccountsTypeOK, Enabled
<1>11. ScopesHold'
  <2> SUFFICES ASSUME NEW u \in Ids, Exists(u)'
               PROVE  Confined(users'[u].role, users'[u].scope) /\ users'[u].scope \in groups' \cup {None}
    BY DEF ScopesHold
  <2>1. Confined(users[u].role, users[u].scope) /\ users[u].scope \in groups \cup {None}
    BY <1>3, <1>6 DEF ScopesHold
  <2>2. users[u].role \in Roles
    BY <1>3, <1>6 DEF AccountsTypeOK, Exists, UserRows, Unborn, Deleted
  <2>3. users'[u].role = users[u].role /\ winner \in groups' /\ groups' = groups \ {loser}
    BY <1>1, <1>6
  <2>4. CASE users'[u].scope = users[u].scope /\ users[u].scope # loser
    BY <2>1, <2>3, <2>4
  <2>5. CASE users'[u].scope = winner /\ users[u].scope = loser
    BY <1>4, <2>1, <2>2, <2>3, <2>5 DEF Confined, Roles
  <2>6. QED
    BY <1>6, <2>4, <2>5
<1>12. Admins' = Admins
  BY MergeOnlyMoves
<1>13. QED
  BY <1>2, <1>8, <1>10, <1>11, <1>12, StillSound DEF Keeps

-----------------------------------------------------------------------------

LEMMA SoundInit ==
  ASSUME AccountsAssumption, Init
  PROVE  Sound
<1>1. users \in OldUsers /\ users = [u \in Ids |-> users[u]]
  BY DEF Init, AccountsAssumption
<1>2. ASSUME NEW u \in Ids, users[u] # Unborn
      PROVE  users[u] \in UserRows /\ Confined(users[u].role, users[u].scope)
  <2>1. PICK name \in Names, role \in Roles, scope \in Groups \cup {None}, disabled \in BOOLEAN :
          Confined(role, scope) /\ users[u] = Row(name, role, scope, disabled, 0, FALSE)
    BY <1>1, <1>2 DEF AccountsAssumption
  <2>2. QED
    BY <2>1 DEF Row, UserRows
<1>3. AccountsTypeOK
  <2>1. \A u \in Ids : users[u] \in UserRows \cup {Unborn, Deleted}
    BY <1>2
  <2>2. users \in [Ids -> UserRows \cup {Unborn, Deleted}]
    BY <1>1, <2>1
  <2>3. QED
    BY <2>2 DEF Init, AccountsTypeOK
<1>4. CredentialsSound
  BY DEF Init, CredentialsSound
<1>5. ScopesHold
  BY <1>2 DEF Init, ScopesHold, Exists, Unborn, UserRows
<1>6. RequestsHold
  BY DEF Init, RequestsHold, Idle
<1>7. SettledHaveAdmin
  BY DEF Init, SettledHaveAdmin, Settled, At, Idle
<1>8. QED
  BY <1>3, <1>4, <1>5, <1>6, <1>7 DEF Sound, AccountsStrengthening

LEMMA SoundNext ==
  ASSUME AccountsAssumption, Sound, [Next]_vars
  PROVE  Kept
<1>1. CASE UNCHANGED vars
  <2>1. RowsStay /\ procs' = procs
    BY <1>1 DEF vars, RowsStay
  <2>2. QED
    BY <2>1, RowsStayKeeps, StillSound
<1>2. ASSUME NEW m \in Mains, MainNext(m) PROVE Kept
  BY <1>2, StartSound, CreateAdminSound, PromoteAdminSound, CountSound, MakeRootSound,
     ReuseRootSound, ResolveRootSound, StoreRootSound DEF MainNext
<1>3. ASSUME NEW c \in Clients, ClientNext(c) PROVE Kept
  BY <1>3, RequestSound, CredentialSteps, ChangeOwnPasswordSound, CreateUserSound,
     UpdateUserSound, DeleteUserSound, ResolveRootSound, StoreRootSound DEF ClientNext
<1>4. QED
  BY <1>1, <1>2, <1>3, RevokeSessionSound, DeleteGroupSound, MergeGroupsSound DEF Next

\* Whatever is stored is sound, in every state the two processes reach.
THEOREM AccountsSound == Spec => []Sound
<1>1. Init => Sound
  BY AccountsAssumption, SoundInit
<1>2. Sound /\ [Next]_vars => Sound'
  BY AccountsAssumption, SoundNext DEF Kept
<1>3. QED
  BY <1>1, <1>2, PTL DEF Spec

\* A session outlives neither its account nor the password it was opened with, and a
\* token not its account: whatever administrators reset, disable and delete between
\* the comparison of a password and the session (AuthenticateAndCreateSession).
THEOREM CredentialsAlwaysSound == Spec => []CredentialsSound
BY AccountsSound, PTL DEF Sound

\* No update, creation, deletion or merge leaves an account confined to a group that
\* is gone, or free or confined against its role (validateAndLockScopeGroup).
THEOREM ScopesAlwaysHold == Spec => []ScopesHold
BY AccountsSound, PTL DEF Sound

\* Once a process has started, no sequence of demotions, deletions and starts leaves
\* the instance without an enabled administrator (checkDangerousAdminUpdate).
THEOREM AdminAlwaysRemains == Spec => []AdminRemains
<1>1. Sound => AdminRemains
  BY DEF Sound, AccountsStrengthening, SettledHaveAdmin, Settled, AdminRemains
<1>2. QED
  BY <1>1, AccountsSound, PTL

-----------------------------------------------------------------------------
(* The administrator made at the start, and the one that is cached.          *)

\* Natural numbers below a bound have a least one: the shortest of the intervals 1 .. x.
LEMMA LeastOf ==
  ASSUME NEW n \in Nat, NEW S, S \subseteq 1 .. n, S # {}
  PROVE  \E x \in S : \A y \in S : x <= y
<1> DEFINE T == {1 .. x : x \in S}
           less == StrictSubsetOrdering(1 .. n)
<1>1. IsWellFoundedOn(less, SUBSET (1 .. n))
  <2>1. IsFiniteSet(1 .. n)
    BY FS_Interval
  <2>2. FiniteSubsetsOf(1 .. n) = SUBSET (1 .. n)
    BY <2>1, FS_FiniteSubsetsOfFinite
  <2>3. QED
    BY <2>2, FS_StrictSubsetOrderingWellFounded
<1>2. T \subseteq SUBSET (1 .. n) /\ T # {}
  <2>1. \A x \in S : 1 .. x \in SUBSET (1 .. n)
    OBVIOUS
  <2> DEFINE I == SUBSET (1 .. n)
  <2>2. \A x \in S : 1 .. x \in I
    BY <2>1
  <2> HIDE DEF I
  <2>3. T \subseteq I /\ T # {}
    BY <2>2
  <2>4. QED
    BY <2>3 DEF I
<1> HIDE DEF less
<1>3. \E X \in T : \A Y \in T : <<Y, X>> \notin less
  BY <1>1, <1>2, WFMin
<1>4. PICK x \in S : \A y \in S : <<1 .. y, 1 .. x>> \notin less
  BY <1>3
<1>5. ASSUME NEW y \in S, ~(x <= y) PROVE FALSE
  <2>1. x \in 1 .. n /\ y \in 1 .. n /\ y < x
    BY <1>5
  <2>2. 1 .. y \subseteq 1 .. x /\ x \in 1 .. x /\ x \notin 1 .. y
    BY <2>1
  <2>3. 1 .. y \in SUBSET (1 .. n) /\ 1 .. x \in SUBSET (1 .. n) /\ 1 .. y # 1 .. x
    BY <2>1, <2>2
  <2>4. <<1 .. y, 1 .. x>> \in less
    BY <2>2, <2>3 DEF less, StrictSubsetOrdering
  <2>5. QED
    BY <1>4, <2>4
<1>6. QED
  BY <1>5

LEMMA RootIsAdmin ==
  ASSUME AccountsAssumption, Admins # {}
  PROVE  RootAdmin \in Admins /\ RootAdmin # Nobody
<1>1. MaxUsers \in Nat /\ Admins \subseteq 1 .. MaxUsers
  BY DEF AccountsAssumption, Admins, Ids
<1>2. \E u \in Admins : \A v \in Admins : u <= v
  BY <1>1, LeastOf
<1>3. RootAdmin \in Admins
  BY <1>2 DEF RootAdmin
<1>4. QED
  BY <1>1, <1>3 DEF Nobody

LEMMA RootStays ==
  ASSUME Admins' = Admins
  PROVE  RootAdmin' = RootAdmin
<1> DEFINE Oldest(S) == IF S = {} THEN Nobody ELSE CHOOSE u \in S : \A v \in S : u <= v
<1>1. RootAdmin = Oldest(Admins) /\ RootAdmin' = Oldest(Admins')
  BY DEF RootAdmin
<1> HIDE DEF Oldest
<1>2. QED
  BY <1>1

\* A written row is one of those made at the start only if it was, or it is the one made.
LEMMA WrittenAutos ==
  ASSUME Sound, NEW u \in Ids, NEW row, users' = [users EXCEPT ![u] = row]
  PROVE  /\ Autos' \subseteq Autos \cup {u}
         /\ (row.state = "row" /\ row.auto => u \in Autos) => Autos' \subseteq Autos
<1>1. users'[u] = row /\ \A v \in Ids \ {u} : users'[v] = users[v]
  BY DEF Sound, AccountsStrengthening, AccountsTypeOK
<1>2. QED
  BY <1>1 DEF Autos, Exists

LEMMA InsertedAutos ==
  ASSUME Sound, NEW name, NEW role, NEW scope, NEW auto \in BOOLEAN,
         Insert(Row(name, role, scope, FALSE, hashes', auto))
  PROVE  /\ \E u \in Ids : Autos' \subseteq Autos \cup {u}
         /\ ~auto => Autos' \subseteq Autos
<1> DEFINE row == Row(name, role, scope, FALSE, hashes', auto)
<1>1. PICK u \in Ids : users' = [users EXCEPT ![u] = row]
  BY DEF Insert
<1>2. row.auto = auto
  BY DEF Row
<1> HIDE DEF row
<1>3. QED
  BY <1>1, <1>2, WrittenAutos

LEMMA ReclaimedAutos ==
  ASSUME Sound, NEW u \in Ids, NEW auto \in BOOLEAN, Reclaim(u, auto)
  PROVE  /\ Autos' \subseteq Autos \cup {u}
         /\ ~auto => Autos' \subseteq Autos
<1> DEFINE row == Row(users[u].name, "admin", None, FALSE, hashes', auto)
<1>1. users' = [users EXCEPT ![u] = row]
  BY DEF Reclaim, Sound, AccountsStrengthening, AccountsTypeOK
<1>2. row.auto = auto
  BY DEF Row
<1> HIDE DEF row
<1>3. QED
  BY <1>1, <1>2, WrittenAutos

\* A root is made where nobody administers, and then somebody does.
MadeWhereNone == Admins = {} /\ Admins' # {} /\ \E u \in Ids : Autos' \subseteq Autos \cup {u}

LEMMA RootAutos ==
  ASSUME AccountsAssumption, Sound, NEW m \in Mains, MakeRoot(m) \/ ReuseRoot(m)
  PROVE  Autos' \subseteq Autos \/ MadeWhereNone
<1>1. RequestsHold /\ Sound'
  BY MakeRootSound, ReuseRootSound DEF Kept, Sound, AccountsStrengthening
<1>2. CASE users' = users
  BY <1>2 DEF Autos, Exists
<1>3. CASE Admins = {} /\ CommitAnd(m, "up") /\ \E u \in Ids : Autos' \subseteq Autos \cup {u}
  <2>1. Settled(m)'
    BY <1>1, <1>3, CommitMoves DEF Settled, At
  <2>2. QED
    BY <1>1, <1>3, <2>1 DEF Sound, AccountsStrengthening, SettledHaveAdmin, MadeWhereNone
<1>4. CASE MakeRoot(m)
  <2>1. \/ users' = users
        \/ /\ Admins = {} /\ CommitAnd(m, "up")
           /\ \E name \in Names : Insert(Row(name, "admin", None, FALSE, hashes', TRUE))
    BY <1>4 DEF MakeRoot, Winner, RowsStay, AccountsAssumption
  <2>2. QED
    BY <1>2, <1>3, <2>1, InsertedAutos
<1>5. CASE ReuseRoot(m)
  <2>1. \/ users' = users
        \/ Admins = {} /\ CommitAnd(m, "up") /\ Reclaim(procs[m].user, TRUE)
    BY <1>5 DEF ReuseRoot, Winner, RowsStay
  <2>2. procs[m].user \in Ids
    BY <1>1, <1>5 DEF RequestsHold, ReuseRoot, At
  <2>3. QED
    BY <1>2, <1>3, <2>1, <2>2, ReclaimedAutos
<1>6. QED
  BY <1>4, <1>5

LEMMA NextAutos ==
  ASSUME AccountsAssumption, Sound, [Next]_vars
  PROVE  Autos' \subseteq Autos \/ MadeWhereNone
<1>1. AccountsTypeOK /\ RequestsHold
  BY DEF Sound, AccountsStrengthening
<1>2. ASSUME users' = users PROVE Autos' \subseteq Autos
  BY <1>2 DEF Autos, Exists
<1>3. ASSUME NEW m \in Mains, CreateAdmin(m) \/ PromoteAdmin(m) PROVE Autos' \subseteq Autos
  <2>1. CASE CreateAdmin(m)
    BY <1>2, <2>1, InsertedAutos DEF CreateAdmin, RowsStay
  <2>2. CASE PromoteAdmin(m)
    <3>1. procs[m].user \in Ids
      BY <1>1, <2>2 DEF RequestsHold, PromoteAdmin, At
    <3>2. users' = users \/ Reclaim(procs[m].user, FALSE)
      BY <2>2 DEF PromoteAdmin, RowsStay
    <3>3. QED
      BY <1>2, <3>1, <3>2, ReclaimedAutos
  <2>3. QED
    BY <1>3, <2>1, <2>2
<1>4. ASSUME NEW c \in Clients, ChangeOwnPassword(c) PROVE Autos' \subseteq Autos
  <2> DEFINE u == procs[c].user
             row == [users[u] EXCEPT !.hash = hashes', !.auto = FALSE]
  <2>1. u \in Ids /\ Exists(u)
    BY <1>1, <1>4 DEF RequestsHold, ChangeOwnPassword, At
  <2>2. users' = [users EXCEPT ![u] = row]
    BY <1>1, <1>4, <2>1 DEF ChangeOwnPassword, AccountsTypeOK
  <2>3. users[u] \in UserRows
    BY <1>1, <2>1 DEF AccountsTypeOK, Exists, Unborn, Deleted
  <2>4. row.auto = FALSE
    BY <2>3 DEF UserRows
  <2> HIDE DEF row, u
  <2>5. QED
    BY <2>1, <2>2, <2>4, WrittenAutos
<1>5. ASSUME NEW c \in Clients, CreateUser(c) PROVE Autos' \subseteq Autos
  BY <1>5, InsertedAutos DEF CreateUser
<1>6. ASSUME NEW c \in Clients, UpdateUser(c) PROVE Autos' \subseteq Autos
  <2> DEFINE u == procs[c].user
             change == procs[c].change
             hash == IF change.password THEN hashes' ELSE users[u].hash
             row == Updated(u, change, hash)
  <2>1. u \in Ids
    BY <1>1, <1>6 DEF RequestsHold, UpdateUser, At
  <2>2. users' = users \/ (Exists(u) /\ users' = [users EXCEPT ![u] = row])
    BY <1>6 DEF UpdateUser
  <2>3. ASSUME Exists(u), row.auto PROVE u \in Autos
    <3>1. users[u] \in UserRows
      BY <1>1, <2>1, <2>3 DEF AccountsTypeOK, Exists, Unborn, Deleted
    <3>2. row.auto = (users[u].auto /\ ~change.password)
      BY <3>1 DEF Updated, UserRows
    <3>3. QED
      BY <2>1, <2>3, <3>2 DEF Autos
  <2> HIDE DEF row, u
  <2>4. QED
    BY <1>2, <2>1, <2>2, <2>3, WrittenAutos
<1>7. ASSUME NEW c \in Clients, DeleteUser(c) PROVE Autos' \subseteq Autos
  <2>1. PICK u \in Ids : users' = [users EXCEPT ![u] = Deleted]
    BY <1>7 DEF DeleteUser
  <2>2. Deleted.state # "row"
    BY DEF Deleted
  <2>3. QED
    BY <2>1, <2>2, WrittenAutos
<1>8. ASSUME MergeGroups PROVE Autos' \subseteq Autos
  BY <1>8, MergeOnlyMoves
<1>9. ASSUME NEW m \in Mains, MainNext(m) PROVE Autos' \subseteq Autos \/ MadeWhereNone
  <2>1. CASE \/ Start(m) \/ LookupAdmin(m) \/ Count(m) \/ LookupRoot(m)
             \/ ResolveRoot(m) \/ StoreRoot(m)
    BY <1>2, <2>1 DEF Start, LookupAdmin, Count, LookupRoot, ResolveRoot, StoreRoot, RowsStay
  <2>2. QED
    BY <1>3, <1>9, <2>1, RootAutos DEF MainNext
<1>10. ASSUME NEW c \in Clients, ClientNext(c) PROVE Autos' \subseteq Autos
  <2>1. CASE \/ Authenticate(c) \/ MintSession(c) \/ ValidateSession(c)
             \/ CreateApiToken(c) \/ RevokeApiToken(c) \/ Observe(c)
             \/ ResolveRoot(c) \/ StoreRoot(c)
    BY <1>2, <2>1 DEF Authenticate, MintSession, ValidateSession, CreateApiToken,
       RevokeApiToken, Observe, ResolveRoot, StoreRoot, RowsStay
  <2>2. QED
    BY <1>4, <1>5, <1>6, <1>7, <1>10, <2>1 DEF ClientNext
<1>11. QED
  BY <1>2, <1>8, <1>9, <1>10 DEF Next, vars, RevokeSession, DeleteGroup

LEMMA RootMadeStep ==
  ASSUME AccountsAssumption, Sound, RootMadeRemains, [Next]_vars
  PROVE  RootMadeRemains'
<1>1. Admins # {} => Admins' # {}
  BY SoundNext DEF Kept
<1>2. CASE Autos' \subseteq Autos
  BY <1>1, <1>2 DEF RootMadeRemains
<1>3. CASE MadeWhereNone
  BY <1>3 DEF MadeWhereNone, RootMadeRemains
<1>4. QED
  BY <1>2, <1>3, NextAutos

-----------------------------------------------------------------------------
(* The cache.                                                                *)

Moved(p) ==
  /\ DOMAIN procs' = DOMAIN procs
  /\ \A q \in (Clients \cup Mains) \ {p} : procs'[q] = procs[q]

LEMMA MovedOnly ==
  ASSUME RequestsHold, NEW p \in Clients \cup Mains, NEW r, procs' = [procs EXCEPT ![p] = r]
  PROVE  Moved(p) /\ procs'[p] = r
BY DEF RequestsHold, Moved

LEMMA GotoOnly ==
  ASSUME RequestsHold, NEW p \in Clients \cup Mains, NEW pc, Goto(p, pc)
  PROVE  Moved(p) /\ procs'[p].pc = pc
<1> DEFINE r == [procs[p] EXCEPT !.pc = pc]
<1>1. r.pc = pc
  BY DEF RequestsHold, Idle
<1>2. procs' = [procs EXCEPT ![p] = r]
  BY DEF Goto
<1> HIDE DEF r
<1>3. QED
  BY <1>1, <1>2, MovedOnly

LEMMA ReturnOnly ==
  ASSUME RequestsHold, NEW p \in Clients \cup Mains, Return(p)
  PROVE  Moved(p) /\ procs'[p].pc = "idle"
<1>1. Idle.pc = "idle"
  BY DEF Idle
<1>2. QED
  BY <1>1, MovedOnly DEF Return

LEMMA HoldOnly ==
  ASSUME RequestsHold, NEW p \in Clients \cup Mains, NEW pc, NEW u, NEW seen, NEW change,
         Hold(p, pc, u, seen, change)
  PROVE  Moved(p) /\ procs'[p].pc = pc
<1> DEFINE r == [Idle EXCEPT !.pc = pc, !.user = u, !.seen = seen, !.change = change]
<1>1. r.pc = pc
  BY DEF Idle
<1>2. procs' = [procs EXCEPT ![p] = r]
  BY DEF Hold
<1> HIDE DEF r
<1>3. QED
  BY <1>1, <1>2, MovedOnly

LEMMA CommitOnly ==
  ASSUME RequestsHold, NEW p \in Clients \cup Mains, NEW next, CommitAnd(p, next)
  PROVE  /\ Moved(p) /\ procs'[p].pc = IF p = OtherMain THEN next ELSE "refresh"
         /\ foreign => foreign'
         /\ p = OtherMain /\ users' # users => foreign'
<1> DEFINE r == [Idle EXCEPT !.pc = IF p = OtherMain THEN next ELSE "refresh", !.next = next]
<1>1. r.pc = IF p = OtherMain THEN next ELSE "refresh"
  BY DEF Idle
<1>2. procs' = [procs EXCEPT ![p] = r]
  BY DEF CommitAnd
<1> HIDE DEF r
<1>3. Moved(p) /\ procs'[p] = r
  BY <1>2, MovedOnly
<1>4. QED
  BY <1>1, <1>3 DEF CommitAnd

CacheSound == MutexHeld /\ CacheFollows

\* A goroutine that has nothing to do with the cache, before or after its step.
Aside(p) ==
  /\ Moved(p) /\ CacheStays /\ (foreign => foreign')
  /\ procs[p].pc \notin {"refresh", "store"}
  /\ p \in Clients => At(Main, "up")
  /\ p = Main => ~At(Main, "up")

LEMMA AsideQuiet ==
  ASSUME AccountsAssumption, CacheSound, NEW p \in Clients \cup Mains, Aside(p),
         Admins' = Admins \/ foreign',
         procs'[p].pc \notin {"refresh", "store"}, p = Main => ~At(Main, "up")'
  PROVE  CacheSound'
<1>1. /\ Main \in Mains /\ OtherMain \in Mains /\ Main # OtherMain
      /\ Main \notin Clients /\ OtherMain \notin Clients
  BY DEF AccountsAssumption, Mains
<1>2. root' = root /\ mu' = mu /\ \A q \in (Clients \cup Mains) \ {p} : procs'[q] = procs[q]
  BY DEF Aside, CacheStays, Moved
<1>3. MutexHeld'
  BY <1>1, <1>2 DEF CacheSound, MutexHeld, Aside, At
<1>4. ASSUME Settled(Main)', ~foreign', ~Refreshing'
      PROVE  RootAdmin' = IF mu' = None THEN root' ELSE procs'[mu'].seen
  <2>1. p # Main
    BY <1>4 DEF Settled, At
  <2>2. Settled(Main) /\ ~foreign
    BY <1>1, <1>2, <1>4, <2>1 DEF Settled, At, Aside
  <2>3. ~Refreshing
    BY <1>1, <1>2, <1>4, <2>1 DEF Refreshing, At, Aside
  <2>4. RootAdmin' = RootAdmin
    BY <1>4, RootStays
  <2>5. mu # p
    BY DEF CacheSound, MutexHeld, At, Aside
  <2>6. mu = None \/ procs'[mu] = procs[mu]
    BY <1>2, <2>5 DEF CacheSound, MutexHeld
  <2>7. QED
    BY <1>2, <2>2, <2>3, <2>4, <2>6 DEF CacheSound, CacheFollows
<1>5. QED
  BY <1>3, <1>4 DEF CacheSound, CacheFollows

LEMMA AsideCommits ==
  ASSUME AccountsAssumption, CacheSound, NEW p \in Clients \cup {Main}, Aside(p),
         procs'[p].pc = "refresh"
  PROVE  CacheSound'
<1>1. /\ Main \in Mains /\ OtherMain \in Mains /\ Main # OtherMain
      /\ Main \notin Clients /\ OtherMain \notin Clients
  BY DEF AccountsAssumption, Mains
<1>2. root' = root /\ mu' = mu /\ \A q \in (Clients \cup Mains) \ {p} : procs'[q] = procs[q]
  BY DEF Aside, CacheStays, Moved
<1>3. MutexHeld'
  BY <1>1, <1>2 DEF CacheSound, MutexHeld, Aside, At
<1>4. Refreshing'
  BY DEF Refreshing, At
<1>5. QED
  BY <1>3, <1>4 DEF CacheSound, CacheFollows

LEMMA ResolveRootCache ==
  ASSUME AccountsAssumption, Sound, CacheSound, NEW p \in Clients \cup Mains, ResolveRoot(p)
  PROVE  CacheSound'
<1> DEFINE r == [procs[p] EXCEPT !.pc = "store", !.seen = RootAdmin]
<1>1. procs' = [procs EXCEPT ![p] = r]
  BY DEF ResolveRoot
<1>2. r.pc = "store" /\ r.seen = RootAdmin /\ r.next = procs[p].next
  BY DEF Sound, AccountsStrengthening, RequestsHold, Idle
<1> HIDE DEF r
<1>3. /\ procs'[p] = r /\ \A q \in (Clients \cup Mains) \ {p} : procs'[q] = procs[q]
  BY <1>1, MovedOnly DEF Sound, AccountsStrengthening, Moved
<1>4. /\ Main \in Mains /\ OtherMain \in Mains /\ Main # OtherMain
      /\ Main \notin Clients /\ OtherMain \notin Clients /\ p # None
  BY DEF AccountsAssumption, Mains
<1>5. mu = None /\ mu' = p /\ At(p, "refresh") /\ RowsStay
  BY DEF ResolveRoot
<1>6. MutexHeld'
  BY <1>2, <1>3, <1>4, <1>5 DEF CacheSound, MutexHeld, At
<1>7. RootAdmin' = RootAdmin
  BY <1>5, RowsStayKeeps, RootStays
<1>8. CacheFollows'
  BY <1>2, <1>3, <1>4, <1>5, <1>7 DEF CacheFollows
<1>9. QED
  BY <1>6, <1>8 DEF CacheSound

LEMMA StoreRootCache ==
  ASSUME AccountsAssumption, Sound, CacheSound, NEW p \in Clients \cup Mains, StoreRoot(p)
  PROVE  CacheSound'
<1> DEFINE r == [Idle EXCEPT !.pc = procs[p].next]
<1>1. procs' = [procs EXCEPT ![p] = r]
  BY DEF StoreRoot
<1>2. r.pc = procs[p].next /\ procs[p].next \in {"idle", "count", "up"} /\ r.next = "idle"
  BY DEF Idle, Sound, AccountsStrengthening, RequestsHold
<1> HIDE DEF r
<1>3. /\ procs'[p] = r /\ \A q \in (Clients \cup Mains) \ {p} : procs'[q] = procs[q]
  BY <1>1, MovedOnly DEF Sound, AccountsStrengthening, Moved
<1>4. /\ Main \in Mains /\ OtherMain \in Mains /\ Main # OtherMain
      /\ Main \notin Clients /\ OtherMain \notin Clients /\ p # None
  BY DEF AccountsAssumption, Mains
<1>5. /\ mu = p /\ mu' = None /\ At(p, "store") /\ RowsStay /\ p # OtherMain
      /\ root' = (IF procs[p].seen = Nobody THEN root ELSE procs[p].seen)
  BY DEF StoreRoot, CacheSound, MutexHeld, At
<1>6. MutexHeld'
  <2>1. \A q \in Clients \cup Mains : ~At(q, "store")'
    BY <1>2, <1>3, <1>5 DEF CacheSound, MutexHeld, At
  <2>2. procs'[OtherMain].pc \notin {"refresh", "store"}
    BY <1>3, <1>4, <1>5 DEF CacheSound, MutexHeld
  <2>3. \A c \in Clients : (At(c, "idle") \/ At(Main, "up"))'
    <3>1. CASE p = Main
      BY <1>3, <1>4, <1>5, <3>1 DEF CacheSound, MutexHeld, At
    <3>2. CASE p # Main
      BY <1>3, <1>4, <1>5, <3>2 DEF CacheSound, MutexHeld, At
    <3>3. QED
      BY <3>1, <3>2
  <2>4. QED
    BY <1>4, <1>5, <2>1, <2>2, <2>3 DEF MutexHeld, CacheSound
<1>7. ASSUME Settled(Main)', ~foreign', ~Refreshing' PROVE RootAdmin' = root'
  <2>1. Admins' = Admins /\ RootAdmin' = RootAdmin /\ foreign' = foreign
    BY <1>5, RowsStayKeeps, RootStays DEF RowsStay
  <2>2. Settled(Main)
    BY <1>2, <1>3, <1>4, <1>5, <1>7 DEF Settled, At
  <2>3. ~Refreshing
    BY <1>3, <1>4, <1>5, <1>7 DEF Refreshing, At
  <2>4. RootAdmin = procs[p].seen
    BY <1>4, <1>5, <1>7, <2>1, <2>2, <2>3 DEF CacheSound, CacheFollows
  <2>5. Admins # {}
    BY <1>4, <2>2 DEF Sound, AccountsStrengthening, SettledHaveAdmin
  <2>6. QED
    BY <1>5, <2>1, <2>4, <2>5, RootIsAdmin
<1>8. QED
  BY <1>5, <1>6, <1>7 DEF CacheSound, CacheFollows

Starting == {"start", "lookup", "create", "promote", "count", "root", "make", "reuse"}

\* A step of a process that starts goes on with the start, or commits.
LEMMA MainStep ==
  ASSUME Sound, NEW m \in Mains,
         \/ Start(m) \/ LookupAdmin(m) \/ CreateAdmin(m) \/ PromoteAdmin(m)
         \/ Count(m) \/ LookupRoot(m) \/ MakeRoot(m) \/ ReuseRoot(m)
  PROVE  /\ procs[m].pc \in Starting /\ Moved(m) /\ CacheStays /\ (foreign => foreign')
         /\ \/ procs'[m].pc \in Starting /\ users' = users
            \/ procs'[m].pc = "refresh" /\ m # OtherMain
            \/ m = OtherMain /\ procs'[m].pc \in {"count", "up"} /\ (users' = users \/ foreign')
<1>1. RequestsHold
  BY DEF Sound, AccountsStrengthening
<1>2. procs[m].pc \in Starting /\ CacheStays
  BY DEF Start, LookupAdmin, CreateAdmin, PromoteAdmin, Count, LookupRoot, MakeRoot, ReuseRoot,
     At, Starting
<1>3. CASE RowsStay /\ \E pc \in Starting : Goto(m, pc)
  <2>1. PICK pc \in Starting : Goto(m, pc)
    BY <1>3
  <2>2. QED
    BY <1>1, <1>2, <1>3, <2>1, GotoOnly DEF RowsStay
<1>4. CASE RowsStay /\ \E pc \in Starting : \E u, seen : Hold(m, pc, u, seen, None)
  <2>1. PICK pc \in Starting : \E u, seen : Hold(m, pc, u, seen, None)
    BY <1>4
  <2>2. QED
    BY <1>1, <1>2, <1>4, <2>1, HoldOnly DEF RowsStay
<1>5. CASE \E next \in {"count", "up"} : CommitAnd(m, next)
  <2>1. PICK next \in {"count", "up"} : CommitAnd(m, next)
    BY <1>5
  <2>2. QED
    BY <1>1, <1>2, <2>1, CommitOnly
<1>6. CASE Count(m) /\ Admins # {}
  <2> DEFINE r == [Idle EXCEPT !.pc = IF m = OtherMain THEN "up" ELSE "refresh", !.next = "up"]
  <2>1. procs' = [procs EXCEPT ![m] = r]
    BY <1>6 DEF Count
  <2>2. r.pc = IF m = OtherMain THEN "up" ELSE "refresh"
    BY DEF Idle
  <2> HIDE DEF r
  <2>3. Moved(m) /\ procs'[m] = r
    BY <1>1, <2>1, MovedOnly
  <2>4. QED
    BY <1>2, <1>6, <2>2, <2>3 DEF Count, RowsStay
<1>7. CASE Start(m) \/ LookupAdmin(m) \/ LookupRoot(m)
  BY <1>3, <1>4, <1>7 DEF Start, LookupAdmin, LookupRoot, Starting
<1>8. CASE CreateAdmin(m) \/ PromoteAdmin(m)
  BY <1>3, <1>5, <1>8 DEF CreateAdmin, PromoteAdmin, Starting
<1>9. CASE MakeRoot(m) \/ ReuseRoot(m)
  BY <1>3, <1>5, <1>9 DEF MakeRoot, ReuseRoot, Winner, Starting
<1>10. CASE Count(m) /\ Admins = {}
  BY <1>3, <1>10 DEF Count, Starting
<1>11. QED
  BY <1>6, <1>7, <1>8, <1>9, <1>10

Serving == {"idle", "mint", "account", "update"}

\* A step of a request changes the administrators only as it commits.
LEMMA ClientStep ==
  ASSUME Sound, MutexHeld, NEW c \in Clients,
         \/ Authenticate(c) \/ MintSession(c) \/ ValidateSession(c)
         \/ CreateApiToken(c) \/ RevokeApiToken(c) \/ ChangeOwnPassword(c)
         \/ CreateUser(c) \/ Observe(c) \/ UpdateUser(c) \/ DeleteUser(c),
         AccountsAssumption
  PROVE  /\ Aside(c)
         /\ \/ procs'[c].pc \in Serving /\ Admins' = Admins
            \/ procs'[c].pc = "refresh"
<1>1. RequestsHold /\ AccountsTypeOK /\ c # OtherMain /\ c \notin Mains
  BY DEF Sound, AccountsStrengthening, AccountsAssumption, Mains
<1>2. procs[c].pc \in Serving /\ CacheStays
  BY DEF Authenticate, MintSession, ValidateSession, CreateApiToken, RevokeApiToken,
     ChangeOwnPassword, CreateUser, Observe, UpdateUser, DeleteUser, Ready, At, Serving
<1>3. At(Main, "up")
  <2>1. CASE At(c, "idle")
    BY <2>1 DEF Authenticate, MintSession, ValidateSession, CreateApiToken, RevokeApiToken,
       ChangeOwnPassword, CreateUser, Observe, UpdateUser, DeleteUser, Ready, At
  <2>2. QED
    BY <2>1 DEF MutexHeld
<1>4. ASSUME Moved(c), foreign => foreign' PROVE Aside(c)
  BY <1>1, <1>2, <1>3, <1>4 DEF Aside, Serving, Mains
<1>5. CASE Authenticate(c) \/ ValidateSession(c) \/ Observe(c)
  <2>1. PICK pc \in Serving : \E u, seen, change : Hold(c, pc, u, seen, change)
    BY <1>5 DEF Authenticate, ValidateSession, Observe, Serving
  <2>2. Moved(c) /\ procs'[c].pc = pc
    BY <1>1, <2>1, HoldOnly
  <2>3. RowsStay
    BY <1>5 DEF Authenticate, ValidateSession, Observe
  <2>4. Admins' = Admins /\ foreign' = foreign
    BY <2>3, RowsStayKeeps DEF RowsStay
  <2>5. QED
    BY <1>4, <2>2, <2>4
<1>6. CASE MintSession(c) \/ CreateApiToken(c) \/ RevokeApiToken(c)
  <2>1. Return(c) /\ users' = users /\ foreign' = foreign
    BY <1>6 DEF MintSession, CreateApiToken, RevokeApiToken
  <2>2. Moved(c) /\ procs'[c].pc = "idle"
    BY <1>1, <2>1, ReturnOnly
  <2>3. Admins' = Admins
    BY <2>1 DEF Admins, Enabled, Exists
  <2>4. QED
    BY <1>4, <2>1, <2>2, <2>3 DEF Serving
<1>7. CASE ChangeOwnPassword(c)
  <2> DEFINE u == procs[c].user
             row == [users[u] EXCEPT !.hash = hashes', !.auto = FALSE]
  <2>1. u \in Ids /\ Exists(u)
    BY <1>1, <1>7 DEF RequestsHold, ChangeOwnPassword, At
  <2>2. users' = [users EXCEPT ![u] = row]
    BY <1>1, <1>7, <2>1 DEF ChangeOwnPassword, AccountsTypeOK
  <2>3. users[u] \in UserRows
    BY <1>1, <2>1 DEF AccountsTypeOK, Exists, Unborn, Deleted
  <2>4. row.state = users[u].state /\ row.role = users[u].role /\ row.disabled = users[u].disabled
    BY <2>3 DEF UserRows
  <2> HIDE DEF row
  <2>5. users'[u] = row /\ \A v \in Ids \ {u} : users'[v] = users[v]
    BY <1>1, <2>1, <2>2 DEF AccountsTypeOK
  <2> HIDE DEF u
  <2>6. \A v \in Ids : /\ users'[v].state = users[v].state /\ users'[v].role = users[v].role
                       /\ users'[v].disabled = users[v].disabled
    BY <2>4, <2>5
  <2>7. Admins' = Admins
    BY <2>6 DEF Admins, Enabled, Exists
  <2>8. Moved(c) /\ procs'[c].pc = "idle" /\ foreign' = foreign
    BY <1>1, <1>7, ReturnOnly DEF ChangeOwnPassword
  <2>9. QED
    BY <1>4, <2>7, <2>8 DEF Serving
<1>8. CASE CommitAnd(c, "idle")
  BY <1>1, <1>4, <1>8, CommitOnly
<1>9. CASE UpdateUser(c) /\ ~CommitAnd(c, "idle")
  <2>1. users' = users /\ foreign' = foreign
    BY <1>9 DEF UpdateUser
  <2>2. Admins' = Admins
    BY <2>1 DEF Admins, Enabled, Exists
  <2>3. CASE Return(c)
    <3>1. Moved(c) /\ procs'[c].pc = "idle"
      BY <1>1, <2>3, ReturnOnly
    <3>2. QED
      BY <1>4, <2>1, <2>2, <3>1 DEF Serving
  <2>4. CASE \E seen : procs' = [procs EXCEPT ![c].seen = seen]
    <3>1. PICK seen : procs' = [procs EXCEPT ![c].seen = seen]
      BY <2>4
    <3> DEFINE r == [procs[c] EXCEPT !.seen = seen]
    <3>2. procs' = [procs EXCEPT ![c] = r] /\ r.pc = procs[c].pc
      BY <1>1, <3>1 DEF RequestsHold, Idle
    <3> HIDE DEF r
    <3>3. Moved(c) /\ procs'[c].pc = procs[c].pc
      BY <1>1, <3>2, MovedOnly
    <3>4. QED
      BY <1>2, <1>4, <2>1, <2>2, <3>3
  <2>5. QED
    BY <1>9, <2>3, <2>4 DEF UpdateUser
<1>10. QED
  BY <1>5, <1>6, <1>7, <1>8, <1>9 DEF CreateUser, DeleteUser

LEMMA CacheStep ==
  ASSUME AccountsAssumption, Sound, CacheSound, [Next]_vars
  PROVE  CacheSound'
<1>1. /\ Main \in Mains /\ OtherMain \in Mains /\ Main # OtherMain
      /\ Main \notin Clients /\ OtherMain \notin Clients /\ Mains \subseteq {Main, OtherMain}
  BY DEF AccountsAssumption, Mains
<1>2. ASSUME procs' = procs, CacheStays, Admins' = Admins, foreign' = foreign
      PROVE  CacheSound'
  <2>1. RootAdmin' = RootAdmin
    BY <1>2, RootStays
  <2>2. MutexHeld'
    BY <1>2 DEF CacheSound, MutexHeld, At, CacheStays
  <2>3. CacheFollows'
    BY <1>2, <2>1 DEF CacheSound, CacheFollows, CacheStays, Settled, Refreshing, At
  <2>4. QED
    BY <2>2, <2>3 DEF CacheSound
<1>3. ASSUME users' = users PROVE Admins' = Admins
  BY <1>3 DEF Admins, Enabled, Exists
<1>4. CASE UNCHANGED vars
  BY <1>2, <1>3, <1>4 DEF vars, CacheStays
<1>5. CASE RevokeSession \/ DeleteGroup
  BY <1>2, <1>3, <1>5 DEF RevokeSession, DeleteGroup
<1>6. CASE MergeGroups
  BY <1>2, <1>6, MergeOnlyMoves DEF MergeGroups
<1>7. ASSUME NEW m \in Mains, MainNext(m) PROVE CacheSound'
  <2>1. CASE ResolveRoot(m) \/ StoreRoot(m)
    BY <2>1, ResolveRootCache, StoreRootCache
  <2>2. CASE ~(ResolveRoot(m) \/ StoreRoot(m))
    <3>1. /\ procs[m].pc \in Starting /\ Moved(m) /\ CacheStays /\ (foreign => foreign')
          /\ \/ procs'[m].pc \in Starting /\ users' = users
             \/ procs'[m].pc = "refresh" /\ m # OtherMain
             \/ /\ m = OtherMain /\ procs'[m].pc \in {"count", "up"}
                /\ users' = users \/ foreign'
      BY <1>7, <2>2, MainStep DEF MainNext
    <3>2. Aside(m)
      BY <1>1, <3>1 DEF Aside, Starting, At
    <3>3. CASE procs'[m].pc = "refresh" /\ m # OtherMain
      BY <1>1, <3>2, <3>3, AsideCommits
    <3>4. CASE procs'[m].pc \in Starting /\ users' = users
      BY <1>3, <3>2, <3>4, AsideQuiet DEF Starting, At
    <3>5. CASE m = OtherMain /\ procs'[m].pc \in {"count", "up"} /\ (users' = users \/ foreign')
      BY <1>1, <1>3, <3>2, <3>5, AsideQuiet
    <3>6. QED
      BY <3>1, <3>3, <3>4, <3>5
  <2>3. QED
    BY <2>1, <2>2
<1>8. ASSUME NEW c \in Clients, ClientNext(c) PROVE CacheSound'
  <2>1. CASE ResolveRoot(c) \/ StoreRoot(c)
    BY <2>1, ResolveRootCache, StoreRootCache
  <2>2. CASE ~(ResolveRoot(c) \/ StoreRoot(c))
    <3>1. MutexHeld
      BY DEF CacheSound
    <3>2. /\ Aside(c)
          /\ \/ procs'[c].pc \in Serving /\ Admins' = Admins
             \/ procs'[c].pc = "refresh"
      BY <1>8, <2>2, <3>1, ClientStep DEF ClientNext
    <3>3. CASE procs'[c].pc = "refresh"
      BY <3>2, <3>3, AsideCommits
    <3>4. CASE procs'[c].pc \in Serving /\ Admins' = Admins
      BY <1>1, <3>2, <3>4, AsideQuiet DEF Serving
    <3>5. QED
      BY <3>2, <3>3, <3>4
  <2>3. QED
    BY <2>1, <2>2
<1>9. QED
  BY <1>4, <1>5, <1>6, <1>7, <1>8 DEF Next

LEMMA StartsInit ==
  ASSUME AccountsAssumption, Init
  PROVE  StartsAndRefreshes
<1>1. users \in OldUsers
  BY DEF Init
<1>2. Autos = {}
  <2> SUFFICES ASSUME NEW u \in Ids, Exists(u), users[u].auto PROVE FALSE
    BY DEF Autos
  <2>1. users[u] # Unborn
    BY DEF Exists, Unborn
  <2>2. PICK name \in Names, role \in Roles, scope \in Groups \cup {None}, disabled \in BOOLEAN :
          Confined(role, scope) /\ users[u] = Row(name, role, scope, disabled, 0, FALSE)
    BY <1>1, <2>1 DEF AccountsAssumption
  <2>3. QED
    BY <2>2 DEF Row
<1>3. RootMadeRemains
  BY <1>2 DEF RootMadeRemains
<1>4. \A p \in Clients \cup Mains : procs[p].pc \in {"idle", "start"}
  BY DEF Init, Idle
<1>5. \A c \in Clients : procs[c].pc = "idle"
  BY DEF Init, Idle, AccountsAssumption
<1>6. OtherMain \in Mains /\ Main \in Mains /\ mu = None
  BY DEF Mains, Init
<1>7. MutexHeld
  BY <1>4, <1>5, <1>6 DEF MutexHeld, At, AccountsAssumption
<1>8. CacheFollows
  BY <1>4, <1>6 DEF CacheFollows, Settled, At
<1>9. QED
  BY <1>3, <1>7, <1>8 DEF StartsAndRefreshes

\* What TLC checks as AdminsSound is inductive with what is stored.
THEOREM StartsAlwaysSound == Spec => []StartsAndRefreshes
<1>1. Init => StartsAndRefreshes
  BY AccountsAssumption, StartsInit
<1>2. Sound /\ StartsAndRefreshes /\ [Next]_vars => StartsAndRefreshes'
  BY AccountsAssumption, RootMadeStep, CacheStep DEF StartsAndRefreshes, CacheSound
<1>3. QED
  BY <1>1, <1>2, AccountsSound, PTL DEF Spec

LEMMA OneOfEqual ==
  ASSUME NEW S, \A x, y \in S : x = y
  PROVE  Cardinality(S) <= 1
<1>1. CASE S = {}
  BY <1>1, FS_EmptySet
<1>2. CASE S # {}
  <2>1. PICK x \in S : S = {x}
    BY <1>2
  <2>2. QED
    BY <2>1, FS_Singleton
<1>3. QED
  BY <1>1, <1>2

\* However two processes start on one database, they make one root between them and one
\* that is there is not joined by another (createOrReuseRootAdmin), and a process that is
\* up has an administrator whatever happens to the one it made.
THEOREM AdminsAlwaysSound == Spec => []AdminsSound
<1>1. RootMadeRemains => OneRootMade
  BY OneOfEqual DEF RootMadeRemains, OneRootMade, Autos
<1>2. Sound /\ StartsAndRefreshes /\ AdminRemains => AdminsSound
  BY <1>1 DEF Sound, StartsAndRefreshes, AdminsSound
<1>3. QED
  BY <1>2, AccountsSound, StartsAlwaysSound, AdminAlwaysRemains, PTL

\* When every change of this process has been followed by its refresh, the cached root
\* administrator is the oldest enabled one, in whatever order the refreshes read and
\* stored (refreshRootAdmin).
THEOREM RootAlwaysCached == Spec => []RootCached
<1>1. MutexHeld /\ CacheFollows => RootCached
  <2> SUFFICES ASSUME MutexHeld, CacheFollows, At(Main, "up"), ~foreign,
                      \A p \in Clients \cup {Main} : procs[p].pc \notin {"refresh", "store"}
               PROVE  root = RootAdmin
    BY DEF RootCached
  <2>1. mu = None
    BY DEF MutexHeld, At, Mains
  <2>2. ~Refreshing /\ Settled(Main)
    BY DEF Refreshing, Settled, At
  <2>3. QED
    BY <2>1, <2>2 DEF CacheFollows
<1>2. QED
  BY <1>1, StartsAlwaysSound, PTL DEF StartsAndRefreshes

-----------------------------------------------------------------------------
(* The limiter of logins.                                                    *)

LimiterSound == LimiterTypeOK /\ RecordsHold /\ LimitHeld /\ MapBounded

LEMMA CountedAreLive ==
  ASSUME LimiterTypeOK, RecordsHold, LimiterAssumption
  PROVE  NothingLeft
<1> SUFFICES ASSUME NEW k \in Keys PROVE {r.by : r \in Live(k)} = Counted(k)
  BY DEF NothingLeft
<1>1. ASSUME NEW r \in Live(k) PROVE r.by \in Counted(k)
  <2>1. r \in fails[k] /\ (r.pending \/ r.at + Window > time)
    BY <1>1 DEF Live
  <2>2. r.by \in Attempts /\ r.pending \in BOOLEAN
    BY <2>1 DEF LimiterTypeOK
  <2>3. RecordOf(r, k)
    BY <2>1 DEF RecordsHold
  <2>4. QED
    BY <2>1, <2>2, <2>3 DEF Counted, RecordOf
<1>2. ASSUME NEW a \in Counted(k) PROVE \E r \in Live(k) : r.by = a
  <2>1. PICK r \in fails[k] : r.by = a
    BY <1>2 DEF RecordsHold
  <2>2. RecordOf(r, k)
    BY DEF RecordsHold
  <2>3. r \in Live(k)
    BY <1>2, <2>1, <2>2 DEF Live, Counted, RecordOf, Judging
  <2>4. QED
    BY <2>1, <2>3
<1>3. QED
  BY <1>1, <1>2

LEMMA CountedNoMore ==
  ASSUME LimiterAssumption, LimiterTypeOK, RecordsHold, NEW k \in Keys
  PROVE  /\ IsFiniteSet(Live(k)) /\ IsFiniteSet(Counted(k))
         /\ Cardinality(Counted(k)) <= Cardinality(Live(k))
<1> DEFINE by == [r \in Live(k) |-> r.by]
           B == {r.by : r \in Live(k)}
<1>1. IsFiniteSet(Live(k))
  BY FS_Subset DEF Live, RecordsHold
<1>2. by \in Surjection(Live(k), B)
  BY DEF Surjection
<1>3. IsFiniteSet(B) /\ Cardinality(B) <= Cardinality(Live(k))
  BY <1>1, <1>2, FS_Surjection
<1>4. B = Counted(k)
  BY CountedAreLive DEF NothingLeft
<1>5. QED
  BY <1>1, <1>3, <1>4

\* A key under its limit has room for one more attempt that counts.
LEMMA RoomForOne ==
  ASSUME LimiterAssumption, LimiterTypeOK, RecordsHold, NEW k \in Keys, ~AtLimit(k), NEW a,
         NEW S, S \subseteq Counted(k) \cup {a}
  PROVE  Cardinality(S) <= Limit
<1> DEFINE C == Counted(k)
<1>1. IsFiniteSet(C) /\ IsFiniteSet(Live(k)) /\ Cardinality(C) <= Cardinality(Live(k))
  BY CountedNoMore
<1>2. Cardinality(Live(k)) \in Nat /\ Limit \in Nat /\ Cardinality(Live(k)) + 1 <= Limit
  BY <1>1, FS_CardinalityType DEF AtLimit, LimiterAssumption
<1> HIDE DEF C
<1>3. /\ IsFiniteSet(C \cup {a})
      /\ Cardinality(C) \in Nat /\ Cardinality(C \cup {a}) <= Cardinality(C) + 1
  <2>1. Cardinality(C) \in Nat
    BY <1>1, FS_CardinalityType
  <2>2. /\ IsFiniteSet(C \cup {a})
        /\ Cardinality(C \cup {a}) = IF a \in C THEN Cardinality(C) ELSE Cardinality(C) + 1
    BY <1>1, FS_AddElement
  <2>3. QED
    BY <2>1, <2>2
<1>4. IsFiniteSet(S) /\ Cardinality(S) <= Cardinality(C \cup {a})
  BY <1>3, FS_Subset DEF C
<1>5. Cardinality(S) \in Nat /\ Cardinality(C \cup {a}) \in Nat
  BY <1>3, <1>4, FS_CardinalityType
<1>6. QED
  BY <1>1, <1>2, <1>3, <1>4, <1>5

\* Fewer attempts that count keep the limit.
LEMMA FewerHeld ==
  ASSUME LimiterAssumption, LimiterSound, NEW k \in Keys, NEW S, S \subseteq Counted(k)
  PROVE  Cardinality(S) <= Limit
<1>1. IsFiniteSet(Counted(k)) /\ Cardinality(Counted(k)) <= Limit
  BY CountedNoMore DEF LimiterSound, LimitHeld
<1>2. Cardinality(S) <= Cardinality(Counted(k)) /\ IsFiniteSet(S)
  BY <1>1, FS_Subset
<1>3. QED
  BY <1>1, <1>2, FS_CardinalityType DEF LimiterAssumption

\* Fewer keys with records keep the bound of the map.
LEMMA MapShrinks ==
  ASSUME LimiterAssumption, LimiterSound, \A k \in Keys : fails'[k] # {} => fails[k] # {}
  PROVE  IsFiniteSet(Tracked(fails)') /\ MapBounded'
<1>1. Tracked(fails)' \subseteq Tracked(fails)
  BY DEF Tracked
<1>2. IsFiniteSet(Tracked(fails)) /\ Cardinality(Tracked(fails)) <= MaxKeys
  BY DEF LimiterSound, RecordsHold, MapBounded
<1>3. IsFiniteSet(Tracked(fails)') /\ Cardinality(Tracked(fails)') <= Cardinality(Tracked(fails))
  BY <1>1, <1>2, FS_Subset
<1>4. QED
  BY <1>2, <1>3, FS_CardinalityType DEF MapBounded, LimiterAssumption

Record == [by : Attempts, at : Nat, pending : BOOLEAN]

\* A map that has no more than the limiter's and what is live: pruned, or swept.
Prunes(map) ==
  /\ map \in [Keys -> SUBSET Record]
  /\ \A k \in Keys : Live(k) \subseteq map[k] /\ map[k] \subseteq fails[k]

LEMMA PrunedPrunes ==
  ASSUME LimiterTypeOK, NEW keys
  PROVE  Prunes(Pruned(keys)) /\ Prunes(Swept(keys))
<1>1. \A k \in Keys : Live(k) \subseteq fails[k] /\ fails[k] \subseteq Record
  BY DEF Live, LimiterTypeOK, Record
<1>2. ASSUME NEW X PROVE Prunes(Pruned(X))
  BY <1>1 DEF Prunes, Pruned
<1>3. QED
  BY <1>2 DEF Swept

LEMMA RefusedSound ==
  ASSUME LimiterAssumption, LimiterSound, NEW a \in Attempts, logins[a].pc = "idle",
         Refuse(a), Prunes(fails'), time' = time, nextSweep' \in Nat
  PROVE  LimiterSound'
<1>1. LimiterTypeOK /\ RecordsHold
  BY DEF LimiterSound
<1>2. /\ logins'[a].pc = "over"
      /\ \A b \in Attempts \ {a} : logins'[b] = logins[b]
      /\ logins' \in [Attempts -> [pc : {"idle", "judging", "rejected", "over"},
                                   keys : SUBSET Keys, at : Nat]]
  BY <1>1 DEF Refuse, LimiterTypeOK
<1>3. LimiterTypeOK'
  BY <1>1, <1>2 DEF LimiterTypeOK, Prunes, Record
<1>4. ASSUME NEW k \in Keys PROVE Counted(k)' \subseteq Counted(k)
  BY <1>2 DEF Counted, Judging
<1>5. LimitHeld'
  BY <1>4, FewerHeld DEF LimitHeld
<1>6. IsFiniteSet(Tracked(fails)') /\ MapBounded'
  BY MapShrinks DEF Prunes
<1>7. ASSUME NEW k \in Keys
      PROVE  /\ IsFiniteSet(fails'[k]) /\ \A r \in fails'[k] : RecordOf(r, k)'
             /\ \A b \in Counted(k)' : \E r \in fails'[k] : r.by = b
  <2>1. IsFiniteSet(fails'[k])
    BY <1>1, FS_Subset DEF Prunes, RecordsHold
  <2>2. ASSUME NEW r \in fails'[k] PROVE RecordOf(r, k)'
    <3>1. RecordOf(r, k) /\ r.by \in Attempts /\ r.pending \in BOOLEAN
      BY <1>1 DEF Prunes, RecordsHold, Record
    <3>2. r.by # a
      BY <3>1 DEF RecordOf, Judging
    <3>3. QED
      BY <1>2, <3>1, <3>2 DEF RecordOf, Judging
  <2>3. ASSUME NEW b \in Counted(k)' PROVE \E r \in fails'[k] : r.by = b
    <3>1. b \in {r.by : r \in Live(k)}
      BY <1>1, <1>4, CountedAreLive DEF NothingLeft
    <3>2. QED
      BY <3>1 DEF Prunes
  <2>4. QED
    BY <2>1, <2>2, <2>3
<1>8. QED
  BY <1>3, <1>5, <1>6, <1>7 DEF LimiterSound, RecordsHold

LEMMA AdmittedSound ==
  ASSUME LimiterAssumption, LimiterSound, NEW a \in Attempts, logins[a].pc = "idle",
         NEW keys \in SUBSET Keys, IsFiniteSet(keys), NEW map, Prunes(map),
         \A k \in keys : ~AtLimit(k), Fits(map, keys),
         fails' = Reserved(a, keys, map),
         logins' = [logins EXCEPT ![a].pc = "judging", ![a].keys = keys],
         time' = time, nextSweep' \in Nat
  PROVE  LimiterSound'
<1> DEFINE new == [by |-> a, at |-> time, pending |-> TRUE]
<1>1. LimiterTypeOK /\ RecordsHold
  BY DEF LimiterSound
<1>2. /\ logins'[a].pc = "judging" /\ logins'[a].keys = keys
      /\ \A b \in Attempts \ {a} : logins'[b] = logins[b]
      /\ logins' \in [Attempts -> [pc : {"idle", "judging", "rejected", "over"},
                                   keys : SUBSET Keys, at : Nat]]
  BY <1>1 DEF LimiterTypeOK
<1>3. new \in Record /\ new.by = a /\ new.pending
  BY <1>1 DEF Record, LimiterTypeOK
<1>4. \A k \in Keys : fails'[k] = IF k \in keys THEN map[k] \cup {new} ELSE map[k]
  BY DEF Reserved
<1> HIDE DEF new
<1>5. fails' \in [Keys -> SUBSET Record]
  <2>1. fails' = [k \in Keys |-> fails'[k]]
    BY DEF Reserved
  <2>2. \A k \in Keys : fails'[k] \in SUBSET Record
    BY <1>3, <1>4 DEF Prunes
  <2>3. QED
    BY <2>1, <2>2
<1>6. LimiterTypeOK'
  BY <1>1, <1>2, <1>5 DEF LimiterTypeOK, Record
<1>7. ASSUME NEW k \in Keys
      PROVE Counted(k)' \subseteq IF k \in keys THEN Counted(k) \cup {a} ELSE Counted(k)
  BY <1>2 DEF Counted, Judging
<1>8. LimitHeld'
  <2> SUFFICES ASSUME NEW k \in Keys PROVE Cardinality(Counted(k)') <= Limit
    BY DEF LimitHeld
  <2>1. CASE k \in keys
    BY <1>1, <1>7, <2>1, RoomForOne
  <2>2. CASE k \notin keys
    BY <1>7, <2>2, FewerHeld
  <2>3. QED
    BY <2>1, <2>2
<1>9. IsFiniteSet(Tracked(fails)') /\ MapBounded'
  <2>1. Tracked(fails)' \subseteq Tracked(map) \cup keys
    BY <1>4 DEF Tracked
  <2>2. Tracked(map) \subseteq Tracked(fails)
    BY DEF Prunes, Tracked
  <2>3. IsFiniteSet(Tracked(map))
    BY <1>1, <2>2, FS_Subset DEF RecordsHold
  <2>4. IsFiniteSet(Tracked(map) \cup keys)
    BY <2>3, FS_Union
  <2>5. /\ IsFiniteSet(Tracked(fails)')
        /\ Cardinality(Tracked(fails)') <= Cardinality(Tracked(map) \cup keys)
    BY <2>1, <2>4, FS_Subset
  <2>6. QED
    BY <2>4, <2>5, FS_CardinalityType DEF MapBounded, Fits, LimiterAssumption
<1>10. ASSUME NEW k \in Keys
       PROVE  /\ IsFiniteSet(fails'[k]) /\ \A r \in fails'[k] : RecordOf(r, k)'
              /\ \A b \in Counted(k)' : \E r \in fails'[k] : r.by = b
  <2>1. IsFiniteSet(fails'[k])
    <3>1. IsFiniteSet(map[k])
      BY <1>1, FS_Subset DEF Prunes, RecordsHold
    <3>2. IsFiniteSet(map[k] \cup {new})
      BY <3>1, FS_AddElement
    <3>3. QED
      BY <1>4, <3>1, <3>2
  <2>2. ASSUME NEW r \in fails'[k] PROVE RecordOf(r, k)'
    <3>1. CASE r = new /\ k \in keys
      BY <1>2, <1>3, <3>1 DEF RecordOf, Judging
    <3>2. CASE r \in map[k]
      <4>1. RecordOf(r, k) /\ r.by \in Attempts /\ r.pending \in BOOLEAN
        BY <1>1, <3>2 DEF Prunes, RecordsHold, Record
      <4>2. r.by # a
        BY <4>1 DEF RecordOf, Judging
      <4>3. QED
        BY <1>2, <4>1, <4>2 DEF RecordOf, Judging
    <3>3. QED
      BY <1>4, <3>1, <3>2
  <2>3. ASSUME NEW b \in Counted(k)' PROVE \E r \in fails'[k] : r.by = b
    <3>1. CASE b \in Counted(k)
      <4>1. b \in {r.by : r \in Live(k)}
        BY <1>1, <3>1, CountedAreLive DEF NothingLeft
      <4>2. PICK r \in Live(k) : r.by = b
        BY <4>1
      <4>3. r \in fails'[k]
        BY <1>4 DEF Prunes
      <4>4. QED
        BY <4>2, <4>3
    <3>2. CASE k \in keys /\ b = a
      BY <1>3, <1>4, <3>2
    <3>3. QED
      BY <1>7, <3>1, <3>2
  <2>4. QED
    BY <2>1, <2>2, <2>3
<1>11. QED
  BY <1>6, <1>8, <1>9, <1>10 DEF LimiterSound, RecordsHold

LEMMA ReserveSound ==
  ASSUME LimiterAssumption, LimiterSound, NEW a \in Attempts, reserve(a)
  PROVE  LimiterSound'
<1>1. LimiterTypeOK /\ logins[a].pc = "idle" /\ time' = time
  BY DEF LimiterSound, reserve
<1>2. PICK ip \in Addresses, name \in {{}} \cup {{n} : n \in Usernames} :
        Throttle(a, ip, {ip} \cup name) \/ Admit(a, {ip} \cup name)
  BY DEF reserve
<1> DEFINE keys == {ip} \cup name
<1>3. keys \in SUBSET Keys /\ IsFiniteSet(keys)
  <2>1. CASE name = {}
    <3>1. IsFiniteSet({ip}) /\ keys = {ip}
      BY <2>1, FS_Singleton
    <3>2. QED
      BY <3>1 DEF Keys
  <2>2. CASE name # {}
    <3>1. PICK n \in Usernames : name = {n}
      BY <2>2
    <3>2. IsFiniteSet({ip}) /\ IsFiniteSet({n})
      BY FS_Singleton
    <3>3. QED
      BY <3>1, <3>2, FS_Union DEF Keys
  <2>3. QED
    BY <2>1, <2>2
<1> HIDE DEF keys
<1>4. Throttle(a, ip, keys) \/ Admit(a, keys)
  BY <1>2 DEF keys
<1>5. CASE Throttle(a, ip, keys)
  <2>1. Refuse(a) /\ nextSweep' = nextSweep /\ Prunes(fails')
    BY <1>1, <1>5, PrunedPrunes DEF Throttle
  <2>2. QED
    BY <1>1, <2>1, RefusedSound DEF LimiterTypeOK
<1>6. CASE Admit(a, keys)
  <2>1. nextSweep' \in Nat /\ Prunes(Swept(keys)) /\ \A k \in keys : ~AtLimit(k)
    BY <1>1, <1>6, PrunedPrunes DEF Admit, LimiterTypeOK, LimiterAssumption
  <2>2. CASE Refuse(a) /\ fails' = Swept(keys)
    BY <1>1, <2>1, <2>2, RefusedSound
  <2>3. CASE /\ Fits(Swept(keys), keys) /\ fails' = Reserved(a, keys, Swept(keys))
             /\ logins' = [logins EXCEPT ![a].pc = "judging", ![a].keys = keys]
    <3> DEFINE map == Swept(keys)
    <3>1. Prunes(map) /\ Fits(map, keys) /\ fails' = Reserved(a, keys, map)
      BY <2>1, <2>3
    <3> HIDE DEF map
    <3>2. QED
      BY <1>1, <1>3, <2>1, <2>3, <3>1, AdmittedSound
  <2>4. QED
    BY <1>6, <2>2, <2>3 DEF Admit
<1>7. QED
  BY <1>4, <1>5, <1>6

\* A step after which fewer attempts count, each with its record.
LEMMA ShrinkSound ==
  ASSUME LimiterAssumption, LimiterSound, LimiterTypeOK',
         \A k \in Keys :
           /\ IsFiniteSet(fails'[k]) /\ (fails'[k] # {} => fails[k] # {})
           /\ \A r \in fails'[k] : RecordOf(r, k)'
           /\ Counted(k)' \subseteq Counted(k)
           /\ \A b \in Counted(k)' : \E r \in fails'[k] : r.by = b
  PROVE  LimiterSound'
<1>1. LimitHeld'
  BY FewerHeld DEF LimitHeld
<1>2. IsFiniteSet(Tracked(fails)') /\ MapBounded'
  BY MapShrinks
<1>3. QED
  BY <1>1, <1>2 DEF LimiterSound, RecordsHold

\* What is known of a record of a key while an attempt is judged.
LEMMA JudgedRecord ==
  ASSUME LimiterTypeOK, RecordsHold, NEW a \in Attempts, Judging(a),
         NEW k \in Keys, NEW r \in fails[k]
  PROVE  /\ r.by \in Attempts /\ r.pending \in BOOLEAN /\ r.at \in Nat /\ r \in Record
         /\ RecordOf(r, k)
         /\ r.by = a => r \in Own(a, k) /\ k \in logins[a].keys
         /\ r.by # a => r \notin Own(a, k)
<1>1. r \in Record
  BY DEF LimiterTypeOK, Record
<1>2. RecordOf(r, k)
  BY DEF RecordsHold
<1>3. QED
  BY <1>1, <1>2 DEF Record, RecordOf, Judging, Own

\* A rejection keeps every record, the own ones as failures of now.
LEMMA RejectSound ==
  ASSUME LimiterAssumption, LimiterSound, NEW a \in Attempts, Reject(a)
  PROVE  LimiterSound'
<1>1. LimiterTypeOK /\ RecordsHold /\ Judging(a) /\ time' = time /\ nextSweep' = nextSweep
  BY DEF LimiterSound, Reject
<1>2. /\ logins'[a].pc = "rejected" /\ logins'[a].at = time /\ logins'[a].keys = logins[a].keys
      /\ \A b \in Attempts \ {a} : logins'[b] = logins[b]
      /\ logins' \in [Attempts -> [pc : {"idle", "judging", "rejected", "over"},
                                   keys : SUBSET Keys, at : Nat]]
  BY <1>1 DEF Reject, LimiterTypeOK
<1> DEFINE now(r) == [r EXCEPT !.pending = FALSE, !.at = time]
           new(k, r) == IF r \in Own(a, k) THEN now(r) ELSE r
<1>3. ASSUME NEW k \in Keys, NEW r \in fails[k]
      PROVE  /\ now(r) \in Record /\ now(r).by = r.by /\ ~now(r).pending /\ now(r).at = time
             /\ new(k, r) \in Record /\ new(k, r).by = r.by
  <2>1. r \in Record /\ time \in Nat
    BY <1>1 DEF LimiterTypeOK, Record
  <2>2. now(r) \in Record /\ now(r).by = r.by /\ ~now(r).pending /\ now(r).at = time
    BY <2>1 DEF Record
  <2>3. QED
    BY <2>1, <2>2
<1>4. ASSUME NEW k \in Keys PROVE fails'[k] = {new(k, r) : r \in fails[k]}
  <2>1. CASE k \in logins[a].keys
    <3>1. fails'[k] = (fails[k] \ Own(a, k)) \cup {now(r) : r \in Own(a, k)}
      BY <2>1 DEF Reject, Failed
    <3>2. Own(a, k) \subseteq fails[k]
      BY DEF Own
    <3> HIDE DEF now
    <3>3. QED
      BY <3>1, <3>2
  <2>2. CASE k \notin logins[a].keys
    <3>1. fails'[k] = fails[k]
      BY <2>2 DEF Reject
    <3>2. \A r \in fails[k] : r \notin Own(a, k)
      BY <1>1, <2>2, JudgedRecord
    <3> HIDE DEF now
    <3>3. QED
      BY <3>1, <3>2
  <2>3. QED
    BY <2>1, <2>2
<1> HIDE DEF now, new
<1>5. fails' \in [Keys -> SUBSET Record]
  <2>1. fails' = [k \in Keys |-> fails'[k]]
    BY DEF Reject
  <2>2. \A k \in Keys : fails'[k] \in SUBSET Record
    BY <1>3, <1>4
  <2>3. QED
    BY <2>1, <2>2
<1>6. LimiterTypeOK'
  BY <1>1, <1>2, <1>5 DEF LimiterTypeOK, Record
<1>7. ASSUME NEW k \in Keys
      PROVE  /\ IsFiniteSet(fails'[k]) /\ (fails'[k] # {} => fails[k] # {})
             /\ \A r \in fails'[k] : RecordOf(r, k)'
             /\ Counted(k)' \subseteq Counted(k)
             /\ \A b \in Counted(k)' : \E r \in fails'[k] : r.by = b
  <2>1. IsFiniteSet(fails'[k])
    <3> DEFINE f == [r \in fails[k] |-> new(k, r)]
               T == {new(k, r) : r \in fails[k]}
    <3>1. f \in Surjection(fails[k], T)
      BY DEF Surjection
    <3>2. IsFiniteSet(T)
      BY <1>1, <3>1, FS_Surjection DEF RecordsHold
    <3>3. QED
      BY <1>4, <3>2
  <2>2. fails'[k] # {} => fails[k] # {}
    BY <1>4
  <2>3. ASSUME NEW r \in fails'[k] PROVE RecordOf(r, k)'
    <3>1. PICK s \in fails[k] : r = new(k, s)
      BY <1>4
    <3>2. /\ s.by \in Attempts /\ s.pending \in BOOLEAN /\ RecordOf(s, k)
          /\ s.by = a => s \in Own(a, k) /\ k \in logins[a].keys
          /\ s.by # a => s \notin Own(a, k)
      BY <1>1, JudgedRecord
    <3>3. CASE s.by = a
      <4>1. r = now(s)
        BY <3>1, <3>2, <3>3 DEF new
      <4>2. r.by = a /\ ~r.pending /\ r.at = time
        BY <1>3, <3>3, <4>1
      <4>3. QED
        BY <1>2, <3>2, <3>3, <4>2 DEF RecordOf
    <3>4. CASE s.by # a
      <4>1. r = s
        BY <3>1, <3>2, <3>4 DEF new
      <4>2. QED
        BY <1>2, <3>2, <3>4, <4>1 DEF RecordOf, Judging
    <3>5. QED
      BY <3>3, <3>4
  <2>4. Counted(k)' \subseteq Counted(k)
    BY <1>1, <1>2 DEF Counted, Judging
  <2>5. ASSUME NEW b \in Counted(k)' PROVE \E r \in fails'[k] : r.by = b
    <3>1. PICK r \in fails[k] : r.by = b
      BY <1>1, <2>4 DEF RecordsHold
    <3>2. new(k, r) \in fails'[k] /\ new(k, r).by = b
      BY <1>3, <1>4, <3>1
    <3>3. QED
      BY <3>2
  <2>6. QED
    BY <2>1, <2>2, <2>3, <2>4, <2>5
<1>8. QED
  BY <1>6, <1>7, ShrinkSound

\* A success or an abandonment drops the own records; a success also the failures of
\* others under the username, and those no longer count.
LEMMA DropSound ==
  ASSUME LimiterAssumption, LimiterSound, NEW a \in Attempts, Succeed(a) \/ abandon(a)
  PROVE  LimiterSound'
<1> DEFINE own == logins[a].keys
           forgotten == IF Succeed(a) THEN own \cap Usernames ELSE {}
<1>1. LimiterTypeOK /\ RecordsHold /\ Judging(a) /\ time' = time /\ nextSweep' = nextSweep
  BY DEF LimiterSound, Succeed, abandon
<1>2. /\ logins'[a].pc = "over"
      /\ \A b \in Attempts \ {a} :
           /\ logins'[b].pc = logins[b].pc /\ logins'[b].at = logins[b].at
           /\ logins'[b].keys = IF logins[b].pc = "rejected" THEN logins[b].keys \ forgotten
                                ELSE logins[b].keys
      /\ logins' \in [Attempts -> [pc : {"idle", "judging", "rejected", "over"},
                                   keys : SUBSET Keys, at : Nat]]
  <2>1. CASE Succeed(a)
    <3>1. \A b \in Attempts : logins'[b] =
            IF b = a THEN [logins[a] EXCEPT !.pc = "over", !.keys = {}]
            ELSE IF logins[b].pc = "rejected" THEN [logins[b] EXCEPT !.keys = @ \ forgotten]
            ELSE logins[b]
      BY <2>1 DEF Succeed
    <3>2. \A b \in Attempts : logins[b] \in [pc : {"idle", "judging", "rejected", "over"},
                                             keys : SUBSET Keys, at : Nat]
      BY <1>1 DEF LimiterTypeOK
    <3>3. logins' = [b \in Attempts |-> logins'[b]]
      BY <2>1 DEF Succeed
    <3> HIDE DEF forgotten
    <3>4. ASSUME NEW b \in Attempts
          PROVE  /\ logins'[b] \in [pc : {"idle", "judging", "rejected", "over"},
                                    keys : SUBSET Keys, at : Nat]
                 /\ b # a => /\ logins'[b].pc = logins[b].pc /\ logins'[b].at = logins[b].at
                             /\ logins'[b].keys = IF logins[b].pc = "rejected"
                                                  THEN logins[b].keys \ forgotten
                                                  ELSE logins[b].keys
      <4> DEFINE l == logins[b]
      <4>1. l \in [pc : {"idle", "judging", "rejected", "over"}, keys : SUBSET Keys, at : Nat]
        BY <3>2
      <4>2. CASE b = a
        <5>1. logins'[b] = [l EXCEPT !.pc = "over", !.keys = {}]
          BY <3>1, <4>2
        <5> HIDE DEF l
        <5>2. QED
          BY <4>1, <4>2, <5>1
      <4>3. CASE b # a /\ l.pc = "rejected"
        <5>1. logins'[b] = [l EXCEPT !.keys = l.keys \ forgotten]
          BY <3>1, <4>3
        <5> HIDE DEF l
        <5>2. l.keys \ forgotten \in SUBSET Keys
          BY <4>1
        <5>3. /\ logins'[b] \in [pc : {"idle", "judging", "rejected", "over"},
                                 keys : SUBSET Keys, at : Nat]
              /\ logins'[b].pc = l.pc /\ logins'[b].at = l.at
              /\ logins'[b].keys = l.keys \ forgotten
          BY <4>1, <5>1, <5>2
        <5>4. QED
          BY <4>3, <5>3 DEF l
      <4>4. CASE b # a /\ l.pc # "rejected"
        BY <3>1, <4>1, <4>4
      <4>5. QED
        BY <4>2, <4>3, <4>4
    <3>5. logins'[a].pc = "over"
      BY <3>1, <3>2
    <3>6. QED
      BY <3>3, <3>4, <3>5
  <2>2. CASE ~Succeed(a)
    <3>1. logins' = [logins EXCEPT ![a].pc = "over", ![a].keys = {}] /\ forgotten = {}
      BY <2>2 DEF abandon
    <3> HIDE DEF forgotten
    <3>2. QED
      BY <1>1, <3>1 DEF LimiterTypeOK
  <2>3. QED
    BY <2>1, <2>2
<1>3. ASSUME NEW k \in Keys
      PROVE  /\ fails'[k] \subseteq fails[k]
             /\ \A r \in fails[k] :
                  r \in fails'[k] <=> r.by # a /\ (k \in forgotten => r.pending)
  <2>1. \A r \in fails[k] : (r \in Own(a, k) <=> r.by = a) /\ (r.by = a => k \in own)
    BY <1>1, JudgedRecord
  <2>2. CASE Succeed(a)
    <3>1. fails'[k] = IF k \notin own THEN fails[k]
                      ELSE {r \in fails[k] \ Own(a, k) : k \in Usernames => r.pending}
      BY <2>2 DEF Succeed
    <3>2. QED
      BY <2>1, <2>2, <3>1
  <2>3. CASE ~Succeed(a)
    <3>1. fails'[k] = IF k \in own THEN fails[k] \ Own(a, k) ELSE fails[k]
      BY <2>3 DEF abandon, Dropped
    <3>2. QED
      BY <2>1, <2>3, <3>1
  <2>4. QED
    BY <2>2, <2>3
<1> HIDE DEF forgotten, own
<1>4. fails' \in [Keys -> SUBSET Record]
  <2>1. fails' = [k \in Keys |-> fails'[k]]
    BY DEF Succeed, abandon
  <2>2. \A k \in Keys : fails'[k] \in SUBSET Record
    BY <1>1, <1>3 DEF LimiterTypeOK, Record
  <2>3. QED
    BY <2>1, <2>2
<1>5. LimiterTypeOK'
  BY <1>1, <1>2, <1>4 DEF LimiterTypeOK, Record
<1>6. ASSUME NEW k \in Keys
      PROVE  /\ IsFiniteSet(fails'[k]) /\ (fails'[k] # {} => fails[k] # {})
             /\ \A r \in fails'[k] : RecordOf(r, k)'
             /\ Counted(k)' \subseteq Counted(k)
             /\ \A b \in Counted(k)' : \E r \in fails'[k] : r.by = b
  <2>1. IsFiniteSet(fails'[k]) /\ (fails'[k] # {} => fails[k] # {})
    BY <1>1, <1>3, FS_Subset DEF RecordsHold
  <2>2. ASSUME NEW r \in fails'[k] PROVE RecordOf(r, k)'
    <3>1. r \in fails[k] /\ r.by # a /\ (k \in forgotten => r.pending)
      BY <1>3
    <3>2. RecordOf(r, k) /\ r.by \in Attempts /\ r.pending \in BOOLEAN
      BY <1>1, <3>1, JudgedRecord
    <3>3. QED
      BY <1>2, <3>1, <3>2 DEF RecordOf, Judging
  <2>3. ASSUME NEW b \in Counted(k)'
        PROVE  b # a /\ b \in Counted(k) /\ (k \in forgotten => Judging(b))
    BY <1>1, <1>2 DEF Counted, Judging
  <2>4. ASSUME NEW b \in Counted(k)' PROVE \E r \in fails'[k] : r.by = b
    <3>1. PICK r \in fails[k] : r.by = b
      BY <1>1, <2>3 DEF RecordsHold
    <3>2. RecordOf(r, k)
      BY <1>1 DEF RecordsHold
    <3>3. k \in forgotten => r.pending
      BY <2>3, <3>1, <3>2 DEF RecordOf, Judging
    <3>4. QED
      BY <1>3, <2>3, <3>1, <3>3
  <2>5. QED
    BY <2>1, <2>2, <2>3, <2>4
<1>7. QED
  BY <1>5, <1>6, ShrinkSound

LEMMA LimiterNextSound ==
  ASSUME LimiterAssumption, LimiterSound, [LimiterNext]_limiterVars
  PROVE  LimiterSound'
<1>1. LimiterTypeOK /\ RecordsHold
  BY DEF LimiterSound
<1>2. CASE UNCHANGED <<fails, nextSweep, logins>> /\ (time' = time \/ time' = time + 1)
  <2>1. LimiterTypeOK'
    BY <1>1, <1>2 DEF LimiterTypeOK
  <2>2. ASSUME NEW k \in Keys
        PROVE  /\ IsFiniteSet(fails'[k]) /\ (fails'[k] # {} => fails[k] # {})
               /\ \A r \in fails'[k] : RecordOf(r, k)'
               /\ Counted(k)' \subseteq Counted(k)
               /\ \A b \in Counted(k)' : \E r \in fails'[k] : r.by = b
    <3>1. Counted(k)' \subseteq Counted(k)
      BY <1>1, <1>2 DEF Counted, Judging, LimiterTypeOK, LimiterAssumption
    <3>2. QED
      BY <1>1, <1>2, <3>1 DEF RecordsHold, RecordOf, Judging
  <2>3. QED
    BY <2>1, <2>2, ShrinkSound
<1>3. QED
  BY <1>2, ReserveSound, RejectSound, DropSound DEF LimiterNext, limiterVars, LoginTime

\* However many logins arrive at once and however long each is judged, those that are
\* judged or failed within the window never exceed the limit of an address or a username,
\* the limiter remembers those and no others, and its map stays as small as it must.
THEOREM AttemptsAlwaysCounted == LimiterSpec => []AttemptsCounted
<1>1. LimiterInit => LimiterSound
  <2> SUFFICES ASSUME LimiterInit PROVE LimiterSound
    OBVIOUS
  <2>1. LimiterTypeOK
    BY DEF LimiterInit, LimiterTypeOK, NoLogin
  <2>2. Tracked(fails) = {} /\ \A k \in Keys : fails[k] = {} /\ Counted(k) = {}
    BY DEF LimiterInit, Tracked, Counted, Judging, NoLogin
  <2>3. RecordsHold /\ LimitHeld /\ MapBounded
    BY <2>2, LimiterAssumption, FS_EmptySet
       DEF RecordsHold, LimitHeld, MapBounded, LimiterAssumption
  <2>4. QED
    BY <2>1, <2>3 DEF LimiterSound
<1>2. LimiterSound /\ [LimiterNext]_limiterVars => LimiterSound'
  BY LimiterAssumption, LimiterNextSound
<1>3. LimiterSound => AttemptsCounted
  BY LimiterAssumption, CountedAreLive DEF LimiterSound, AttemptsCounted
<1>4. QED
  BY <1>1, <1>2, <1>3, PTL DEF LimiterSpec
=============================================================================
