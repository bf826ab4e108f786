---------------------------- MODULE LoginLimiter ----------------------------
(* The limiter of failed logins: an attempt reserves room under its address and *)
(* its username before the password is judged, and resolves the reservation as  *)
(* a failure, a success, or as never judged.  Each of the four is one section   *)
(* of the limiter's mutex; the judging between them takes time.                 *)
EXTENDS Naturals, FiniteSets

CONSTANTS
  Attempts,       \* login requests, each made once
  Addresses,      \* "ip:" keys
  Usernames,      \* "user:" keys
  Limit,          \* LoginRateLimit
  Window,         \* LoginRateWindow
  SweepInterval,  \* loginRateLimiterSweepInterval
  MaxKeys,        \* loginRateLimiterMaxKeys
  LastTime        \* bound on the clock

Keys == Addresses \cup Usernames

ASSUME LimiterAssumption ==
  /\ Addresses \cap Usernames = {}
  /\ Limit \in Nat \ {0} /\ Window \in Nat \ {0}
  /\ SweepInterval \in Nat /\ MaxKeys \in Nat /\ LastTime \in Nat

VARIABLES
  time,       \* time.Now
  fails,      \* [Keys -> the records of the key; the map has those that have some]
  nextSweep,  \* nextSweepAt, 0 at the start
  logins      \* [Attempts -> where a login is, its keys, and when it was rejected]

limiterVars == <<time, fails, nextSweep, logins>>

NoLogin == [pc |-> "idle", keys |-> {}, at |-> 0]

LimiterInit ==
  /\ time = 1
  /\ fails = [k \in Keys |-> {}]
  /\ nextSweep = 0
  /\ logins = [a \in Attempts |-> NoLogin]

\* countLockedAt: what is left of a key; a pending record never expires.
Live(k) == {r \in fails[k] : r.pending \/ r.at + Window > time}

AtLimit(k) == Cardinality(Live(k)) >= Limit

Tracked(map) == {k \in Keys : map[k] # {}}

Pruned(keys) == [k \in Keys |-> IF k \in keys THEN Live(k) ELSE fails[k]]

\* Mutant of Fits: the keys of the attempt itself are not counted.
FitsWithout(map, keys) == Cardinality(Tracked(map)) <= MaxKeys

Fits(map, keys) == Cardinality(Tracked(map) \cup keys) <= MaxKeys

\* Whether a capacity sweep is due.
MaySweep == nextSweep = 0 \/ time >= nextSweep

\* The map after the checks, swept if there is no room and a sweep is due.
Swept(keys) ==
  IF ~Fits(Pruned(keys), keys) /\ MaySweep THEN Pruned(Keys) ELSE Pruned(keys)

Reserved(a, keys, map) ==
  [k \in Keys |-> IF k \in keys THEN map[k] \cup {[by |-> a, at |-> time, pending |-> TRUE]}
                  ELSE map[k]]

Refuse(a) == logins' = [logins EXCEPT ![a].pc = "over"]

\* reserve, of a key at its limit: the address is looked at first.
Throttle(a, ip, keys) ==
  /\ \E k \in keys : AtLimit(k)
  /\ fails' = Pruned(IF AtLimit(ip) THEN {ip} ELSE keys)
  /\ Refuse(a) /\ UNCHANGED nextSweep

\* reserve, with room under every key, if there is room for the keys.
Admit(a, keys) ==
  /\ \A k \in keys : ~AtLimit(k)
  /\ nextSweep' = (IF ~Fits(Pruned(keys), keys) /\ MaySweep THEN time + SweepInterval
                   ELSE nextSweep)
  /\ \/ /\ Fits(Swept(keys), keys)
        /\ fails' = Reserved(a, keys, Swept(keys))
        /\ logins' = [logins EXCEPT ![a].pc = "judging", ![a].keys = keys]
     \/ /\ ~Fits(Swept(keys), keys)
        /\ fails' = Swept(keys)
        /\ Refuse(a)

reserve(a) ==
  /\ logins[a].pc = "idle"
  /\ \E ip \in Addresses, name \in {{}} \cup {{n} : n \in Usernames} :
       Throttle(a, ip, {ip} \cup name) \/ Admit(a, {ip} \cup name)
  /\ UNCHANGED time

Judging(a) == logins[a].pc = "judging"

Own(a, k) == {r \in fails[k] : r.by = a /\ r.pending}

\* Mutant of Failed: the failure keeps the time of its reservation.
FailedWhenReserved(a, k) == (fails[k] \ Own(a, k)) \cup {[r EXCEPT !.pending = FALSE] : r \in Own(a, k)}

\* complete(false): the record becomes a failure of now.
Failed(a, k) ==
  (fails[k] \ Own(a, k)) \cup {[r EXCEPT !.pending = FALSE, !.at = time] : r \in Own(a, k)}

\* A rejected password, or a panic on the way.
Reject(a) ==
  /\ Judging(a)
  /\ fails' = [k \in Keys |-> IF k \in logins[a].keys THEN Failed(a, k) ELSE fails[k]]
  /\ logins' = [logins EXCEPT ![a].pc = "rejected", ![a].at = time]
  /\ UNCHANGED <<time, nextSweep>>

\* complete(true): the failures of the username are forgotten, those of others that
\* are still being judged, and those of the address, are not.
Succeed(a) ==
  /\ Judging(a)
  /\ fails' = [k \in Keys |->
       IF k \notin logins[a].keys THEN fails[k]
       ELSE {r \in fails[k] \ Own(a, k) : k \in Usernames => r.pending}]
  /\ logins' = [b \in Attempts |->
       IF b = a THEN [logins[a] EXCEPT !.pc = "over", !.keys = {}]
       ELSE IF logins[b].pc = "rejected"
            THEN [logins[b] EXCEPT !.keys = @ \ (logins[a].keys \cap Usernames)]
            ELSE logins[b]]
  /\ UNCHANGED <<time, nextSweep>>

\* Mutant of Dropped: nothing is dropped when a login could not be judged.
DroppedNever(a, k) == fails[k]

Dropped(a, k) == fails[k] \ Own(a, k)

\* abandon: the database was busy or failed before there was a verdict.
abandon(a) ==
  /\ Judging(a)
  /\ fails' = [k \in Keys |-> IF k \in logins[a].keys THEN Dropped(a, k) ELSE fails[k]]
  /\ logins' = [logins EXCEPT ![a].pc = "over", ![a].keys = {}]
  /\ UNCHANGED <<time, nextSweep>>

LoginTime ==
  /\ time < LastTime
  /\ time' = time + 1
  /\ UNCHANGED <<fails, nextSweep, logins>>

LimiterNext ==
  \/ \E a \in Attempts : reserve(a) \/ Reject(a) \/ Succeed(a) \/ abandon(a)
  \/ LoginTime

LimiterSpec == LimiterInit /\ [][LimiterNext]_limiterVars

-----------------------------------------------------------------------------
(* What must hold.  The attempts are counted by what became of them, not by the *)
(* records of the limiter.                                                      *)

\* The attempts that count against a key: those that are being judged, and those
\* rejected within the window and since the last success of the username.
Counted(k) ==
  {a \in Attempts : k \in logins[a].keys
     /\ (Judging(a) \/ (logins[a].pc = "rejected" /\ logins[a].at + Window > time))}

\* However many arrive at once and however long each is judged, never more than the
\* limit count against a key.
LimitHeld == \A k \in Keys : Cardinality(Counted(k)) <= Limit

\* Nobody is locked out by a login that was never judged or has been forgotten: each
\* record that counts is of such an attempt.
NothingLeft == \A k \in Keys : {r.by : r \in Live(k)} = Counted(k)

\* The map stays as small as it must, and forgets no attempt for it.
MapBounded == Cardinality(Tracked(fails)) <= MaxKeys

\* What the proofs strengthen these with: the types, and that each record of a key is of
\* an attempt under it which is judged, or rejected when the record says, and that no
\* attempt that counts is without one.
LimiterTypeOK ==
  /\ time \in Nat /\ nextSweep \in Nat
  /\ fails \in [Keys -> SUBSET [by : Attempts, at : Nat, pending : BOOLEAN]]
  /\ logins \in [Attempts -> [pc : {"idle", "judging", "rejected", "over"},
                              keys : SUBSET Keys, at : Nat]]

RecordOf(r, k) ==
  /\ k \in logins[r.by].keys
  /\ IF r.pending THEN Judging(r.by)
     ELSE logins[r.by].pc = "rejected" /\ logins[r.by].at = r.at

RecordsHold ==
  /\ IsFiniteSet(Tracked(fails))
  /\ \A k \in Keys :
       /\ IsFiniteSet(fails[k]) /\ \A r \in fails[k] : RecordOf(r, k)
       /\ \A a \in Counted(k) : \E r \in fails[k] : r.by = a

AttemptsCounted == LimiterTypeOK /\ RecordsHold /\ LimitHeld /\ NothingLeft /\ MapBounded
=============================================================================
