--------------------------- MODULE TimeoutReader ---------------------------
(* The reader a download reads its body through: the read of the body runs on  *)
(* a goroutine that a Read may walk away from, when the attempt is cancelled,  *)
(* the reader is closed or the watcher finds the remote quiet for too long.    *)
(* A byte is its number in the body, so that the buffer the goroutine writes   *)
(* and the bytes the caller gets can be compared with the body.                *)
EXTENDS Naturals, Sequences

CONSTANTS
  Body,          \* length of the body
  BufferSizes,   \* the sizes the caller reads with
  IdleTimeout    \* idleTimeout, in ticks of the watcher

ASSUME ReaderAssumption ==
  /\ Body \in Nat /\ IdleTimeout \in Nat \ {0}
  /\ BufferSizes \subseteq Nat \ {0} /\ BufferSizes # {}

VARIABLES
  cancelled,   \* the attempt's context
  closed,      \* done is closed
  watcher,     \* watchTimeout: "watching", "tripped" (err set), "gone"
  err,         \* tr.err
  failed,      \* failed is closed
  silence,     \* time.Since(lastRead), counted up to IdleTimeout + 1
  wire,        \* bytes of the body that have come off the wire
  goroutines,  \* reads of the body in flight: [len, pc, n, eof, late]
  pending,     \* whether a read is outstanding, and its result, as of the channel
  buf,         \* the landing pad
  ready,       \* what has arrived and is not handed over: positions in buf
  pendingEOF,  \* the error that came with it
  caller,      \* the one goroutine that reads
  got          \* bytes handed over, in order; EOF ends them

readerVars == <<cancelled, closed, watcher, err, failed, silence, wire, goroutines,
                pending, buf, ready, pendingEOF, caller, got>>

EOF == 0   \* the end of the body, in what the caller gets

Idle == [pc |-> "idle", len |-> 0]

NoResult == [outstanding |-> FALSE, sent |-> FALSE, n |-> 0, eof |-> FALSE, late |-> FALSE]

ReaderInit ==
  /\ cancelled = FALSE /\ closed = FALSE
  /\ watcher = "watching" /\ err = FALSE /\ failed = FALSE
  /\ silence = 0 /\ wire = 0
  /\ goroutines = {} /\ pending = NoResult
  /\ buf = <<>> /\ ready = <<>> /\ pendingEOF = FALSE
  /\ caller = Idle /\ got = <<>>

Quiet == UNCHANGED <<cancelled, closed, watcher, err, failed, silence>>

GivenUp == cancelled \/ closed \/ failed

-----------------------------------------------------------------------------
(* Cancel, Close and the watcher.                                            *)

CancelTransfer ==
  /\ ~cancelled
  /\ cancelled' = TRUE
  /\ UNCHANGED <<closed, watcher, err, failed, silence, wire, goroutines, pending,
                 buf, ready, pendingEOF, caller, got>>

Close ==
  /\ ~closed
  /\ closed' = TRUE
  /\ UNCHANGED <<cancelled, watcher, err, failed, silence, wire, goroutines, pending,
                 buf, ready, pendingEOF, caller, got>>

\* Time passes.
Tick ==
  /\ silence <= IdleTimeout
  /\ silence' = silence + 1
  /\ UNCHANGED <<cancelled, closed, watcher, err, failed, wire, goroutines, pending,
                 buf, ready, pendingEOF, caller, got>>

\* Mutant of WatchTimeout: it sets err and wakes nobody.
WatchTimeoutSilently ==
  /\ watcher = "watching"
  /\ watcher' = "gone"
  /\ \/ closed /\ UNCHANGED err
     \/ (cancelled \/ silence > IdleTimeout) /\ err' = TRUE
  /\ UNCHANGED <<cancelled, closed, failed, silence, wire, goroutines, pending, buf,
                 ready, pendingEOF, caller, got>>

\* watchTimeout leaves when the reader is closed, and otherwise sets err before
\* it closes failed.
WatchTimeout ==
  /\ \/ /\ watcher = "watching" /\ closed
        /\ watcher' = "gone"
        /\ UNCHANGED <<err, failed>>
     \/ /\ watcher = "watching"
        /\ cancelled \/ silence > IdleTimeout
        /\ watcher' = "tripped" /\ err' = TRUE
        /\ UNCHANGED failed
     \/ /\ watcher = "tripped"
        /\ watcher' = "gone" /\ failed' = TRUE
        /\ UNCHANGED err
  /\ UNCHANGED <<cancelled, closed, silence, wire, goroutines, pending, buf, ready,
                 pendingEOF, caller, got>>

-----------------------------------------------------------------------------
(* The goroutine that reads the body.                                        *)

\* Some bytes, the end with the last of them or after them, or nothing yet.
\* They land in the buffer.
ReadBody(g) ==
  /\ g.pc = "reading"
  /\ \E n \in 0..g.len, eof \in BOOLEAN :
       /\ wire + n <= Body /\ (n = 0 => eof) /\ (eof => wire + n = Body)
       /\ wire' = wire + n
       /\ buf' = [i \in 1..Len(buf) |-> IF i <= n THEN wire + i ELSE buf[i]]
       /\ goroutines' = (goroutines \ {g}) \cup
            {[g EXCEPT !.pc = "arrived", !.n = n, !.eof = eof, !.late = GivenUp]}
  /\ Quiet
  /\ UNCHANGED <<pending, ready, pendingEOF, caller, got>>

\* lastRead is stamped where the bytes arrive.
Stamp(g) ==
  /\ g.pc = "arrived"
  /\ silence' = IF g.n > 0 THEN 0 ELSE silence
  /\ goroutines' = (goroutines \ {g}) \cup {[g EXCEPT !.pc = "stamped"]}
  /\ UNCHANGED <<cancelled, closed, watcher, err, failed, wire, pending, buf, ready,
                 pendingEOF, caller, got>>

SendResult(g) ==
  /\ g.pc = "stamped"
  /\ goroutines' = goroutines \ {g}
  /\ pending' = [outstanding |-> TRUE, sent |-> TRUE, n |-> g.n, eof |-> g.eof, late |-> g.late]
  /\ Quiet
  /\ UNCHANGED <<wire, buf, ready, pendingEOF, caller, got>>

-----------------------------------------------------------------------------
(* Read.                                                                     *)

\* What p can hold of what is ready, and the end if that was all of it.
Drained(p, positions, eof) ==
  LET n == IF Len(positions) < p THEN Len(positions) ELSE p
      bytes == [i \in 1..n |-> buf[positions[i]]] IN
  /\ ready' = SubSeq(positions, n + 1, Len(positions))
  /\ got' = got \o bytes \o (IF eof /\ n = Len(positions) THEN <<EOF>> ELSE <<>>)
  /\ pendingEOF' = (eof /\ n < Len(positions))

\* The call returns; after an error its caller may still read again.
Returns == caller' = Idle

ReturnsError ==
  /\ Returns
  /\ UNCHANGED <<got, ready, pendingEOF>>

Ended == IF got = <<>> THEN FALSE ELSE got[Len(got)] = EOF

\* What is ready goes out first; else the checks of err and of the context.
StartRead(p) ==
  /\ caller.pc = "idle"
  /\ ~Ended
  /\ IF ready # <<>> THEN Drained(p, ready, pendingEOF) /\ Returns
     ELSE IF err \/ cancelled THEN ReturnsError
     ELSE /\ caller' = [pc |-> "start", len |-> p]
          /\ UNCHANGED <<got, ready, pendingEOF>>
  /\ Quiet
  /\ UNCHANGED <<wire, goroutines, pending, buf>>

\* A read that is outstanding is waited for; else one is started on the buffer.
StartGoroutine ==
  /\ caller.pc = "start"
  /\ IF pending.outstanding THEN UNCHANGED <<goroutines, pending, buf>>
     ELSE /\ buf' = IF Len(buf) < caller.len THEN [i \in 1..caller.len |-> 0] ELSE buf
          /\ goroutines' = goroutines \cup
               {[pc |-> "reading", len |-> caller.len, n |-> 0, eof |-> FALSE, late |-> FALSE]}
          /\ pending' = [NoResult EXCEPT !.outstanding = TRUE]
  /\ caller' = [caller EXCEPT !.pc = "check"]
  /\ Quiet
  /\ UNCHANGED <<wire, ready, pendingEOF, got>>

\* abandoned, before the select.
CheckAbandoned ==
  /\ caller.pc = "check"
  /\ \/ GivenUp /\ ReturnsError
     \/ /\ ~GivenUp
        /\ caller' = [caller EXCEPT !.pc = "select"]
        /\ UNCHANGED <<got, ready, pendingEOF>>
  /\ Quiet
  /\ UNCHANGED <<wire, goroutines, pending, buf>>

\* Mutant of Select: a read that is walked away from is forgotten.
SelectForgets ==
  /\ caller.pc = "select"
  /\ \/ /\ pending.sent
        /\ caller' = [caller EXCEPT !.pc = "recheck"]
        /\ UNCHANGED <<got, ready, pendingEOF, pending>>
     \/ GivenUp /\ ReturnsError /\ pending' = NoResult
  /\ Quiet
  /\ UNCHANGED <<wire, goroutines, buf>>

\* The select: the cases that are ready are not ranked.
Select ==
  /\ caller.pc = "select"
  /\ \/ /\ pending.sent
        /\ caller' = [caller EXCEPT !.pc = "recheck"]
        /\ UNCHANGED <<got, ready, pendingEOF>>
     \/ GivenUp /\ ReturnsError
  /\ Quiet
  /\ UNCHANGED <<wire, goroutines, pending, buf>>

\* Mutant of Deliver: what the select chose is handed over.
DeliverUnchecked ==
  /\ caller.pc = "recheck"
  /\ Drained(caller.len, [i \in 1..pending.n |-> i], pending.eof)
  /\ Returns
  /\ pending' = NoResult
  /\ Quiet
  /\ UNCHANGED <<wire, goroutines, buf>>

\* Mutant of Deliver: the whole landing pad is handed over, not what arrived.
DeliverWholeBuffer ==
  /\ caller.pc = "recheck"
  /\ pending' = NoResult
  /\ \/ GivenUp /\ ReturnsError
     \/ /\ ~GivenUp
        /\ Drained(caller.len, [i \in 1..caller.len |-> i], pending.eof)
        /\ Returns
  /\ Quiet
  /\ UNCHANGED <<wire, goroutines, buf>>

\* abandoned once more, then the bytes and the error that came with them.
Deliver ==
  /\ caller.pc = "recheck"
  /\ pending' = NoResult
  /\ \/ GivenUp /\ ReturnsError
     \/ /\ ~GivenUp
        /\ Drained(caller.len, [i \in 1..pending.n |-> i], pending.eof)
        /\ Returns
  /\ Quiet
  /\ UNCHANGED <<wire, goroutines, buf>>

ReadStep == StartGoroutine \/ CheckAbandoned \/ Select \/ Deliver

ReaderNext ==
  \/ CancelTransfer \/ Close \/ Tick \/ WatchTimeout
  \/ \E g \in goroutines : ReadBody(g) \/ Stamp(g) \/ SendResult(g)
  \/ \E p \in BufferSizes : StartRead(p)
  \/ ReadStep

ReaderSpec ==
  /\ ReaderInit /\ [][ReaderNext]_readerVars
  /\ WF_readerVars(ReadStep) /\ WF_readerVars(WatchTimeout) /\ WF_readerVars(Tick)

-----------------------------------------------------------------------------
(* Properties.                                                               *)

\* The caller gets the bytes of the body in their order, each once, and the end
\* only after the last: the buffer the goroutine lands in is never written under
\* bytes that are still to be handed over, whoever reads with whatever size.
BytesInOrder ==
  /\ \A i \in 1..Len(got) : got[i] = i \/ (i = Len(got) /\ got[i] = EOF)
  /\ Ended => Len(got) = Body + 1

\* One goroutine at most reads the body, and it is the one the reader remembers,
\* though a Read may be walked away from and another made after it.
OneReadOfBody ==
  /\ \A g, h \in goroutines : g = h
  /\ goroutines # {} => pending.outstanding /\ ~pending.sent /\ ready = <<>>

\* Every variable of the reader keeps its type.
ReaderTypes ==
  /\ cancelled \in BOOLEAN /\ closed \in BOOLEAN /\ err \in BOOLEAN /\ failed \in BOOLEAN
  /\ watcher \in {"watching", "tripped", "gone"}
  /\ silence \in 0..(IdleTimeout + 1) /\ wire \in 0..Body
  /\ goroutines \subseteq [pc : {"reading", "arrived", "stamped"}, len : BufferSizes,
                          n : 0..Body, eof : BOOLEAN, late : BOOLEAN]
  /\ pending \in [outstanding : BOOLEAN, sent : BOOLEAN, n : 0..Body,
                  eof : BOOLEAN, late : BOOLEAN]
  /\ buf \in Seq(0..Body) /\ ready \in Seq(Nat) /\ pendingEOF \in BOOLEAN
  /\ caller \in {Idle} \cup [pc : {"start", "check", "select", "recheck"}, len : BufferSizes]
  /\ got \in Seq(0..Body)

\* n bytes are what follows in the body on what was handed over, and they lie at
\* the head of the buffer; only a reader that is given up may have lost some.
Landed(n, eof) ==
  ~GivenUp =>
    /\ wire = Len(got) + n /\ n <= Len(buf)
    /\ \A i \in 1..n : buf[i] = Len(got) + i
    /\ eof => wire = Body

\* Each byte off the wire is with one owner: the goroutine, the channel, what is
\* ready, or the caller.
BytesOwned ==
  /\ \A g \in goroutines :
       /\ g.len <= Len(buf) /\ Landed(g.n, g.eof)
       /\ g.pc = "reading" => g.n = 0
  /\ pending.sent => Landed(pending.n, pending.eof)
  /\ goroutines = {} /\ ~pending.sent /\ ready = <<>> /\ ~Ended => Landed(0, FALSE)
  /\ \A j \in 1..Len(ready) : ready[j] \in 1..Len(buf) /\ buf[ready[j]] = Len(got) + j
  /\ ready # <<>> => wire = Len(got) + Len(ready) /\ (pendingEOF => wire = Body)

\* Where a call to Read is says what it may find.
CallsInOrder ==
  /\ pending.sent \/ ready # <<>> \/ Ended => goroutines = {}
  /\ pending.sent => pending.outstanding
  /\ ~pending.outstanding => pending = NoResult
  /\ pending.outstanding \/ caller.pc # "idle" => ready = <<>> /\ ~Ended
  /\ caller.pc = "recheck" => pending.sent
  /\ Ended => ready = <<>>

\* A result is late only of a reader that is given up, and stays so.
LateIfGivenUp == pending.late \/ (\E g \in goroutines : g.late) => GivenUp

ReaderStrengthening == ReaderTypes /\ BytesOwned /\ CallsInOrder /\ LateIfGivenUp

\* What the caller gets is the body, read by one goroutine at a time, with what
\* makes that inductive.
BodyHandedOver == BytesInOrder /\ OneReadOfBody /\ ReaderStrengthening

\* What came off the wire after the attempt was given up (cancelled, closed or
\* failed by the watcher) is never handed over, its EOF included: the transfer
\* cannot end as completed on it.
LateBytesDropped == [][got' # got => ~pending.late]_readerVars

\* A Read returns, whether the remote ever answers or not: the watcher wakes it.
ReadReturns == (caller.pc # "idle") ~> (caller.pc = "idle")
=============================================================================
