----------------------- MODULE TransferEdgesProofs -----------------------
(* Theorems of the two ends of a transfer: its reader and the stop of the      *)
(* process.                                                                    *)
EXTENDS TimeoutReader, QueueShutdown, SequenceTheorems, TLAPS

-----------------------------------------------------------------------------
(* Sequences.                                                                *)

\* A function on 1..n is a sequence.
LEMMA FunctionIsSequence ==
  ASSUME NEW S, NEW n \in Nat, NEW t \in [1..n -> S]
  PROVE  t \in Seq(S) /\ Len(t) = n
OBVIOUS

\* What is left of a sequence when n elements of it are gone.
LEMMA RestOfSequence ==
  ASSUME NEW S, NEW q \in Seq(S), NEW n \in 0..Len(q)
  PROVE  /\ SubSeq(q, n + 1, Len(q)) \in Seq(S)
         /\ Len(SubSeq(q, n + 1, Len(q))) = Len(q) - n
         /\ \A j \in 1..(Len(q) - n) : SubSeq(q, n + 1, Len(q))[j] = q[n + j]
<1> DEFINE m == n + 1
           k == Len(q)
<1>1. k \in Int /\ n \in Nat /\ m \in Int /\ n <= k
  BY LenProperties
<1>2. \A i \in m..k : q[i] \in S
  BY <1>1, ElementOfSeq
<1>3. /\ SubSeq(q, m, k) \in Seq(S)
      /\ Len(SubSeq(q, m, k)) = IF m <= k THEN k - m + 1 ELSE 0
      /\ \A i \in 1..(k - m + 1) : SubSeq(q, m, k)[i] = q[m + i - 1]
  <2> HIDE DEF m, k
  <2> QED BY <1>1, <1>2, SubSeqProperties
<1>4. /\ (IF m <= k THEN k - m + 1 ELSE 0) = k - n /\ k - m + 1 = k - n
      /\ \A j \in 1..(k - n) : m + j - 1 = n + j
  BY <1>1
<1> QED BY <1>3, <1>4

\* Bytes that continue what was handed over, appended to it.
LEMMA BytesContinue ==
  ASSUME NEW B \in Nat, NEW s \in Seq(0..B), NEW n \in Nat, Len(s) + n <= B,
         NEW u \in [1..n -> 0..B],
         \A i \in 1..Len(s) : s[i] = i,
         \A i \in 1..n : u[i] = Len(s) + i
  PROVE  /\ s \o u \in Seq(0..B) /\ Len(s \o u) = Len(s) + n
         /\ \A i \in 1..Len(s \o u) : (s \o u)[i] = i
<1>1. Len(s) \in Nat
  BY LenProperties
<1>2. u \in Seq(0..B) /\ Len(u) = n
  BY FunctionIsSequence
<1>3. /\ s \o u \in Seq(0..B) /\ Len(s \o u) = Len(s) + n
      /\ \A i \in 1..(Len(s) + n) : (s \o u)[i] = IF i <= Len(s) THEN s[i] ELSE u[i - Len(s)]
  BY <1>2, ConcatProperties
<1>4. \A i \in 1..(Len(s) + n) : (s \o u)[i] = i
  <2> SUFFICES ASSUME NEW i \in 1..(Len(s) + n) PROVE (s \o u)[i] = i
    OBVIOUS
  <2>1. CASE i <= Len(s)
    BY <2>1, <1>1, <1>3
  <2>2. CASE ~(i <= Len(s))
    <3>1. i - Len(s) \in 1..n /\ Len(s) + (i - Len(s)) = i
      BY <2>2, <1>1
    <3> QED BY <3>1, <2>2, <1>3
  <2> QED BY <2>1, <2>2
<1> QED BY <1>3, <1>4

\* The bytes handed over, and the end after the last of them.
LEMMA EndFollows ==
  ASSUME NEW B \in Nat, NEW s \in Seq(0..B), \A i \in 1..Len(s) : s[i] = i,
         NEW e, e = 0, NEW t, t = Append(s, e)
  PROVE  /\ t \in Seq(0..B) /\ t # <<>> /\ Len(t) = Len(s) + 1 /\ t[Len(t)] = e
         /\ \A i \in 1..Len(t) : t[i] = i \/ (i = Len(t) /\ t[i] = e)
<1>1. e \in 0..B /\ Len(s) \in Nat
  BY LenProperties
<1>2. /\ t \in Seq(0..B) /\ t # <<>> /\ Len(t) = Len(s) + 1
      /\ \A i \in 1..Len(s) : t[i] = s[i]
      /\ t[Len(s) + 1] = e
  BY <1>1, AppendProperties
<1> QED BY <1>1, <1>2

-----------------------------------------------------------------------------
(* The reader.                                                               *)

\* What Drained hands over continues the body, what it leaves follows on it, and
\* the end goes out only with the last byte.
LEMMA DrainedContinues ==
  ASSUME ReaderAssumption, ReaderTypes, BytesInOrder, ~Ended,
         NEW p \in BufferSizes, NEW positions \in Seq(Nat), NEW eof \in BOOLEAN,
         \A j \in 1..Len(positions) :
           positions[j] \in 1..Len(buf) /\ buf[positions[j]] = Len(got) + j,
         Len(got) + Len(positions) <= Body,
         eof => Len(got) + Len(positions) = Body,
         Drained(p, positions, eof)
  PROVE  /\ got' \in Seq(0..Body) /\ ready' \in Seq(Nat) /\ pendingEOF' \in BOOLEAN
         /\ BytesInOrder'
         /\ Ended' => ready' = <<>>
         /\ ~Ended' => Len(got') + Len(ready') = Len(got) + Len(positions)
         /\ \A j \in 1..Len(ready') :
              ready'[j] \in 1..Len(buf) /\ buf[ready'[j]] = Len(got') + j
         /\ pendingEOF' => eof
<1> DEFINE n == IF Len(positions) < p THEN Len(positions) ELSE p
           all == got \o [i \in 1..n |-> buf[positions[i]]]
<1>1. /\ Len(positions) \in Nat /\ p \in Nat /\ Len(got) \in Nat /\ Body \in Nat
      /\ got \in Seq(0..Body) /\ buf \in Seq(0..Body)
  BY LenProperties DEF ReaderAssumption, ReaderTypes
<1>2. n \in 0..Len(positions)
  BY <1>1
<1>3. \A i \in 1..Len(got) : got[i] = i
  <2> SUFFICES ASSUME NEW i \in 1..Len(got) PROVE got[i] = i
    OBVIOUS
  <2>1. got # <<>> /\ got[Len(got)] # EOF
    BY <1>1 DEF Ended
  <2> QED BY <2>1 DEF BytesInOrder
<1>4. /\ ready' = SubSeq(positions, n + 1, Len(positions))
      /\ got' = all \o (IF eof /\ n = Len(positions) THEN <<EOF>> ELSE <<>>)
      /\ pendingEOF' = (eof /\ n < Len(positions))
  BY DEF Drained
<1>5. all \in Seq(0..Body) /\ Len(all) = Len(got) + n /\ \A i \in 1..Len(all) : all[i] = i
  <2> DEFINE u == [i \in 1..n |-> buf[positions[i]]]
  <2>1. n \in Nat /\ Len(got) + n <= Body
    BY <1>1, <1>2
  <2>2. \A i \in 1..n : i \in 1..Len(positions) /\ Len(got) + i \in 0..Body
    BY <1>1, <1>2
  <2> HIDE DEF n
  <2>3. \A i \in 1..n : u[i] = Len(got) + i
    BY <2>2
  <2>4. u \in [1..n -> 0..Body]
    BY <2>2, <2>3
  <2> HIDE DEF u
  <2>5. got \o u \in Seq(0..Body) /\ Len(got \o u) = Len(got) + n
        /\ \A i \in 1..Len(got \o u) : (got \o u)[i] = i
    <3>1. Body \in Nat /\ got \in Seq(0..Body)
      BY <1>1
    <3> HIDE DEF all
    <3> QED BY ONLY <3>1, <2>1, <2>3, <2>4, <1>3, BytesContinue
  <2> QED BY <2>5 DEF u
<1> HIDE DEF all, n
<1>6. /\ ready' \in Seq(Nat) /\ Len(ready') = Len(positions) - n
      /\ \A j \in 1..Len(ready') :
           ready'[j] \in 1..Len(buf) /\ buf[ready'[j]] = Len(all) + j
  <2>1. /\ ready' \in Seq(Nat) /\ Len(ready') = Len(positions) - n
        /\ \A j \in 1..(Len(positions) - n) : ready'[j] = positions[n + j]
    BY <1>2, <1>4, RestOfSequence
  <2>2. \A j \in 1..Len(ready') :
          n + j \in 1..Len(positions) /\ Len(got) + (n + j) = Len(all) + j
    BY <2>1, <1>1, <1>2, <1>5
  <2> QED BY <2>1, <2>2
<1>7. Len(all) \in Nat
  BY <1>1, <1>2, <1>5, <1>6
<1>8. CASE eof /\ n = Len(positions)
  <2>1. got' = Append(all, EOF)
    BY <1>4, <1>8, <1>5, AppendIsConcat, <1>1 DEF EOF
  <2>2. /\ got' \in Seq(0..Body) /\ got' # <<>> /\ Len(got') = Len(all) + 1
        /\ got'[Len(got')] = EOF
        /\ \A i \in 1..Len(got') : got'[i] = i \/ (i = Len(got') /\ got'[i] = EOF)
    <3>1. EOF = 0 /\ Body \in Nat
      BY <1>1 DEF EOF
    <3> QED BY ONLY <3>1, <2>1, <1>5, EndFollows
  <2>3. Len(got) + Len(positions) = Body
    BY <1>8
  <2>4. Len(got') = Body + 1 /\ Len(ready') = 0
    <3>1. Len(got') = Len(all) + 1 /\ Len(all) = Len(got) + n /\ n = Len(positions)
      BY ONLY <2>2, <1>5, <1>8
    <3>2. Len(ready') = Len(positions) - n
      BY ONLY <1>6
    <3>3. Len(got) \in Nat /\ Len(positions) \in Nat
      BY ONLY <1>1
    <3> QED BY ONLY <3>1, <3>2, <3>3, <2>3
  <2>5. ready' = <<>>
    BY <2>4, <1>6, EmptySeq
  <2>6. Ended'
    BY <2>2 DEF Ended
  <2> QED BY <2>2, <2>4, <2>5, <2>6, <1>4, <1>6, <1>8 DEF BytesInOrder
<1>9. CASE ~(eof /\ n = Len(positions))
  <2>1. got' = all
    BY <1>4, <1>5, <1>6, <1>9, ConcatEmptySeq
  <2>2. ~Ended'
    <3>1. CASE got' = <<>>
      BY <3>1 DEF Ended
    <3>2. CASE got' # <<>>
      <4>1. Len(all) \in 1..Len(all) /\ Len(all) # 0
        BY <3>2, <2>1, <1>5, <1>6, EmptySeq
      <4> QED BY <3>2, <4>1, <2>1, <1>5, <1>6 DEF Ended, EOF
    <3> QED BY <3>1, <3>2
  <2>3. Len(got') + Len(ready') = Len(got) + Len(positions)
    BY <2>1, <1>1, <1>2, <1>5, <1>6
  <2> QED BY <2>1, <2>2, <2>3, <1>4, <1>5, <1>6 DEF BytesInOrder
<1> QED BY <1>8, <1>9

LEMMA HandedUnchanged ==
  got' = got => Ended' = Ended /\ (BytesInOrder => BytesInOrder')
BY DEF Ended, BytesInOrder

\* Cancel, Close, the clock and the watcher touch no byte, and a reader that is
\* given up stays so.
LEMMA FlagsKeep ==
  ASSUME ReaderAssumption, BodyHandedOver,
         CancelTransfer \/ Close \/ Tick \/ WatchTimeout
  PROVE  BodyHandedOver'
<1>1. UNCHANGED <<wire, goroutines, pending, buf, ready, pendingEOF, caller, got>>
  BY DEF CancelTransfer, Close, Tick, WatchTimeout
<1>2. GivenUp => GivenUp'
  BY DEF CancelTransfer, Close, Tick, WatchTimeout, GivenUp
<1>3. /\ cancelled' \in BOOLEAN /\ closed' \in BOOLEAN /\ err' \in BOOLEAN /\ failed' \in BOOLEAN
      /\ watcher' \in {"watching", "tripped", "gone"} /\ silence' \in 0..(IdleTimeout + 1)
  <2>1. ReaderTypes /\ IdleTimeout \in Nat
    BY DEF BodyHandedOver, ReaderStrengthening, ReaderAssumption
  <2>2. CASE CancelTransfer \/ Close
    BY <2>1, <2>2 DEF CancelTransfer, Close, ReaderTypes
  <2>3. CASE Tick
    BY <2>1, <2>3 DEF Tick, ReaderTypes
  <2>4. CASE WatchTimeout
    BY <2>1, <2>4 DEF WatchTimeout, ReaderTypes
  <2> QED BY <2>2, <2>3, <2>4
<1>4. Ended' = Ended /\ BytesInOrder'
  BY <1>1, HandedUnchanged DEF BodyHandedOver
<1>5. ReaderTypes'
  BY <1>1, <1>3 DEF BodyHandedOver, ReaderStrengthening, ReaderTypes
<1>6. BytesOwned'
  BY <1>1, <1>2, <1>4 DEF BodyHandedOver, ReaderStrengthening, BytesOwned, Landed
<1>7. OneReadOfBody' /\ CallsInOrder' /\ LateIfGivenUp'
  BY <1>1, <1>2, <1>4 DEF BodyHandedOver, ReaderStrengthening, OneReadOfBody, CallsInOrder,
     LateIfGivenUp
<1> QED BY <1>4, <1>5, <1>6, <1>7 DEF BodyHandedOver, ReaderStrengthening

\* What arrives follows on what was handed over, in a buffer nobody waits for.
LEMMA ReadBodyKeeps ==
  ASSUME ReaderAssumption, BodyHandedOver, NEW g \in goroutines, ReadBody(g)
  PROVE  BodyHandedOver'
<1> USE DEF BodyHandedOver, ReaderStrengthening
<1>1. PICK n \in 0..g.len, eof \in BOOLEAN :
        /\ wire + n <= Body /\ (eof => wire + n = Body)
        /\ wire' = wire + n
        /\ buf' = [i \in 1..Len(buf) |-> IF i <= n THEN wire + i ELSE buf[i]]
        /\ goroutines' = (goroutines \ {g}) \cup
             {[g EXCEPT !.pc = "arrived", !.n = n, !.eof = eof, !.late = GivenUp]}
  BY DEF ReadBody
<1>0. PICK h : h = [g EXCEPT !.pc = "arrived", !.n = n, !.eof = eof, !.late = GivenUp]
  OBVIOUS
<1>2. UNCHANGED <<cancelled, closed, watcher, err, failed, silence, pending, ready,
                  pendingEOF, caller, got>>
  BY DEF ReadBody, Quiet
<1>3. /\ g.len \in BufferSizes /\ g.len \in Nat /\ wire \in Nat /\ Body \in Nat /\ n \in Nat
      /\ n <= g.len /\ n \in 0..Body /\ wire' \in 0..Body /\ GivenUp \in BOOLEAN
  BY <1>1 DEF ReaderTypes, ReaderAssumption, GivenUp
<1>4. /\ h \in [pc : {"reading", "arrived", "stamped"}, len : BufferSizes,
                n : 0..Body, eof : BOOLEAN, late : BOOLEAN]
      /\ h.len = g.len /\ h.n = n /\ h.eof = eof /\ h.late = GivenUp /\ h.pc = "arrived"
      /\ g.pc = "reading"
  BY <1>0, <1>3 DEF ReaderTypes, ReadBody
<1>5. goroutines = {g} /\ goroutines' = {h}
  BY <1>0, <1>1 DEF OneReadOfBody
<1>6. pending.outstanding /\ ~pending.sent /\ ready = <<>> /\ ~Ended
  BY DEF OneReadOfBody, CallsInOrder
<1>7. buf \in Seq(0..Body) /\ Len(buf) \in Nat /\ Len(got) \in Nat
  BY LenProperties DEF ReaderTypes
<1>8. buf' \in [1..Len(buf) -> 0..Body]
  <2> SUFFICES ASSUME NEW i \in 1..Len(buf)
               PROVE (IF i <= n THEN wire + i ELSE buf[i]) \in 0..Body
    BY <1>1
  <2>1. buf[i] \in 0..Body
    BY <1>7, ElementOfSeq
  <2> QED BY <2>1, <1>1, <1>3
<1>9. buf' \in Seq(0..Body) /\ Len(buf') = Len(buf)
  BY <1>7, <1>8, FunctionIsSequence
<1>10. Ended' = Ended /\ BytesInOrder'
  BY <1>2, HandedUnchanged
<1>11. ReaderTypes'
  BY <1>2, <1>3, <1>4, <1>5, <1>9 DEF ReaderTypes
<1>12. GivenUp' = GivenUp
  BY <1>2 DEF GivenUp
<1>13. BytesOwned'
  <2>1. g.len <= Len(buf) /\ Landed(g.n, g.eof) /\ g.n = 0
    BY <1>4 DEF BytesOwned
  <2>2. n <= Len(buf)
    BY <2>1, <1>3, <1>7
  <2>3. ~GivenUp => wire = Len(got)
    BY <2>1, <1>7 DEF Landed
  <2>4. ~GivenUp => \A i \in 1..n : buf'[i] = Len(got) + i
    <3>1. \A i \in 1..n : i \in 1..Len(buf) /\ i <= n
      BY <2>2, <1>3, <1>7
    <3> QED BY <3>1, <2>3, <1>1
  <2>5. Landed(n, eof)'
    BY <2>2, <2>3, <2>4, <1>1, <1>2, <1>9, <1>12 DEF Landed
  <2>6. \A k \in goroutines' : k.n = n /\ k.eof = eof /\ k.len <= Len(buf') /\ k.pc = "arrived"
    BY <2>1, <1>4, <1>5, <1>9
  <2>8. \A k \in goroutines' : Landed(k.n, k.eof)'
    BY <2>5, <2>6 DEF Landed
  <2>9. \A j \in 1..Len(ready') :
          ready'[j] \in 1..Len(buf') /\ buf'[ready'[j]] = Len(got') + j
    BY <1>2, <1>6
  <2>7. /\ \A k \in goroutines' : k.pc = "reading" => k.n = 0
        /\ goroutines' # {} /\ ~pending'.sent /\ ready' = <<>>
    BY <2>6, <1>2, <1>5, <1>6
  <2> QED BY <2>6, <2>7, <2>8, <2>9, Zenon DEF BytesOwned
<1>14. OneReadOfBody' /\ CallsInOrder' /\ LateIfGivenUp'
  BY <1>2, <1>4, <1>5, <1>6, <1>10, <1>12 DEF OneReadOfBody, CallsInOrder, LateIfGivenUp
<1> QED BY <1>10, <1>11, <1>13, <1>14

\* Where the goroutine is has no part in what it holds.
LEMMA StampKeeps ==
  ASSUME ReaderAssumption, BodyHandedOver, NEW g \in goroutines, Stamp(g)
  PROVE  BodyHandedOver'
<1> USE DEF BodyHandedOver, ReaderStrengthening
<1>1. PICK h : h = [g EXCEPT !.pc = "stamped"]
  OBVIOUS
<1>2. /\ UNCHANGED <<cancelled, closed, watcher, err, failed, wire, pending, buf, ready,
                      pendingEOF, caller, got>>
      /\ silence' \in 0..(IdleTimeout + 1)
  BY DEF Stamp, ReaderTypes, ReaderAssumption
<1>3. /\ h \in [pc : {"reading", "arrived", "stamped"}, len : BufferSizes,
                n : 0..Body, eof : BOOLEAN, late : BOOLEAN]
      /\ h.len = g.len /\ h.n = g.n /\ h.eof = g.eof /\ h.late = g.late /\ h.pc = "stamped"
  BY <1>1 DEF ReaderTypes
<1>4. goroutines = {g} /\ goroutines' = {h}
  BY <1>1 DEF OneReadOfBody, Stamp
<1>5. Ended' = Ended /\ BytesInOrder' /\ GivenUp' = GivenUp
  BY <1>2, HandedUnchanged DEF GivenUp
<1>6. ReaderTypes'
  BY <1>2, <1>3, <1>4 DEF ReaderTypes
<1>7. BytesOwned'
  <2>1. g.len <= Len(buf) /\ Landed(g.n, g.eof)
    BY DEF BytesOwned
  <2>2. \A k \in goroutines' : k.len <= Len(buf') /\ k.pc # "reading"
    BY <2>1, <1>2, <1>3, <1>4
  <2>3. \A k \in goroutines' : Landed(k.n, k.eof)'
    BY <2>1, <1>2, <1>3, <1>4, <1>5 DEF Landed
  <2>4. pending.sent => Landed(pending.n, pending.eof)'
    BY <1>2, <1>5 DEF BytesOwned, Landed
  <2> QED BY <2>2, <2>3, <2>4, <1>2, <1>4 DEF BytesOwned
<1>8. OneReadOfBody' /\ CallsInOrder' /\ LateIfGivenUp'
  BY <1>2, <1>3, <1>4, <1>5 DEF OneReadOfBody, CallsInOrder, LateIfGivenUp
<1> QED BY <1>5, <1>6, <1>7, <1>8

\* The result goes from the goroutine to the channel.
LEMMA SendKeeps ==
  ASSUME ReaderAssumption, BodyHandedOver, NEW g \in goroutines, SendResult(g)
  PROVE  BodyHandedOver'
<1> USE DEF BodyHandedOver, ReaderStrengthening
<1>1. /\ UNCHANGED <<cancelled, closed, watcher, err, failed, silence, wire, buf, ready,
                      pendingEOF, caller, got>>
      /\ pending' = [outstanding |-> TRUE, sent |-> TRUE, n |-> g.n, eof |-> g.eof, late |-> g.late]
  BY DEF SendResult, Quiet
<1>2. g.n \in 0..Body /\ g.eof \in BOOLEAN /\ g.late \in BOOLEAN
  BY DEF ReaderTypes
<1>3. goroutines' = {}
  BY DEF OneReadOfBody, SendResult
<1>4. Ended' = Ended /\ BytesInOrder' /\ GivenUp' = GivenUp
  BY <1>1, HandedUnchanged DEF GivenUp
<1>5. ReaderTypes'
  BY <1>1, <1>2, <1>3 DEF ReaderTypes
<1>6. ready = <<>> /\ ~Ended
  BY DEF CallsInOrder, OneReadOfBody
<1>7. BytesOwned'
  <2>1. Landed(g.n, g.eof)
    BY DEF BytesOwned
  <2>2. pending'.n = g.n /\ pending'.eof = g.eof /\ pending'.sent
    BY <1>1
  <2>3. Landed(pending.n, pending.eof)'
    BY <2>1, <2>2, <1>1, <1>4 DEF Landed
  <2>4. \A j \in 1..Len(ready') :
          ready'[j] \in 1..Len(buf') /\ buf'[ready'[j]] = Len(got') + j
    BY <1>1, <1>6
  <2> QED BY <2>2, <2>3, <2>4, <1>1, <1>3, <1>6, Zenon DEF BytesOwned
<1>8. OneReadOfBody' /\ CallsInOrder' /\ LateIfGivenUp'
  BY <1>1, <1>3, <1>4, <1>6 DEF OneReadOfBody, CallsInOrder, LateIfGivenUp
<1> QED BY <1>4, <1>5, <1>7, <1>8

\* The steps of a call that neither hand over nor take a result leave every byte
\* where it is.
LEMMA MovesKeep ==
  ASSUME ReaderAssumption, BodyHandedOver,
         UNCHANGED <<cancelled, closed, watcher, err, failed, silence, wire, goroutines,
                     pending, buf, ready, pendingEOF, got>>,
         caller' \in {Idle} \cup [pc : {"start", "check", "select", "recheck"}, len : BufferSizes],
         caller'.pc = "idle" \/ (ready = <<>> /\ ~Ended),
         caller'.pc = "recheck" => pending.sent
  PROVE  BodyHandedOver'
<1> USE DEF BodyHandedOver, ReaderStrengthening
<1>1. Ended' = Ended /\ BytesInOrder' /\ GivenUp' = GivenUp
  BY HandedUnchanged DEF GivenUp
<1>2. ReaderTypes'
  BY DEF ReaderTypes
<1>3. BytesOwned'
  BY <1>1 DEF BytesOwned, Landed
<1>4. OneReadOfBody' /\ CallsInOrder' /\ LateIfGivenUp'
  BY <1>1 DEF OneReadOfBody, CallsInOrder, LateIfGivenUp
<1> QED BY <1>1, <1>2, <1>3, <1>4

LEMMA ChecksKeep ==
  ASSUME ReaderAssumption, BodyHandedOver, CheckAbandoned \/ Select
  PROVE  BodyHandedOver'
<1> USE DEF BodyHandedOver, ReaderStrengthening
<1>1. /\ UNCHANGED <<cancelled, closed, watcher, err, failed, silence, wire, goroutines,
                      pending, buf, ready, pendingEOF, got>>
      /\ caller.pc \in {"check", "select"}
  BY DEF CheckAbandoned, Select, ReturnsError, Quiet
<1>2. caller \in [pc : {"start", "check", "select", "recheck"}, len : BufferSizes]
  BY <1>1 DEF ReaderTypes, Idle
<1>3. \/ caller' = Idle
      \/ caller' = [caller EXCEPT !.pc = "select"]
      \/ caller' = [caller EXCEPT !.pc = "recheck"] /\ pending.sent
  BY DEF CheckAbandoned, Select, ReturnsError, Returns
<1>4. ready = <<>> /\ ~Ended
  BY <1>1 DEF CallsInOrder
<1>5. /\ caller' \in {Idle} \cup [pc : {"start", "check", "select", "recheck"}, len : BufferSizes]
      /\ caller'.pc = "recheck" => pending.sent
  BY <1>2, <1>3 DEF Idle
<1> QED BY <1>1, <1>4, <1>5, MovesKeep

\* A call that hands over what follows in the body leaves what follows on that.
LEMMA DrainKeeps ==
  ASSUME ReaderAssumption, BodyHandedOver, ~Ended, goroutines = {},
         NEW p \in BufferSizes, NEW positions \in Seq(Nat), NEW eof \in BOOLEAN,
         \A j \in 1..Len(positions) :
           positions[j] \in 1..Len(buf) /\ buf[positions[j]] = Len(got) + j,
         wire = Len(got) + Len(positions),
         eof => wire = Body,
         Drained(p, positions, eof),
         UNCHANGED <<cancelled, closed, watcher, err, failed, silence, wire, goroutines, buf>>,
         pending' = NoResult, caller' = Idle
  PROVE  BodyHandedOver'
<1>1. ReaderTypes /\ BytesInOrder
  BY DEF BodyHandedOver, ReaderStrengthening
<1>2. wire \in Nat /\ Body \in Nat /\ wire <= Body
  BY <1>1 DEF ReaderTypes, ReaderAssumption
<1>3. /\ got' \in Seq(0..Body) /\ ready' \in Seq(Nat) /\ pendingEOF' \in BOOLEAN
      /\ BytesInOrder'
      /\ Ended' => ready' = <<>>
      /\ ~Ended' => Len(got') + Len(ready') = wire
      /\ \A j \in 1..Len(ready') :
           ready'[j] \in 1..Len(buf) /\ buf[ready'[j]] = Len(got') + j
      /\ pendingEOF' => eof
  <2>1. /\ Len(got) + Len(positions) <= Body
        /\ eof => Len(got) + Len(positions) = Body
    BY <1>2
  <2> QED BY <2>1, <1>1, DrainedContinues
<1>4. /\ ~pending'.sent /\ ~pending'.outstanding /\ ~pending'.late /\ caller'.pc = "idle"
      /\ goroutines' = {}
  BY DEF NoResult, Idle
<1>5. ReaderTypes'
  <2>1. 0 \in 0..Body
    BY <1>2
  <2> QED BY <1>1, <1>3, <2>1 DEF ReaderTypes, NoResult, Idle
<1>6. BytesOwned'
  <2>1. Len(got') \in Nat /\ Len(buf') \in Nat
    BY <1>3, <1>5, LenProperties DEF ReaderTypes
  <2>2. ready' = <<>> /\ ~Ended' => Landed(0, FALSE)'
    <3>1. ready' = <<>> /\ ~Ended' => wire' = Len(got') + 0
      BY <1>3, <2>1
    <3> QED BY <2>1, <3>1 DEF Landed
  <2>3. ready' # <<>> => wire' = Len(got') + Len(ready') /\ (pendingEOF' => wire' = Body)
    BY <1>3
  <2>4. \A j \in 1..Len(ready') :
          ready'[j] \in 1..Len(buf') /\ buf'[ready'[j]] = Len(got') + j
    BY <1>3
  <2> QED BY <2>2, <2>3, <2>4, <1>4, Zenon DEF BytesOwned
<1>7. OneReadOfBody' /\ CallsInOrder' /\ LateIfGivenUp'
  BY <1>3, <1>4 DEF OneReadOfBody, CallsInOrder, LateIfGivenUp
<1> QED BY <1>3, <1>5, <1>6, <1>7 DEF BodyHandedOver, ReaderStrengthening

LEMMA StartReadKeeps ==
  ASSUME ReaderAssumption, BodyHandedOver, NEW p \in BufferSizes, StartRead(p)
  PROVE  BodyHandedOver'
<1> USE DEF BodyHandedOver, ReaderStrengthening
<1>1. /\ UNCHANGED <<cancelled, closed, watcher, err, failed, silence, wire, goroutines,
                      pending, buf>>
      /\ ~Ended
  BY DEF StartRead, Quiet
<1>2. CASE ready # <<>>
  <2>1. goroutines = {} /\ pending = NoResult
    BY <1>2 DEF OneReadOfBody, CallsInOrder
  <2>2. Drained(p, ready, pendingEOF) /\ caller' = Idle /\ pending' = NoResult
    BY <1>1, <1>2, <2>1 DEF StartRead, Returns
  <2>3. /\ ready \in Seq(Nat) /\ pendingEOF \in BOOLEAN
        /\ wire = Len(got) + Len(ready) /\ (pendingEOF => wire = Body)
        /\ \A j \in 1..Len(ready) : ready[j] \in 1..Len(buf) /\ buf[ready[j]] = Len(got) + j
    BY <1>2 DEF ReaderTypes, BytesOwned
  <2> HIDE DEF BodyHandedOver
  <2> QED BY <1>1, <2>1, <2>2, <2>3, DrainKeeps
<1>3. CASE ready = <<>>
  <2>1. /\ UNCHANGED <<got, ready, pendingEOF>>
        /\ caller' = Idle \/ caller' = [pc |-> "start", len |-> p]
    BY <1>3 DEF StartRead, ReturnsError, Returns
  <2>2. /\ caller' \in {Idle} \cup [pc : {"start", "check", "select", "recheck"}, len : BufferSizes]
        /\ caller'.pc # "recheck"
    BY <2>1 DEF Idle
  <2> QED BY <1>1, <1>3, <2>1, <2>2, MovesKeep
<1> QED BY <1>2, <1>3

LEMMA DeliverKeeps ==
  ASSUME ReaderAssumption, BodyHandedOver, Deliver
  PROVE  BodyHandedOver'
<1> USE DEF BodyHandedOver, ReaderStrengthening
<1>1. /\ UNCHANGED <<cancelled, closed, watcher, err, failed, silence, wire, goroutines, buf>>
      /\ pending' = NoResult /\ caller' = Idle /\ caller.pc = "recheck"
  BY DEF Deliver, ReturnsError, Returns, Quiet
<1>2. /\ pending.sent /\ goroutines = {} /\ ready = <<>> /\ ~Ended
      /\ caller.len \in BufferSizes /\ pending.n \in Nat /\ pending.eof \in BOOLEAN
  BY <1>1 DEF CallsInOrder, ReaderTypes, Idle
<1>3. CASE GivenUp
  <2>1. UNCHANGED <<got, ready, pendingEOF>>
    BY <1>3 DEF Deliver, ReturnsError
  <2>2. Ended' = Ended /\ BytesInOrder' /\ GivenUp'
    BY <1>1, <1>3, <2>1, HandedUnchanged DEF GivenUp
  <2>3. ReaderTypes'
    <3>1. 0 \in 0..Body
      BY DEF ReaderAssumption
    <3> QED BY <1>1, <2>1, <3>1 DEF ReaderTypes, NoResult, Idle
  <2>4. BytesOwned'
    <3>1. \A j \in 1..Len(ready') :
            ready'[j] \in 1..Len(buf') /\ buf'[ready'[j]] = Len(got') + j
      BY <1>2, <2>1
    <3>2. ~pending'.sent /\ goroutines' = {} /\ ready' = <<>>
      BY <1>1, <1>2, <2>1 DEF NoResult
    <3>3. Landed(0, FALSE)'
      BY <2>2 DEF Landed
    <3> QED BY <3>1, <3>2, <3>3, Zenon DEF BytesOwned
  <2>5. OneReadOfBody' /\ CallsInOrder' /\ LateIfGivenUp'
    BY <1>1, <1>2, <2>1, <2>2 DEF OneReadOfBody, CallsInOrder, LateIfGivenUp, NoResult, Idle
  <2> QED BY <2>2, <2>3, <2>4, <2>5
<1>4. CASE ~GivenUp
  <2>1. PICK positions : positions = [i \in 1..pending.n |-> i]
    OBVIOUS
  <2>2. Drained(caller.len, positions, pending.eof)
    BY <1>4, <2>1 DEF Deliver
  <2>3. positions \in [1..pending.n -> Nat] /\ \A j \in 1..pending.n : positions[j] = j
    BY <1>2, <2>1
  <2>4. positions \in Seq(Nat) /\ Len(positions) = pending.n
    BY <1>2, <2>3, FunctionIsSequence
  <2>5. /\ wire = Len(got) + pending.n /\ pending.n <= Len(buf)
        /\ \A i \in 1..pending.n : buf[i] = Len(got) + i
        /\ pending.eof => wire = Body
    BY <1>2, <1>4 DEF BytesOwned, Landed
  <2>6. \A j \in 1..Len(positions) :
          positions[j] \in 1..Len(buf) /\ buf[positions[j]] = Len(got) + j
    <3>1. Len(buf) \in Nat
      BY LenProperties DEF ReaderTypes
    <3> QED BY <1>2, <2>3, <2>4, <2>5, <3>1
  <2>7. PICK p \in BufferSizes, eof \in BOOLEAN : p = caller.len /\ eof = pending.eof
    BY <1>2
  <2>8. Drained(p, positions, eof) /\ wire = Len(got) + Len(positions) /\ (eof => wire = Body)
    BY <2>2, <2>4, <2>5, <2>7
  <2> HIDE DEF BodyHandedOver
  <2> QED BY <1>1, <1>2, <2>4, <2>6, <2>8, DrainKeeps
<1> QED BY <1>3, <1>4

\* A read is started only when nothing is outstanding, on a buffer nobody reads.
LEMMA StartGoroutineKeeps ==
  ASSUME ReaderAssumption, BodyHandedOver, StartGoroutine
  PROVE  BodyHandedOver'
<1> USE DEF BodyHandedOver, ReaderStrengthening
<1>1. /\ UNCHANGED <<cancelled, closed, watcher, err, failed, silence, wire, ready,
                      pendingEOF, got>>
      /\ caller' = [caller EXCEPT !.pc = "check"] /\ caller.pc = "start"
  BY DEF StartGoroutine, Quiet
<1>2. /\ caller \in [pc : {"start", "check", "select", "recheck"}, len : BufferSizes]
      /\ caller.len \in BufferSizes /\ caller.len \in Nat
      /\ ready = <<>> /\ ~Ended
  BY <1>1 DEF CallsInOrder, ReaderTypes, ReaderAssumption, Idle
<1>3. /\ caller' \in [pc : {"start", "check", "select", "recheck"}, len : BufferSizes]
      /\ caller'.pc = "check"
  BY <1>1, <1>2
<1>4. CASE pending.outstanding
  <2>1. UNCHANGED <<goroutines, pending, buf>>
    BY <1>4 DEF StartGoroutine
  <2> QED BY <1>1, <1>2, <1>3, <2>1, MovesKeep
<1>5. CASE ~pending.outstanding
  <2>1. PICK h : h = [pc |-> "reading", len |-> caller.len, n |-> 0, eof |-> FALSE, late |-> FALSE]
    OBVIOUS
  <2>2. goroutines = {} /\ pending = NoResult /\ ~pending.sent
    BY <1>5 DEF OneReadOfBody, CallsInOrder
  <2>3. /\ goroutines' = {h}
        /\ pending' = [NoResult EXCEPT !.outstanding = TRUE]
        /\ buf' = IF Len(buf) < caller.len THEN [i \in 1..caller.len |-> 0] ELSE buf
    BY <1>5, <2>1, <2>2 DEF StartGoroutine
  <2>4. /\ pending'.outstanding /\ ~pending'.sent /\ ~pending'.late
        /\ 0 \in 0..Body
    BY <2>3 DEF NoResult, ReaderAssumption
  <2>5. buf' \in Seq(0..Body) /\ Len(buf') \in Nat /\ caller.len <= Len(buf')
    <3>1. buf \in Seq(0..Body) /\ Len(buf) \in Nat
      BY LenProperties DEF ReaderTypes
    <3>2. CASE Len(buf) < caller.len
      <4>1. buf' \in [1..caller.len -> 0..Body]
        BY <2>3, <2>4, <3>2
      <4>2. buf' \in Seq(0..Body) /\ Len(buf') = caller.len
        BY <4>1, <1>2, FunctionIsSequence
      <4> QED BY <4>2, <1>2
    <3>3. CASE ~(Len(buf) < caller.len)
      BY <2>3, <3>1, <3>3, <1>2
    <3> QED BY <3>2, <3>3
  <2>6. Ended' = Ended /\ BytesInOrder' /\ GivenUp' = GivenUp
    BY <1>1, HandedUnchanged DEF GivenUp
  <2>7. ReaderTypes'
    <3>1. h \in [pc : {"reading", "arrived", "stamped"}, len : BufferSizes,
                 n : 0..Body, eof : BOOLEAN, late : BOOLEAN]
      BY <1>2, <2>1, <2>4
    <3>2. pending' \in [outstanding : BOOLEAN, sent : BOOLEAN, n : 0..Body,
                        eof : BOOLEAN, late : BOOLEAN]
      BY <2>3, <2>4 DEF NoResult
    <3> QED BY <3>1, <3>2, <1>1, <1>3, <2>3, <2>5 DEF ReaderTypes
  <2>8. BytesOwned'
    <3>1. Landed(0, FALSE)
      BY <1>2, <2>2 DEF BytesOwned
    <3>7. h.len = caller.len /\ h.n = 0 /\ h.eof = FALSE
      BY <2>1
    <3>2. \A k \in goroutines' : k.len <= Len(buf') /\ k.n = 0 /\ k.eof = FALSE
      BY <3>7, <2>3, <2>5
    <3>3. Landed(0, FALSE)'
      BY <3>1, <1>1, <2>5, <2>6 DEF Landed
    <3>4. \A k \in goroutines' : Landed(k.n, k.eof)'
      BY <3>2, <3>3 DEF Landed
    <3>5. \A j \in 1..Len(ready') :
            ready'[j] \in 1..Len(buf') /\ buf'[ready'[j]] = Len(got') + j
      BY <1>1, <1>2
    <3>6. goroutines' # {} /\ ~pending'.sent /\ ready' = <<>>
      BY <1>1, <1>2, <2>3, <2>4
    <3> QED BY <3>2, <3>4, <3>5, <3>6, Zenon DEF BytesOwned
  <2>9. OneReadOfBody' /\ CallsInOrder' /\ LateIfGivenUp'
    <3>1. \A k \in goroutines' : k = h /\ k.late = FALSE
      BY <2>1, <2>3
    <3> QED BY <3>1, <1>1, <1>2, <1>3, <2>4, <2>6 DEF OneReadOfBody, CallsInOrder, LateIfGivenUp
  <2> QED BY <2>6, <2>7, <2>8, <2>9
<1> QED BY <1>4, <1>5

LEMMA ReaderStarts == ReaderAssumption /\ ReaderInit => BodyHandedOver
<1> SUFFICES ASSUME ReaderAssumption, ReaderInit PROVE BodyHandedOver
  OBVIOUS
<1>1. Len(got) = 0 /\ Len(ready) = 0 /\ Len(buf) = 0 /\ ~Ended /\ wire = 0
  BY DEF ReaderInit, Ended
<1>2. Body \in Nat /\ 0 \in 0..Body /\ 0 \in 0..(IdleTimeout + 1)
  BY DEF ReaderAssumption
<1>3. ReaderTypes
  <2>1. /\ pending \in [outstanding : BOOLEAN, sent : BOOLEAN, n : 0..Body,
                        eof : BOOLEAN, late : BOOLEAN]
        /\ buf \in Seq(0..Body) /\ ready \in Seq(Nat) /\ got \in Seq(0..Body)
    BY <1>2 DEF ReaderInit, NoResult
  <2> QED BY <1>2, <2>1 DEF ReaderInit, ReaderTypes
<1>4. BytesInOrder /\ OneReadOfBody
  BY <1>1 DEF ReaderInit, BytesInOrder, OneReadOfBody
<1>5. BytesOwned
  BY <1>1 DEF ReaderInit, BytesOwned, Landed, NoResult
<1>6. CallsInOrder /\ LateIfGivenUp
  BY <1>1 DEF ReaderInit, CallsInOrder, LateIfGivenUp, NoResult, Idle
<1> QED BY <1>3, <1>4, <1>5, <1>6 DEF BodyHandedOver, ReaderStrengthening

LEMMA ReaderKeeps ==
  ReaderAssumption /\ BodyHandedOver /\ [ReaderNext]_readerVars => BodyHandedOver'
<1> SUFFICES ASSUME ReaderAssumption, BodyHandedOver, [ReaderNext]_readerVars
             PROVE  BodyHandedOver'
  OBVIOUS
<1>1. CASE CancelTransfer \/ Close \/ Tick \/ WatchTimeout
  BY <1>1, FlagsKeep
<1>2. CASE \E g \in goroutines : ReadBody(g) \/ Stamp(g) \/ SendResult(g)
  BY <1>2, ReadBodyKeeps, StampKeeps, SendKeeps
<1>3. CASE \E p \in BufferSizes : StartRead(p)
  BY <1>3, StartReadKeeps
<1>4. CASE ReadStep
  BY <1>4, StartGoroutineKeeps, ChecksKeep, DeliverKeeps DEF ReadStep
<1>5. CASE UNCHANGED readerVars
  <2>1. /\ UNCHANGED <<cancelled, closed, watcher, err, failed, silence, wire, goroutines,
                        pending, buf, ready, pendingEOF, got>>
        /\ caller' = caller
    BY <1>5 DEF readerVars
  <2>2. /\ caller \in {Idle} \cup [pc : {"start", "check", "select", "recheck"}, len : BufferSizes]
        /\ caller.pc = "idle" \/ (ready = <<>> /\ ~Ended)
        /\ caller.pc = "recheck" => pending.sent
    BY DEF BodyHandedOver, ReaderStrengthening, ReaderTypes, CallsInOrder
  <2> QED BY <2>1, <2>2, MovesKeep
<1> QED BY <1>1, <1>2, <1>3, <1>4, <1>5 DEF ReaderNext

\* For every body, every sizes the caller reads with and every timeout: the caller
\* gets the bytes of the body in order and once, from one goroutine at a time.
THEOREM BodyAlwaysHandedOver == ReaderSpec => []BodyHandedOver
<1>1. ReaderInit => BodyHandedOver
  BY ReaderAssumption, ReaderStarts
<1>2. BodyHandedOver /\ [ReaderNext]_readerVars => BodyHandedOver'
  BY ReaderAssumption, ReaderKeeps
<1> QED BY <1>1, <1>2, PTL DEF ReaderSpec

\* Bytes that arrived after the attempt was given up are never handed over.
THEOREM LateBytesAlwaysDropped == ReaderSpec => LateBytesDropped
<1>1. BodyHandedOver /\ [ReaderNext]_readerVars => [got' # got => ~pending.late]_readerVars
  <2> SUFFICES ASSUME BodyHandedOver, ReaderNext, got' # got PROVE ~pending.late
    OBVIOUS
  <2> USE DEF BodyHandedOver, ReaderStrengthening
  <2>1. CASE \E p \in BufferSizes : StartRead(p)
    <3>1. ready # <<>>
      BY <2>1 DEF StartRead, ReturnsError
    <3> QED BY <3>1 DEF CallsInOrder, NoResult
  <2>2. CASE Deliver
    <3>1. ~GivenUp
      BY <2>2 DEF Deliver, ReturnsError
    <3> QED BY <3>1 DEF LateIfGivenUp
  <2>3. CASE CancelTransfer \/ Close \/ Tick \/ WatchTimeout
    BY <2>3 DEF CancelTransfer, Close, Tick, WatchTimeout
  <2>4. CASE \E g \in goroutines : ReadBody(g) \/ Stamp(g) \/ SendResult(g)
    BY <2>4 DEF ReadBody, Stamp, SendResult
  <2>5. CASE StartGoroutine \/ CheckAbandoned \/ Select
    BY <2>5 DEF StartGoroutine, CheckAbandoned, Select, ReturnsError
  <2> QED BY <2>1, <2>2, <2>3, <2>4, <2>5 DEF ReaderNext, ReadStep
<1> QED BY <1>1, BodyAlwaysHandedOver, PTL DEF ReaderSpec, LateBytesDropped

-----------------------------------------------------------------------------
(* The stop of the process: its event queue.                                 *)

Events == Downloads \X Terminal

LEMMA PairsAreNotEmpty == \A e \in Events : e # <<>>
BY DEF Events

LEMMA OneThenRest ==
  ASSUME NEW S, NEW s \in Seq(S), NEW h \in Seq(S), NEW t \in Seq(S),
         Len(h) = 1, Len(s) = Len(t) + 1, h[1] = s[1],
         \A i \in 1..Len(t) : t[i] = s[i + 1]
  PROVE  h \o t = s
<1>1. Len(t) \in Nat
  BY LenProperties
<1>2. h \o t \in Seq(S) /\ Len(h \o t) = 1 + Len(t)
      /\ \A i \in 1..(1 + Len(t)) : (h \o t)[i] = IF i <= 1 THEN h[i] ELSE t[i - 1]
  <2>1. h \o t \in Seq(S) /\ Len(h \o t) = Len(h) + Len(t)
        /\ \A i \in 1..(Len(h) + Len(t)) :
             (h \o t)[i] = IF i <= Len(h) THEN h[i] ELSE t[i - Len(h)]
    BY ONLY h \in Seq(S), t \in Seq(S), ConcatProperties
  <2>2. Len(h) = 1
    OBVIOUS
  <2> QED BY ONLY <2>1, <2>2
<1>3. \A i \in 1..(1 + Len(t)) : (h \o t)[i] = s[i]
  <2> SUFFICES ASSUME NEW i \in 1..(1 + Len(t)) PROVE (h \o t)[i] = s[i]
    OBVIOUS
  <2>1. CASE i = 1
    BY <2>1, <1>1, <1>2
  <2>2. CASE i # 1
    <3>1. i - 1 \in 1..Len(t) /\ (i - 1) + 1 = i /\ ~(i <= 1)
      BY <2>2, <1>1
    <3> QED BY <3>1, <1>2
  <2> QED BY <2>1, <2>2
<1>4. Len(h \o t) = Len(s)
  BY <1>1, <1>2
<1> QED BY <1>2, <1>3, <1>4, SeqEqual

\* The head of a sequence, and what is behind it.
LEMMA HeadThenTail ==
  ASSUME NEW S, NEW s \in Seq(S), s # <<>>
  PROVE  /\ Head(s) \in S /\ Tail(s) \in Seq(S) /\ <<Head(s)>> \in Seq(S)
         /\ <<Head(s)>> \o Tail(s) = s
<1>1. Head(s) \in S /\ Tail(s) \in Seq(S) /\ Len(Tail(s)) = Len(s) - 1
      /\ \A i \in 1..Len(Tail(s)) : Tail(s)[i] = s[i + 1]
  BY HeadTailProperties
<1>2. Len(s) \in Nat /\ Len(s) # 0
  BY EmptySeq, LenProperties
<1>3. <<Head(s)>> \in Seq(S) /\ Len(<<Head(s)>>) = 1 /\ <<Head(s)>>[1] = s[1]
  BY <1>1, <1>2
<1>4. PICK h, t : h = <<Head(s)>> /\ t = Tail(s)
  OBVIOUS
<1>5. /\ h \in Seq(S) /\ t \in Seq(S) /\ Len(h) = 1 /\ Len(s) = Len(t) + 1 /\ h[1] = s[1]
      /\ \A i \in 1..Len(t) : t[i] = s[i + 1]
  BY <1>1, <1>2, <1>3, <1>4
<1>6. h \o t = s
  BY <1>5, OneThenRest
<1> QED BY <1>1, <1>3, <1>4, <1>6

\* The events of what the dispatcher took, and the one it tells of, as sequences.
EventsOf(taken) == [i \in DOMAIN taken |-> taken[i].event]

Only(e) == IF e = <<>> THEN <<>> ELSE <<e>>

Accepted == [event : Events, late : BOOLEAN]

LEMMA EventsOfTaken ==
  ASSUME NEW taken \in Seq(Accepted)
  PROVE  /\ EventsOf(taken) \in Seq(Events) /\ Len(EventsOf(taken)) = Len(taken)
         /\ \A i \in 1..Len(taken) : EventsOf(taken)[i] = taken[i].event
<1>1. Len(taken) \in Nat /\ DOMAIN taken = 1..Len(taken)
  BY LenProperties
<1>2. \A i \in 1..Len(taken) : taken[i].event \in Events
  <2> SUFFICES ASSUME NEW i \in 1..Len(taken) PROVE taken[i].event \in Events
    OBVIOUS
  <2>1. taken[i] \in Accepted
    BY ElementOfSeq
  <2> QED BY <2>1 DEF Accepted
<1>3. EventsOf(taken) \in [1..Len(taken) -> Events]
  BY <1>1, <1>2 DEF EventsOf
<1> QED BY <1>1, <1>3, FunctionIsSequence DEF EventsOf

LEMMA EventsOfOneMore ==
  ASSUME NEW taken \in Seq(Accepted), NEW r \in Accepted
  PROVE  /\ Append(taken, r) \in Seq(Accepted)
         /\ EventsOf(Append(taken, r)) = Append(EventsOf(taken), r.event)
<1>1. r.event \in Events /\ Len(taken) \in Nat
  BY LenProperties DEF Accepted
<1>2. PICK more, s : more = Append(taken, r) /\ s = Append(EventsOf(taken), r.event)
  OBVIOUS
<1>3. /\ more \in Seq(Accepted) /\ Len(more) = Len(taken) + 1
      /\ \A i \in 1..Len(taken) : more[i] = taken[i]
      /\ more[Len(taken) + 1] = r
  BY <1>2, AppendProperties
<1>4. EventsOf(taken) \in Seq(Events) /\ Len(EventsOf(taken)) = Len(taken)
      /\ \A i \in 1..Len(taken) : EventsOf(taken)[i] = taken[i].event
  BY EventsOfTaken
<1>5. /\ s \in Seq(Events) /\ Len(s) = Len(EventsOf(taken)) + 1
      /\ \A i \in 1..Len(EventsOf(taken)) : s[i] = EventsOf(taken)[i]
      /\ s[Len(EventsOf(taken)) + 1] = r.event
  BY <1>1, <1>2, <1>4, AppendProperties
<1>6. EventsOf(more) \in Seq(Events) /\ Len(EventsOf(more)) = Len(more)
      /\ \A i \in 1..Len(more) : EventsOf(more)[i] = more[i].event
  BY <1>3, EventsOfTaken
<1>7. Len(s) = Len(EventsOf(more))
  BY <1>3, <1>4, <1>5, <1>6
<1>8. \A i \in 1..Len(s) : s[i] = EventsOf(more)[i]
  <2> SUFFICES ASSUME NEW i \in 1..(Len(taken) + 1) PROVE s[i] = EventsOf(more)[i]
    BY <1>4, <1>5
  <2>1. CASE i = Len(taken) + 1
    BY <2>1, <1>1, <1>3, <1>4, <1>5, <1>6
  <2>2. CASE i # Len(taken) + 1
    <3>1. i \in 1..Len(taken)
      BY <2>2, <1>1
    <3>2. s[i] = taken[i].event
      BY <3>1, <1>4, <1>5
    <3>3. EventsOf(more)[i] = more[i].event
      BY <1>3, <1>6
    <3> QED BY <3>1, <3>2, <3>3, <1>3
  <2> QED BY <2>1, <2>2
<1>9. s = EventsOf(more)
  BY <1>5, <1>6, <1>7, <1>8, SeqEqual
<1> QED BY <1>2, <1>3, <1>9

\* What was accepted is what was heard, what is told of and what is queued: an
\* event that is handed over, taken or told of moves from one to the next.
LEMMA HandingOver ==
  ASSUME NEW h \in Seq(Events), NEW m \in Seq(Events), NEW b \in Seq(Events), NEW e \in Events
  PROVE  Append((h \o m) \o b, e) = (h \o m) \o Append(b, e)
<1>1. h \o m \in Seq(Events) /\ <<e>> \in Seq(Events)
  BY ConcatProperties
<1>2. (h \o m) \o b \in Seq(Events)
  BY <1>1, ConcatProperties
<1>3. ((h \o m) \o b) \o <<e>> = (h \o m) \o (b \o <<e>>)
  BY <1>1, ConcatAssociative
<1> QED BY <1>2, <1>3, AppendIsConcat

LEMMA Taking ==
  ASSUME NEW h \in Seq(Events), NEW b \in Seq(Events), b # <<>>
  PROVE  (h \o <<>>) \o b = (h \o <<Head(b)>>) \o Tail(b)
<1>1. Tail(b) \in Seq(Events) /\ <<Head(b)>> \in Seq(Events) /\ <<Head(b)>> \o Tail(b) = b
  BY HeadThenTail
<1>2. (h \o <<Head(b)>>) \o Tail(b) = h \o (<<Head(b)>> \o Tail(b))
  BY <1>1, ConcatAssociative
<1>3. h \o <<>> = h
  BY ConcatEmptySeq
<1> QED BY <1>1, <1>2, <1>3

LEMMA Hearing ==
  ASSUME NEW h \in Seq(Events), NEW b \in Seq(Events), NEW e \in Events
  PROVE  /\ Append(h, e) \in Seq(Events)
         /\ (Append(h, e) \o <<>>) \o b = (h \o <<e>>) \o b
<1>1. Append(h, e) \in Seq(Events) /\ Append(h, e) = h \o <<e>>
  BY AppendProperties, AppendIsConcat
<1> QED BY <1>1, ConcatEmptySeq

EventTypes ==
  /\ stopping \in BOOLEAN
  /\ dispatcher \in [pc : {"select", "dispatch", "drain", "dispatchlast", "gone"},
                     event : {<<>>} \cup Events]
  /\ buffer \in Seq(Events) /\ heard \in Seq(Events) /\ accepted \in Seq(Accepted)

EventsInOrder == EventTypes /\ DispatcherInStep /\ HeardInOrder /\ HandedOverHeard

LEMMA OrderOfEvents ==
  HeardInOrder <=> EventsOf(accepted) = (heard \o Only(dispatcher.event)) \o buffer
BY DEF HeardInOrder, EventsOf, Only

LEMMA OrderOfEventsNext ==
  HeardInOrder' <=> EventsOf(accepted') = (heard' \o Only(dispatcher'.event)) \o buffer'
BY DEF HeardInOrder, EventsOf, Only

LEMMA OnlyIsSequence == \A e \in {<<>>} \cup Events : Only(e) \in Seq(Events)
<1> SUFFICES ASSUME NEW e \in {<<>>} \cup Events PROVE Only(e) \in Seq(Events)
  OBVIOUS
<1>1. CASE e = <<>>
  BY <1>1, EmptySeq DEF Only
<1>2. CASE e # <<>>
  <2>1. e \in Events
    BY <1>2
  <2>2. <<e>> \in Seq(Events)
    BY <2>1
  <2> QED BY <1>2, <2>2 DEF Only
<1> QED BY <1>1, <1>2

LEMMA EventQueueRests ==
  ASSUME EventsInOrder, UNCHANGED <<dispatcher, buffer, accepted, heard>>,
         stopping' = stopping \/ stopping' = TRUE
  PROVE  EventsInOrder'
<1>1. EventTypes'
  BY DEF EventsInOrder, EventTypes
<1>2. DispatcherInStep'
  BY DEF EventsInOrder, DispatcherInStep
<1>3. HeardInOrder' /\ HandedOverHeard'
  BY DEF EventsInOrder, HeardInOrder, HandedOverHeard
<1> QED BY <1>1, <1>2, <1>3 DEF EventsInOrder

\* An event that is accepted after the goroutine has left is late: done was closed.
LEMMA AcceptedInOrder ==
  ASSUME EventsInOrder, NEW e \in Events,
         buffer' = Append(buffer, e),
         accepted' = Append(accepted, [event |-> e, late |-> stopping]),
         UNCHANGED <<stopping, dispatcher, heard>>
  PROVE  EventsInOrder'
<1>1. PICK r : r = [event |-> e, late |-> stopping]
  OBVIOUS
<1>2. r \in Accepted /\ r.event = e /\ r.late = stopping /\ accepted' = Append(accepted, r)
  BY <1>1 DEF Accepted, EventsInOrder, EventTypes
<1>3. EventTypes
  BY DEF EventsInOrder
<1>4. /\ accepted' \in Seq(Accepted) /\ Len(accepted') = Len(accepted) + 1
      /\ \A i \in 1..Len(accepted) : accepted'[i] = accepted[i]
      /\ accepted'[Len(accepted) + 1] = r
  BY <1>2, <1>3, AppendProperties DEF EventTypes
<1>5. buffer' \in Seq(Events)
  BY <1>3, AppendProperties DEF EventTypes
<1>6. EventTypes'
  BY <1>3, <1>4, <1>5 DEF EventTypes
<1>7. DispatcherInStep'
  BY DEF EventsInOrder, DispatcherInStep
<1>8. HeardInOrder'
  <2>1. EventsOf(accepted') = Append(EventsOf(accepted), e)
    BY <1>2, <1>3, EventsOfOneMore DEF EventTypes
  <2>2. EventsOf(accepted) = (heard \o Only(dispatcher.event)) \o buffer
    BY OrderOfEvents DEF EventsInOrder
  <2>3. Only(dispatcher.event) \in Seq(Events) /\ heard \in Seq(Events) /\ buffer \in Seq(Events)
    BY <1>3, OnlyIsSequence DEF EventTypes
  <2>4. Append((heard \o Only(dispatcher.event)) \o buffer, e)
          = (heard \o Only(dispatcher.event)) \o Append(buffer, e)
    BY <2>3, HandingOver
  <2> QED BY <2>1, <2>2, <2>4, OrderOfEventsNext
<1>9. HandedOverHeard'
  <2>1. /\ Len(accepted) \in Nat
        /\ DOMAIN accepted = 1..Len(accepted) /\ DOMAIN accepted' = 1..(Len(accepted) + 1)
    BY <1>3, <1>4, LenProperties DEF EventTypes
  <2>2. SUFFICES ASSUME dispatcher.pc = "gone", NEW i \in 1..(Len(accepted) + 1), i > Len(heard)
                 PROVE  accepted'[i].late
    BY <2>1 DEF HandedOverHeard
  <2>3. stopping
    BY <2>2 DEF EventsInOrder, DispatcherInStep
  <2>4. CASE i = Len(accepted) + 1
    BY <2>3, <2>4, <1>2, <1>4
  <2>5. CASE i # Len(accepted) + 1
    <3>1. i \in 1..Len(accepted)
      BY <2>1, <2>5
    <3> QED BY <3>1, <2>1, <2>2, <1>4 DEF EventsInOrder, HandedOverHeard
  <2> QED BY <2>4, <2>5
<1> QED BY <1>6, <1>7, <1>8, <1>9 DEF EventsInOrder

LEMMA TakenInOrder == ASSUME EventsInOrder, TakeEvent PROVE EventsInOrder'
<1>1. EventTypes
  BY DEF EventsInOrder
<1>2. /\ dispatcher.pc \in {"select", "drain"} /\ buffer # <<>>
      /\ dispatcher' = [pc |-> IF dispatcher.pc = "drain" THEN "dispatchlast" ELSE "dispatch",
                        event |-> Head(buffer)]
      /\ buffer' = Tail(buffer) /\ UNCHANGED <<stopping, accepted, heard>>
  BY DEF TakeEvent
<1>3. Head(buffer) \in Events /\ Tail(buffer) \in Seq(Events)
  BY <1>1, <1>2, HeadThenTail DEF EventTypes
<1>4. EventTypes'
  BY <1>1, <1>2, <1>3 DEF EventTypes
<1>5. Head(buffer) # <<>>
  BY <1>3, PairsAreNotEmpty
<1>6. DispatcherInStep'
  BY <1>2, <1>5 DEF EventsInOrder, DispatcherInStep
<1>7. HeardInOrder'
  <2>1. EventsOf(accepted) = (heard \o Only(dispatcher.event)) \o buffer
    BY OrderOfEvents DEF EventsInOrder
  <2>2. Only(dispatcher.event) = <<>>
    BY <1>2 DEF EventsInOrder, DispatcherInStep, Only
  <2>3. Only(dispatcher'.event) = <<Head(buffer)>>
    BY <1>2, <1>5 DEF Only
  <2>4. (heard \o <<>>) \o buffer = (heard \o <<Head(buffer)>>) \o Tail(buffer)
    BY <1>1, <1>2, Taking DEF EventTypes
  <2> QED BY <2>1, <2>2, <2>3, <2>4, <1>2, OrderOfEventsNext
<1>8. HandedOverHeard'
  BY <1>2 DEF HandedOverHeard
<1> QED BY <1>4, <1>6, <1>7, <1>8 DEF EventsInOrder

LEMMA DispatchedInOrder == ASSUME EventsInOrder, Dispatch PROVE EventsInOrder'
<1>1. EventTypes
  BY DEF EventsInOrder
<1>2. /\ dispatcher.pc \in {"dispatch", "dispatchlast"}
      /\ heard' = Append(heard, dispatcher.event)
      /\ dispatcher' = [pc |-> IF dispatcher.pc = "dispatch" THEN "select" ELSE "drain", event |-> <<>>]
      /\ UNCHANGED <<stopping, buffer, accepted>>
  BY DEF Dispatch
<1>3. dispatcher.event # <<>> /\ dispatcher.event \in Events
  BY <1>1, <1>2 DEF EventsInOrder, DispatcherInStep, EventTypes
<1>4. /\ heard' \in Seq(Events)
      /\ (heard' \o <<>>) \o buffer = (heard \o <<dispatcher.event>>) \o buffer
  BY <1>1, <1>2, <1>3, Hearing DEF EventTypes
<1>5. EventTypes'
  BY <1>1, <1>2, <1>4 DEF EventTypes
<1>6. DispatcherInStep'
  BY <1>2 DEF EventsInOrder, DispatcherInStep
<1>7. HeardInOrder'
  <2>1. EventsOf(accepted) = (heard \o Only(dispatcher.event)) \o buffer
    BY OrderOfEvents DEF EventsInOrder
  <2>2. Only(dispatcher.event) = <<dispatcher.event>> /\ Only(dispatcher'.event) = <<>>
    BY <1>2, <1>3 DEF Only
  <2> QED BY <2>1, <2>2, <1>2, <1>4, OrderOfEventsNext
<1>8. HandedOverHeard'
  BY <1>2 DEF HandedOverHeard
<1> QED BY <1>5, <1>6, <1>7, <1>8 DEF EventsInOrder

LEMMA DoneInOrder == ASSUME EventsInOrder, SeeDone PROVE EventsInOrder'
<1>1. EventTypes
  BY DEF EventsInOrder
<1>2. UNCHANGED <<stopping, buffer, accepted, heard>>
  BY DEF SeeDone
<1>3. \/ stopping /\ dispatcher.pc = "select" /\ dispatcher' = [dispatcher EXCEPT !.pc = "drain"]
      \/ dispatcher.pc = "drain" /\ buffer = <<>> /\ dispatcher' = [dispatcher EXCEPT !.pc = "gone"]
  BY DEF SeeDone
<1>4. EventTypes' /\ dispatcher'.event = dispatcher.event
  BY <1>1, <1>2, <1>3 DEF EventTypes
<1>5. dispatcher'.pc \in {"drain", "gone"} /\ stopping /\ dispatcher.event = <<>>
  BY <1>1, <1>3 DEF EventsInOrder, DispatcherInStep, EventTypes
<1>6. DispatcherInStep'
  BY <1>2, <1>4, <1>5 DEF DispatcherInStep
<1>7. HeardInOrder'
  BY <1>2, <1>4 DEF EventsInOrder, HeardInOrder
<1>8. HandedOverHeard'
  <2>1. SUFFICES ASSUME dispatcher'.pc = "gone"
                 PROVE  \A i \in DOMAIN accepted : i > Len(heard) => accepted[i].late
    BY <1>2 DEF HandedOverHeard
  <2>2. buffer = <<>> /\ Only(dispatcher.event) = <<>>
    BY <2>1, <1>1, <1>3, <1>5 DEF Only, EventTypes
  <2>3. EventsOf(accepted) = (heard \o <<>>) \o <<>>
    BY <2>2, OrderOfEvents DEF EventsInOrder
  <2>4. EventsOf(accepted) = heard
    BY <2>3, <1>1, ConcatEmptySeq DEF EventTypes
  <2>5. /\ Len(accepted) = Len(heard) /\ DOMAIN accepted = 1..Len(accepted)
        /\ Len(accepted) \in Nat
    BY <2>4, <1>1, EventsOfTaken, LenProperties DEF EventTypes
  <2> QED BY <2>5
<1> QED BY <1>4, <1>6, <1>7, <1>8 DEF EventsInOrder

-----------------------------------------------------------------------------
(* The stop of the process: its downloads.                                   *)

DownloadTypes ==
  /\ jobs \in [Downloads -> [status : {"none", "paused"} \cup Live \cup Terminal,
                            run : Nat, doomed : BOOLEAN]]
  /\ workers \subseteq [job : Downloads, run : Nat,
                       pc : {"queued", "transfer"} \cup Reporting, outcome : {"none"} \cup Terminal]
  /\ requests \subseteq Downloads /\ recorded \subseteq Downloads

AcceptedNamed == \A i \in DOMAIN accepted : accepted[i].event[1] \in Downloads

LEMMA NamesOfAccepted == EventTypes => AcceptedNamed
<1> SUFFICES ASSUME EventTypes, NEW i \in DOMAIN accepted PROVE accepted[i].event[1] \in Downloads
  BY DEF AcceptedNamed
<1>1. accepted[i] \in Accepted
  BY LenProperties, ElementOfSeq DEF EventTypes
<1>2. accepted[i].event \in Downloads \X Terminal
  BY <1>1 DEF Accepted, Events
<1> QED BY <1>2

Settled == ReportersSettle /\ OneOutcomeEach

\* What no reporter has a part in, as long as what is over stays over.
LEMMA ReportersRest ==
  ASSUME Settled, DownloadTypes, AcceptedNamed, UNCHANGED accepted,
         \A d \in Downloads :
           jobs[d].status \in Terminal => jobs'[d].status \in Terminal,
         \A w \in workers' : w.pc \in Reporting => w \in workers
  PROVE  Settled'
<1>1. \A w \in workers : w.job \in Downloads
  BY DEF DownloadTypes
<1>2. ReportersSettle'
  BY <1>1 DEF Settled, ReportersSettle, AcceptedNamed
<1> QED BY <1>2 DEF Settled, OneOutcomeEach

\* A reporter of a job that was not over is its only one.
LEMMA ReporterComes ==
  ASSUME Settled, DownloadTypes, AcceptedNamed, UNCHANGED accepted,
         NEW n, n.job \in Downloads, n.outcome \in Terminal,
         jobs[n.job].status \notin Terminal, jobs'[n.job].status \in Terminal,
         \A d \in Downloads :
           jobs[d].status \in Terminal => jobs'[d].status \in Terminal,
         \A w \in workers' : w.pc \in Reporting => w = n \/ w \in workers
  PROVE  Settled'
<1>1. \A w \in workers : w.job \in Downloads
  BY DEF DownloadTypes
<1>2. \A w \in workers : w.pc \in Reporting => w.job # n.job
  BY DEF Settled, ReportersSettle
<1>3. \A i \in DOMAIN accepted : accepted[i].event[1] # n.job
  BY DEF Settled, ReportersSettle
<1>4. \A v, w \in workers' :
        v.pc \in Reporting /\ w.pc \in Reporting /\ v.job = w.job => v = w
  BY <1>2 DEF Settled, ReportersSettle
<1>5. \A w \in workers' : w.pc \in Reporting =>
        w.outcome \in Terminal /\ jobs'[w.job].status \in Terminal
  BY <1>1 DEF Settled, ReportersSettle
<1>6. \A i \in DOMAIN accepted :
        /\ jobs'[accepted[i].event[1]].status \in Terminal
        /\ \A w \in workers' : w.pc \in Reporting => w.job # accepted[i].event[1]
  BY <1>3 DEF Settled, ReportersSettle, AcceptedNamed
<1>7. ReportersSettle'
  BY <1>4, <1>5, <1>6 DEF ReportersSettle
<1> QED BY <1>7 DEF Settled, OneOutcomeEach

\* A reporter that goes on, or leaves without a word.
LEMMA ReporterGoes ==
  ASSUME Settled, DownloadTypes, UNCHANGED <<accepted, jobs>>,
         NEW w \in workers, w.pc \in Reporting,
         NEW n, n.job = w.job, n.outcome = w.outcome,
         \A v \in workers' : v.pc \in Reporting => v = n \/ (v \in workers /\ v # w)
  PROVE  Settled'
<1>1. ReportersSettle'
  BY DEF Settled, ReportersSettle
<1> QED BY <1>1 DEF Settled, OneOutcomeEach

\* The event of a reporter is the first of its job, and the reporter is gone.
LEMMA ReporterTells ==
  ASSUME Settled, DownloadTypes, EventTypes, UNCHANGED jobs,
         NEW w \in workers, w.pc \in Reporting,
         workers' = workers \ {w},
         accepted' = Append(accepted, [event |-> <<w.job, w.outcome>>, late |-> stopping])
  PROVE  Settled'
<1>1. PICK r : r = [event |-> <<w.job, w.outcome>>, late |-> stopping]
  OBVIOUS
<1>2. w.job \in Downloads /\ w.outcome \in Terminal /\ jobs[w.job].status \in Terminal
  BY DEF Settled, ReportersSettle, DownloadTypes
<1>3. r.event[1] = w.job
  BY <1>1
<1>4. r \in Accepted
  BY <1>1, <1>2 DEF Accepted, Events, EventTypes
<1>5. /\ accepted \in Seq(Accepted) /\ accepted' \in Seq(Accepted)
      /\ Len(accepted') = Len(accepted) + 1
      /\ \A i \in 1..Len(accepted) : accepted'[i] = accepted[i]
      /\ accepted'[Len(accepted) + 1] = r
  BY <1>1, <1>4, AppendProperties DEF EventTypes
<1>6. /\ Len(accepted) \in Nat /\ DOMAIN accepted = 1..Len(accepted)
      /\ DOMAIN accepted' = 1..(Len(accepted) + 1)
  BY <1>5, LenProperties
<1>7. \A i \in DOMAIN accepted' :
        \/ i \in DOMAIN accepted /\ accepted'[i] = accepted[i]
        \/ i = Len(accepted) + 1 /\ i \notin DOMAIN accepted /\ accepted'[i].event[1] = w.job
  BY <1>3, <1>5, <1>6
<1>8. \A i \in DOMAIN accepted : accepted[i].event[1] # w.job
  BY DEF Settled, ReportersSettle
<1>9. ReportersSettle'
  BY <1>2, <1>7 DEF Settled, ReportersSettle
<1>10. OneOutcomeEach'
  BY <1>7, <1>8 DEF Settled, OneOutcomeEach
<1> QED BY <1>9, <1>10 DEF Settled

DownloadsSound == DownloadTypes /\ Settled /\ DownloadsManned

Attempts ==
  [job : Downloads, run : Nat, pc : {"queued", "transfer"} \cup Reporting,
   outcome : {"none"} \cup Terminal]

LEMMA Statuses ==
  /\ "completed" \in Terminal /\ "cancelled" \in Terminal
  /\ "none" \notin Terminal \cup Live /\ "paused" \notin Terminal \cup Live
  /\ "pending" \in Live /\ "downloading" \in Live /\ Live \cap Terminal = {}
  /\ {"record", "announce", "hand"} = Reporting /\ "queued" \notin Reporting
  /\ "transfer" \notin Reporting
BY DEF Terminal, Live, Reporting

\* A download that has a status of its own and no other attempt in sight gets one.
LEMMA AttemptSound ==
  ASSUME DownloadsSound, AcceptedNamed, UNCHANGED <<accepted, recorded, requests>>,
         NEW d \in Downloads, jobs[d].status \in {"none", "paused"}, NewAttempt(d)
  PROVE  DownloadsSound'
<1> USE DEF DownloadsSound
<1>1. PICK n : n = [job |-> d, run |-> jobs[d].run + 1, pc |-> "queued", outcome |-> "none"]
  OBVIOUS
<1>2. /\ workers' = workers \cup {n}
      /\ jobs' = [jobs EXCEPT ![d] = [status |-> "pending", run |-> jobs[d].run + 1, doomed |-> FALSE]]
  BY <1>1 DEF NewAttempt
<1>3. jobs[d].run + 1 \in Nat
  BY DEF DownloadTypes
<1>4. n \in Attempts /\ n.job = d /\ n.run = jobs[d].run + 1 /\ n.pc = "queued"
  BY <1>1, <1>3 DEF Attempts
<1>5. /\ jobs'[d].status = "pending" /\ jobs'[d].run = jobs[d].run + 1
      /\ \A x \in Downloads : x # d => jobs'[x] = jobs[x]
  BY <1>2 DEF DownloadTypes
<1>6. DownloadTypes'
  BY <1>2, <1>3, <1>4, Statuses DEF DownloadTypes, Attempts
<1>7. Settled'
  BY <1>2, <1>4, <1>5, Statuses, ReportersRest
<1>8. DownloadsManned'
  BY <1>2, <1>4, <1>5, Statuses DEF DownloadsManned
<1> QED BY <1>6, <1>7, <1>8

\* A step of the registry that starts and ends nothing.
LEMMA RegistrySound ==
  ASSUME DownloadsSound, AcceptedNamed, UNCHANGED <<workers, accepted, recorded>>,
         jobs' \in [Downloads -> [status : {"none", "paused"} \cup Live \cup Terminal,
                                 run : Nat, doomed : BOOLEAN]],
         requests' \subseteq Downloads,
         \A x \in Downloads : /\ jobs'[x].run = jobs[x].run
                               /\ \/ jobs'[x].status = jobs[x].status
                                  \/ jobs[x].status \in Live /\ jobs'[x].status = "paused"
  PROVE  DownloadsSound'
<1> USE DEF DownloadsSound
<1>1. DownloadTypes'
  BY DEF DownloadTypes
<1>2. Settled'
  BY Statuses, ReportersRest
<1>3. DownloadsManned'
  BY Statuses DEF DownloadsManned
<1> QED BY <1>1, <1>2, <1>3

LEMMA DoomingKeeps ==
  ASSUME DownloadTypes, NEW d \in Downloads,
         jobs' = jobs \/ jobs' = [jobs EXCEPT ![d].doomed = TRUE]
  PROVE  /\ jobs' \in [Downloads -> [status : {"none", "paused"} \cup Live \cup Terminal,
                                     run : Nat, doomed : BOOLEAN]]
         /\ \A x \in Downloads : jobs'[x].run = jobs[x].run /\ jobs'[x].status = jobs[x].status
<1>1. jobs \in [Downloads -> [status : {"none", "paused"} \cup Live \cup Terminal,
                             run : Nat, doomed : BOOLEAN]]
  BY DEF DownloadTypes
<1>2. CASE jobs' = jobs
  BY <1>1, <1>2
<1>3. CASE jobs' = [jobs EXCEPT ![d].doomed = TRUE]
  BY <1>1, <1>3
<1> QED BY <1>2, <1>3

\* An attempt that ends without owning its job takes nothing with it.
LEMMA AttemptLeaves ==
  ASSUME DownloadsSound, AcceptedNamed, NEW w \in workers, ~Owns(w),
         w.pc \in {"queued", "transfer"}, workers' = workers \ {w},
         UNCHANGED <<jobs, accepted, recorded, requests>>
  PROVE  DownloadsSound'
<1> USE DEF DownloadsSound
<1>1. DownloadTypes'
  BY DEF DownloadTypes
<1>2. Settled'
  BY ReportersRest
<1>3. DownloadsManned'
  BY Statuses DEF DownloadsManned, Owns
<1> QED BY <1>1, <1>2, <1>3

LEMMA ClaimStartSound ==
  ASSUME DownloadsSound, AcceptedNamed, NEW w \in workers, ClaimStart(w)
  PROVE  DownloadsSound'
<1> USE DEF DownloadsSound
<1>1. w.pc = "queued" /\ UNCHANGED <<accepted, recorded, requests>>
  BY DEF ClaimStart, eventVars
<1>2. CASE ~Owns(w)
  BY <1>1, <1>2, AttemptLeaves DEF ClaimStart
<1>3. CASE Owns(w)
  <2>1. PICK n : n = [w EXCEPT !.pc = "transfer"]
    OBVIOUS
  <2>2. /\ workers' = (workers \ {w}) \cup {n}
        /\ jobs' = [jobs EXCEPT ![w.job].status = "downloading"]
    BY <1>3, <2>1 DEF ClaimStart, Becomes
  <2>3. w \in Attempts
    BY DEF DownloadTypes, Attempts
  <2>4. n \in Attempts /\ n.job = w.job /\ n.run = w.run /\ n.pc = "transfer"
    BY <2>1, <2>3, Statuses DEF Attempts
  <2>5. /\ w.job \in Downloads /\ jobs[w.job].status \in Live /\ jobs[w.job].run = w.run
        /\ jobs'[w.job].status = "downloading" /\ jobs'[w.job].run = w.run
        /\ \A x \in Downloads : x # w.job => jobs'[x] = jobs[x]
    BY <1>3, <2>2, <2>3 DEF Owns, DownloadTypes, Attempts
  <2>6. DownloadTypes'
    <3>1. jobs' \in [Downloads -> [status : {"none", "paused"} \cup Live \cup Terminal,
                                  run : Nat, doomed : BOOLEAN]]
      BY <2>2, <2>5, Statuses DEF DownloadTypes
    <3> QED BY <3>1, <1>1, <2>2, <2>4 DEF DownloadTypes, Attempts
  <2>7. Settled'
    BY <1>1, <2>2, <2>4, <2>5, Statuses, ReportersRest
  <2>8. DownloadsManned'
    BY <1>1, <2>2, <2>4, <2>5, Statuses DEF DownloadsManned
  <2> QED BY <2>6, <2>7, <2>8
<1> QED BY <1>2, <1>3

LEMMA FinishSound ==
  ASSUME DownloadsSound, AcceptedNamed, NEW w \in workers,
         NEW outcome \in {"completed", "cancelled"}, finishSnapshot(w, outcome)
  PROVE  DownloadsSound'
<1> USE DEF DownloadsSound
<1>1. w.pc \in {"queued", "transfer"} /\ UNCHANGED <<accepted, recorded, requests>>
  BY DEF finishSnapshot, eventVars
<1>2. CASE ~Owns(w)
  BY <1>1, <1>2, AttemptLeaves DEF finishSnapshot
<1>3. CASE Owns(w)
  <2>1. PICK n : n = [w EXCEPT !.pc = "record", !.outcome = outcome]
    OBVIOUS
  <2>2. /\ workers' = (workers \ {w}) \cup {n}
        /\ jobs' = [jobs EXCEPT ![w.job].status = outcome]
    BY <1>3, <2>1 DEF finishSnapshot
  <2>3. w \in Attempts /\ outcome \in Terminal
    BY DEF DownloadTypes, Attempts, Terminal
  <2>4. /\ n \in Attempts /\ n.job = w.job /\ n.pc = "record" /\ n.outcome = outcome
    BY <2>1, <2>3, Statuses DEF Attempts
  <2>5. /\ w.job \in Downloads /\ jobs[w.job].status \in Live
        /\ jobs'[w.job].status = outcome
        /\ \A x \in Downloads : x # w.job => jobs'[x] = jobs[x]
    BY <1>3, <2>2, <2>3 DEF Owns, DownloadTypes, Attempts
  <2>6. DownloadTypes'
    <3>1. jobs' \in [Downloads -> [status : {"none", "paused"} \cup Live \cup Terminal,
                                  run : Nat, doomed : BOOLEAN]]
      BY <2>2, <2>3, <2>5 DEF DownloadTypes
    <3> QED BY <3>1, <1>1, <2>2, <2>4 DEF DownloadTypes, Attempts
  <2>7. Settled'
    <3>1. n.job \in Downloads /\ n.outcome \in Terminal
          /\ jobs[n.job].status \notin Terminal /\ jobs'[n.job].status \in Terminal
      BY <2>3, <2>4, <2>5, Statuses
    <3>2. \A x \in Downloads : jobs[x].status \in Terminal => jobs'[x].status \in Terminal
      BY <2>3, <2>5
    <3>3. \A v \in workers' : v.pc \in Reporting => v = n \/ v \in workers
      BY <2>2
    <3> QED BY <1>1, <3>1, <3>2, <3>3, ReporterComes
  <2>8. DownloadsManned'
    BY <1>1, <2>2, <2>3, <2>4, <2>5, Statuses DEF DownloadsManned
  <2> QED BY <2>6, <2>7, <2>8
<1> QED BY <1>2, <1>3

LEMMA RecordSound ==
  ASSUME DownloadsSound, AcceptedNamed, NEW w \in workers,
         recordTerminal(w) \/ CheckDone(w)
  PROVE  DownloadsSound'
<1> USE DEF DownloadsSound
<1>1. UNCHANGED <<jobs, accepted, requests>>
  BY DEF recordTerminal, CheckDone, eventVars
<1>2. PICK n : n = [w EXCEPT !.pc = IF w.pc = "record" THEN "announce" ELSE "hand"]
  OBVIOUS
<1>3. /\ \/ w.pc = "record" /\ recorded' = recorded \cup {w.job} /\ workers' = (workers \ {w}) \cup {n}
         \/ w.pc = "announce" /\ recorded' = recorded /\ workers' = (workers \ {w}) \cup {n}
         \/ w.pc = "announce" /\ recorded' = recorded /\ workers' = workers \ {w}
  BY <1>2 DEF recordTerminal, CheckDone, Becomes
<1>4. w \in Attempts /\ w.pc \in Reporting
  BY <1>3, Statuses DEF DownloadTypes, Attempts
<1>5. n \in Attempts /\ n.job = w.job /\ n.outcome = w.outcome /\ n.pc \in {"announce", "hand"}
  BY <1>2, <1>4, Statuses DEF Attempts
<1>6. DownloadTypes'
  BY <1>1, <1>3, <1>4, <1>5 DEF DownloadTypes, Attempts
<1>7. Settled'
  <2>1. \A v \in workers' : v.pc \in Reporting => v = n \/ (v \in workers /\ v # w)
    BY <1>3
  <2> QED BY <1>1, <1>4, <1>5, <2>1, ReporterGoes
<1>8. DownloadsManned'
  BY <1>1, <1>3, <1>5, Statuses DEF DownloadsManned
<1> QED BY <1>6, <1>7, <1>8

LEMMA HandOverSound ==
  ASSUME DownloadsSound, EventTypes, NEW w \in workers, HandOver(w)
  PROVE  DownloadsSound'
<1> USE DEF DownloadsSound
<1>1. /\ UNCHANGED <<jobs, recorded, requests>> /\ w.pc = "hand" /\ w.pc \in Reporting
      /\ workers' = workers \ {w}
  BY Statuses DEF HandOver
<1>2. DownloadTypes'
  BY <1>1 DEF DownloadTypes
<1>3. Settled'
  <2>1. CASE accepted' = accepted
    <3>1. \A v \in workers' : v.pc \in Reporting => v = w \/ (v \in workers /\ v # w)
      BY <1>1
    <3> QED BY <1>1, <2>1, <3>1, ReporterGoes
  <2>2. CASE accepted' = Append(accepted, [event |-> <<w.job, w.outcome>>, late |-> stopping])
    BY <1>1, <2>2, ReporterTells
  <2> QED BY <2>1, <2>2 DEF HandOver
<1>4. DownloadsManned'
  BY <1>1, Statuses DEF DownloadsManned
<1> QED BY <1>2, <1>3, <1>4

\* Shutdown ends a paused download as a worker would, and records it.
LEMMA AbandonSound ==
  ASSUME DownloadsSound, AcceptedNamed, NEW d \in Downloads, Abandon(d)
  PROVE  DownloadsSound'
<1> USE DEF DownloadsSound
<1>1. UNCHANGED <<accepted, recorded, requests>>
  BY DEF Abandon, eventVars
<1>2. CASE jobs[d].status = "paused"
  <2>1. PICK n : n = [job |-> d, run |-> 0, pc |-> "record", outcome |-> "cancelled"]
    OBVIOUS
  <2>2. /\ jobs' = [jobs EXCEPT ![d].status = "cancelled"]
        /\ workers' = workers \cup {n}
    BY <1>2, <2>1 DEF Abandon, Live
  <2>3. n \in Attempts /\ n.job = d /\ n.outcome = "cancelled" /\ n.pc = "record"
    BY <2>1, Statuses DEF Attempts
  <2>4. /\ jobs'[d].status = "cancelled"
        /\ \A x \in Downloads : x # d => jobs'[x] = jobs[x]
    BY <2>2 DEF DownloadTypes
  <2>5. DownloadTypes'
    <3>1. jobs' \in [Downloads -> [status : {"none", "paused"} \cup Live \cup Terminal,
                                  run : Nat, doomed : BOOLEAN]]
      BY <2>2, Statuses DEF DownloadTypes
    <3> QED BY <3>1, <1>1, <2>2, <2>3 DEF DownloadTypes, Attempts
  <2>6. Settled'
    <3>1. n.job \in Downloads /\ n.outcome \in Terminal
          /\ jobs[n.job].status \notin Terminal /\ jobs'[n.job].status \in Terminal
      BY <1>2, <2>3, <2>4, Statuses
    <3>2. \A x \in Downloads : jobs[x].status \in Terminal => jobs'[x].status \in Terminal
      BY <2>4, Statuses
    <3>3. \A v \in workers' : v.pc \in Reporting => v = n \/ v \in workers
      BY <2>2
    <3> QED BY <1>1, <3>1, <3>2, <3>3, ReporterComes
  <2>7. DownloadsManned'
    BY <1>1, <2>2, <2>3, <2>4, Statuses DEF DownloadsManned
  <2> QED BY <2>5, <2>6, <2>7
<1>3. CASE jobs[d].status # "paused"
  <2>1. workers' = workers /\ (jobs' = jobs \/ jobs' = [jobs EXCEPT ![d].doomed = TRUE])
    BY <1>3 DEF Abandon, Live
  <2>2. /\ jobs' \in [Downloads -> [status : {"none", "paused"} \cup Live \cup Terminal,
                                    run : Nat, doomed : BOOLEAN]]
        /\ \A x \in Downloads : jobs'[x].run = jobs[x].run /\ jobs'[x].status = jobs[x].status
    BY <2>1, DoomingKeeps DEF DownloadsSound
  <2>3. requests' \subseteq Downloads
    BY <1>1 DEF DownloadTypes
  <2> QED BY <1>1, <2>1, <2>2, <2>3, RegistrySound
<1> QED BY <1>2, <1>3

-----------------------------------------------------------------------------
(* The stop of the process: main and Shutdown.                               *)

StopTypes ==
  /\ main \in [pc : {"serving", "closing"} \cup Stopping, job : Downloads \cup {NoDownload}]
  /\ todo \subseteq Downloads /\ paused \subseteq Downloads
  /\ overrun \in BOOLEAN /\ undrained \in BOOLEAN /\ dropped \in Nat

Stops == StopTypes /\ PausedFound

LEMMA StopParts ==
  StopLosesNothing <=> /\ DownloadsSound /\ EventsInOrder /\ Stops /\ OutcomesRecorded
BY DEF StopLosesNothing, ShutdownStrengthening, ShutdownTypes, DownloadsSound, Settled,
   EventsInOrder, Stops, DownloadTypes, EventTypes, StopTypes, Accepted, Events

\* Once no worker is left, whatever is registered is over, and it is recorded.
LEMMA NothingUnrecorded == DownloadsSound /\ Stops => OutcomesRecorded
<1> SUFFICES ASSUME DownloadsSound, Stops, main.pc = "exit", ~undrained, ~overrun,
                    NEW d \in Registered
             PROVE  d \in recorded
  BY DEF OutcomesRecorded
<1>1. paused = {} /\ workers = {} /\ jobs[d].status # "paused" /\ d \in Downloads
  BY DEF Stops, PausedFound, Stopping, Registered
<1>2. jobs[d].status \in Live \cup Terminal
  BY <1>1 DEF DownloadsSound, DownloadTypes, Registered
<1> QED BY <1>1, <1>2 DEF DownloadsSound, DownloadsManned

\* While main does not move: after the requests are over, nothing is paused anew.
LEMMA MainRests ==
  ASSUME Stops, UNCHANGED mainVars, dropped' \in Nat,
         main.pc \in Stopping /\ ~overrun /\ requests = {} =>
           /\ requests' = {}
           /\ \A d \in Downloads : jobs'[d].status = "paused" => jobs[d].status = "paused"
           /\ main.pc = "exit" => workers' = workers
  PROVE  Stops'
<1>1. UNCHANGED <<main, todo, paused, overrun, undrained>>
  BY DEF mainVars
<1>2. StopTypes'
  BY <1>1 DEF Stops, StopTypes
<1>3. PausedFound'
  BY <1>1 DEF Stops, PausedFound
<1> QED BY <1>2, <1>3 DEF Stops

LEMMA RequestsRest ==
  ASSUME DownloadsSound, Stops, NEW d \in Downloads,
         Submit(d) \/ Resume(d) \/ LookupPause(d) \/ ClaimPause(d)
  PROVE  Stops'
<1>1. UNCHANGED mainVars /\ dropped' \in Nat
  BY DEF Submit, Resume, LookupPause, ClaimPause, eventVars, mainVars, Stops, StopTypes
<1>2. ~(main.pc \in Stopping /\ ~overrun /\ requests = {})
  BY DEF Submit, Resume, LookupPause, ClaimPause, Serving, Stopping
<1> QED BY <1>1, <1>2, MainRests

LEMMA WorkersRest ==
  ASSUME DownloadsSound, Stops, NEW w \in workers,
         \/ ClaimStart(w) \/ recordTerminal(w) \/ CheckDone(w) \/ HandOver(w)
         \/ \E outcome \in {"completed", "cancelled"} : finishSnapshot(w, outcome)
  PROVE  Stops'
<1>1. UNCHANGED mainVars /\ main.pc # "exit" /\ requests' = requests
  BY DEF ClaimStart, recordTerminal, CheckDone, HandOver, finishSnapshot, mainVars, Running
<1>2. dropped' \in Nat
  BY DEF ClaimStart, recordTerminal, CheckDone, HandOver, finishSnapshot, eventVars, Stops, StopTypes
<1>3. \A d \in Downloads : jobs'[d].status = "paused" => jobs[d].status = "paused"
  <2>1. CASE ClaimStart(w)
    BY <2>1 DEF ClaimStart, DownloadsSound, DownloadTypes
  <2>2. CASE recordTerminal(w) \/ CheckDone(w) \/ HandOver(w)
    BY <2>2 DEF recordTerminal, CheckDone, HandOver
  <2>3. CASE \E outcome \in {"completed", "cancelled"} : finishSnapshot(w, outcome)
    BY <2>3 DEF finishSnapshot, DownloadsSound, DownloadTypes
  <2> QED BY <2>1, <2>2, <2>3
<1> QED BY <1>1, <1>2, <1>3, MainRests

LEMMA DispatcherRests ==
  ASSUME Stops, TakeEvent \/ Dispatch \/ SeeDone
  PROVE  Stops'
<1>1. UNCHANGED <<mainVars, queueVars, dropped>>
  BY DEF TakeEvent, Dispatch, SeeDone
<1>2. UNCHANGED <<jobs, workers, requests>> /\ dropped' \in Nat
  BY <1>1 DEF queueVars, Stops, StopTypes
<1> QED BY <1>1, <1>2, MainRests

LEMMA MainStopTypes ==
  ASSUME Stops, DownloadTypes,
         \/ Signal \/ StopDispatcher \/ LockRegistry \/ CancelContext \/ UnlockRegistry
         \/ Abandoned \/ Exit
         \/ \E d \in Downloads : Look(d) \/ Abandon(d)
  PROVE  StopTypes'
<1> USE DEF Stops, StopTypes, Goes, eventVars, Stopping
<1>1. CASE Signal \/ StopDispatcher
  <2>1. CASE Signal
    BY <2>1 DEF Signal
  <2>2. CASE StopDispatcher
    <3>1. overrun' \in BOOLEAN
      BY <2>2 DEF StopDispatcher
    <3>2. /\ main' = [pc |-> "draining", job |-> NoDownload]
          /\ UNCHANGED <<todo, paused, undrained, dropped>>
      BY <2>2 DEF StopDispatcher
    <3> QED BY <3>1, <3>2
  <2> QED BY <1>1, <2>1, <2>2
<1>2. CASE LockRegistry
  BY <1>2 DEF LockRegistry, Registered
<1>3. CASE CancelContext \/ UnlockRegistry \/ Abandoned
  BY <1>3 DEF CancelContext, UnlockRegistry, Abandoned
<1>4. CASE Exit
  BY <1>4 DEF Exit
<1>5. CASE \E d \in Downloads : Look(d)
  BY <1>5 DEF Look
<1>6. CASE \E d \in Downloads : Abandon(d)
  BY <1>6 DEF Abandon
<1> QED BY <1>1, <1>2, <1>3, <1>4, <1>5, <1>6

LEMMA MainFindsPaused ==
  ASSUME Stops, DownloadsSound,
         \/ Signal \/ StopDispatcher \/ LockRegistry \/ CancelContext \/ UnlockRegistry
         \/ Abandoned \/ Exit
         \/ \E d \in Downloads : Look(d) \/ Abandon(d)
  PROVE  PausedFound'
<1> USE DEF Stops, PausedFound, Goes, queueVars, Stopping
<1>1. CASE Signal
  BY <1>1 DEF Signal
<1>2. CASE StopDispatcher
  BY <1>2 DEF StopDispatcher
<1>3. CASE LockRegistry
  BY <1>3 DEF LockRegistry, Registered
<1>4. CASE CancelContext
  <2>1. \A d \in Downloads : jobs'[d].status = jobs[d].status
    BY <1>4 DEF CancelContext, DownloadsSound, DownloadTypes
  <2> QED BY <1>4, <2>1 DEF CancelContext
<1>5. CASE UnlockRegistry
  BY <1>5 DEF UnlockRegistry
<1>6. CASE Abandoned
  BY <1>6 DEF Abandoned
<1>7. CASE Exit
  BY <1>7 DEF Exit
<1>8. ASSUME NEW d \in Downloads, Look(d) PROVE PausedFound'
  BY <1>8 DEF Look
<1>9. ASSUME NEW d \in Downloads, Abandon(d) PROVE PausedFound'
  <2>1. /\ jobs'[d].status # "paused" /\ requests' = requests /\ overrun' = overrun
        /\ paused' = paused \ {d} /\ main.pc = "abandoning"
        /\ main'.pc \in {"abandoning", "recording"}
    BY <1>9, Statuses DEF Abandon, DownloadsSound, DownloadTypes
  <2>2. \A x \in Downloads : x # d => jobs'[x].status = jobs[x].status
    BY <1>9 DEF Abandon, DownloadsSound, DownloadTypes
  <2> QED BY <2>1, <2>2
<1> QED BY <1>1, <1>2, <1>3, <1>4, <1>5, <1>6, <1>7, <1>8, <1>9

\* What main does to the downloads and to the events.
LEMMA MainSound ==
  ASSUME DownloadsSound, EventsInOrder,
         \/ Signal \/ StopDispatcher \/ LockRegistry \/ CancelContext \/ UnlockRegistry
         \/ Abandoned \/ Exit
         \/ \E d \in Downloads : Look(d) \/ Abandon(d)
  PROVE  DownloadsSound' /\ EventsInOrder'
<1>1. UNCHANGED <<dispatcher, buffer, accepted, heard>> /\ (stopping' = stopping \/ stopping' = TRUE)
  BY DEF Signal, StopDispatcher, LockRegistry, CancelContext, UnlockRegistry, Abandoned, Exit,
     Look, Abandon, eventVars
<1>2. EventsInOrder'
  BY <1>1, EventQueueRests
<1>3. AcceptedNamed
  BY NamesOfAccepted DEF EventsInOrder
<1>4. DownloadTypes
  BY DEF DownloadsSound
<1>5. CASE UNCHANGED queueVars
  <2>1. /\ UNCHANGED <<workers, accepted, recorded>> /\ jobs' = jobs /\ requests' = requests
    BY <1>1, <1>5 DEF queueVars
  <2>2. /\ jobs' \in [Downloads -> [status : {"none", "paused"} \cup Live \cup Terminal,
                                    run : Nat, doomed : BOOLEAN]]
        /\ requests' \subseteq Downloads
    BY <1>4, <2>1 DEF DownloadTypes
  <2> QED BY <1>2, <1>3, <2>1, <2>2, RegistrySound
<1>6. CASE CancelContext
  <2>1. UNCHANGED <<workers, requests, recorded>>
    BY <1>6 DEF CancelContext
  <2>2. /\ jobs' \in [Downloads -> [status : {"none", "paused"} \cup Live \cup Terminal,
                                    run : Nat, doomed : BOOLEAN]]
        /\ \A x \in Downloads : jobs'[x].run = jobs[x].run /\ jobs'[x].status = jobs[x].status
    <3>1. jobs' = [jobs EXCEPT ![main.job].doomed = TRUE]
      BY <1>6 DEF CancelContext
    <3>2. jobs \in [Downloads -> [status : {"none", "paused"} \cup Live \cup Terminal,
                                 run : Nat, doomed : BOOLEAN]]
      BY <1>4 DEF DownloadTypes
    <3> QED BY <3>1, <3>2
  <2>3. requests' \subseteq Downloads
    BY <1>4, <2>1 DEF DownloadTypes
  <2>4. UNCHANGED <<workers, accepted, recorded>>
    BY <1>1, <2>1
  <2> QED BY <1>2, <1>3, <2>2, <2>3, <2>4, RegistrySound
<1>7. CASE \E d \in Downloads : Abandon(d)
  BY <1>2, <1>3, <1>7, AbandonSound
<1>8. DownloadsSound'
  <2>1. UNCHANGED queueVars \/ CancelContext \/ \E d \in Downloads : Abandon(d)
    BY DEF Signal, StopDispatcher, LockRegistry, UnlockRegistry, Abandoned, Exit, Look
  <2> QED BY <2>1, <1>5, <1>6, <1>7
<1> QED BY <1>2, <1>8

LEMMA ShutdownStarts == ShutdownInit => StopLosesNothing
<1> SUFFICES ASSUME ShutdownInit PROVE StopLosesNothing
  OBVIOUS
<1>1. DownloadTypes
  BY Statuses DEF ShutdownInit, DownloadTypes, NoJob
<1>2. Len(accepted) = 0 /\ DOMAIN accepted = {}
  BY DEF ShutdownInit
<1>3. Settled
  BY <1>2 DEF ShutdownInit, Settled, ReportersSettle, OneOutcomeEach
<1>4. DownloadsManned
  BY Statuses DEF ShutdownInit, DownloadsManned, NoJob
<1>5. EventTypes
  BY EmptySeq DEF ShutdownInit, EventTypes
<1>6. DispatcherInStep /\ HandedOverHeard
  BY <1>2 DEF ShutdownInit, DispatcherInStep, HandedOverHeard
<1>7. HeardInOrder
  <2>1. /\ EventsOf(accepted) \in Seq(Events) /\ Len(EventsOf(accepted)) = Len(accepted)
    BY <1>5, EventsOfTaken DEF EventTypes
  <2>2. EventsOf(accepted) = <<>>
    BY <2>1, <1>2, EmptySeq
  <2>3. (heard \o Only(dispatcher.event)) \o buffer = <<>>
    BY EmptySeq, ConcatEmptySeq DEF ShutdownInit, Only
  <2> QED BY <2>2, <2>3, OrderOfEvents
<1>8. Stops
  BY DEF ShutdownInit, Stops, StopTypes, PausedFound, Stopping
<1>9. DownloadsSound /\ EventsInOrder
  BY <1>1, <1>3, <1>4, <1>5, <1>6, <1>7 DEF DownloadsSound, EventsInOrder
<1> QED BY <1>8, <1>9, NothingUnrecorded, StopParts

LEMMA ShutdownKeeps == StopLosesNothing /\ [ShutdownNext]_shutdownVars => StopLosesNothing'
<1> SUFFICES ASSUME StopLosesNothing, [ShutdownNext]_shutdownVars
             PROVE  DownloadsSound' /\ EventsInOrder' /\ Stops'
  <2>1. DownloadsSound' /\ Stops' => OutcomesRecorded'
    BY NothingUnrecorded, PTL
  <2>2. StopLosesNothing' <=> /\ DownloadsSound' /\ EventsInOrder' /\ Stops' /\ OutcomesRecorded'
    BY StopParts, PTL
  <2> QED BY <2>1, <2>2
<1>1. DownloadsSound /\ EventsInOrder /\ Stops /\ EventTypes /\ AcceptedNamed
  BY StopParts, NamesOfAccepted DEF EventsInOrder
<1>2. ASSUME NEW d \in Downloads,
             Submit(d) \/ Resume(d) \/ LookupPause(d) \/ ClaimPause(d)
      PROVE  DownloadsSound' /\ EventsInOrder' /\ Stops'
  <2>1. Stops'
    BY <1>1, <1>2, RequestsRest
  <2>2. UNCHANGED <<dispatcher, buffer, accepted, heard, stopping>>
    BY <1>2 DEF Submit, Resume, LookupPause, ClaimPause, eventVars
  <2>3. EventsInOrder'
    BY <1>1, <2>2, EventQueueRests
  <2>4. CASE Submit(d) \/ Resume(d)
    <3>1. /\ NewAttempt(d) /\ jobs[d].status \in {"none", "paused"}
          /\ UNCHANGED <<accepted, recorded, requests>>
      BY <2>2, <2>4 DEF Submit, Resume
    <3> QED BY <3>1, <2>1, <2>3, <1>1, AttemptSound
  <2>5. CASE LookupPause(d) \/ ClaimPause(d)
    <3>1. UNCHANGED <<workers, accepted, recorded>>
      BY <2>2, <2>5 DEF LookupPause, ClaimPause
    <3>2. /\ requests' \subseteq Downloads
          /\ jobs \in [Downloads -> [status : {"none", "paused"} \cup Live \cup Terminal,
                                     run : Nat, doomed : BOOLEAN]]
          /\ \/ jobs' = jobs
             \/ jobs[d].status \in Live /\ jobs' = [jobs EXCEPT ![d].status = "paused", ![d].doomed = TRUE]
      BY <1>1, <2>5 DEF LookupPause, ClaimPause, DownloadsSound, DownloadTypes
    <3>3. /\ jobs' \in [Downloads -> [status : {"none", "paused"} \cup Live \cup Terminal,
                                      run : Nat, doomed : BOOLEAN]]
          /\ \A x \in Downloads : /\ jobs'[x].run = jobs[x].run
                                   /\ \/ jobs'[x].status = jobs[x].status
                                      \/ jobs[x].status \in Live /\ jobs'[x].status = "paused"
      <4>1. CASE jobs' = jobs
        BY <3>2, <4>1
      <4>2. CASE jobs[d].status \in Live /\ jobs' = [jobs EXCEPT ![d].status = "paused", ![d].doomed = TRUE]
        BY <3>2, <4>2
      <4> QED BY <3>2, <4>1, <4>2
    <3> QED BY <3>1, <3>2, <3>3, <2>1, <2>3, <1>1, RegistrySound
  <2> QED BY <1>2, <2>4, <2>5
<1>3. ASSUME NEW w \in workers,
             \/ ClaimStart(w) \/ recordTerminal(w) \/ CheckDone(w) \/ HandOver(w)
             \/ \E outcome \in {"completed", "cancelled"} : finishSnapshot(w, outcome)
      PROVE  DownloadsSound' /\ EventsInOrder' /\ Stops'
  <2>1. Stops'
    BY <1>1, <1>3, WorkersRest
  <2>2. DownloadsSound'
    BY <1>1, <1>3, ClaimStartSound, RecordSound, HandOverSound, FinishSound
  <2>3. EventsInOrder'
    <3>1. CASE UNCHANGED eventVars
      BY <3>1, <1>1, EventQueueRests DEF eventVars
    <3>2. CASE HandOver(w)
      <4>1. <<w.job, w.outcome>> \in Events
        BY <1>1, <3>2, Statuses DEF HandOver, DownloadsSound, Settled, ReportersSettle, DownloadTypes, Events
      <4>2. UNCHANGED <<stopping, dispatcher, heard>>
        BY <3>2 DEF HandOver
      <4>3. CASE UNCHANGED <<buffer, accepted>>
        BY <4>2, <4>3, <1>1, EventQueueRests
      <4>4. CASE /\ buffer' = Append(buffer, <<w.job, w.outcome>>)
                 /\ accepted' = Append(accepted, [event |-> <<w.job, w.outcome>>, late |-> stopping])
        <5>1. PICK e \in Events : e = <<w.job, w.outcome>>
          BY <4>1
        <5> QED BY <4>2, <4>4, <5>1, <1>1, AcceptedInOrder
      <4> QED BY <3>2, <4>3, <4>4 DEF HandOver
    <3> QED BY <1>3, <3>1, <3>2 DEF ClaimStart, recordTerminal, CheckDone, finishSnapshot
  <2> QED BY <2>1, <2>2, <2>3
<1>4. CASE TakeEvent \/ Dispatch \/ SeeDone
  <2>1. Stops' /\ EventsInOrder'
    BY <1>1, <1>4, DispatcherRests, TakenInOrder, DispatchedInOrder, DoneInOrder
  <2>2. UNCHANGED <<jobs, workers, requests, recorded, accepted>>
    BY <1>4 DEF TakeEvent, Dispatch, SeeDone, queueVars
  <2>3. DownloadsSound'
    BY <1>1, <2>2, RegistrySound DEF DownloadsSound, DownloadTypes
  <2> QED BY <2>1, <2>3
<1>5. CASE \/ Signal \/ StopDispatcher \/ LockRegistry \/ CancelContext \/ UnlockRegistry
           \/ Abandoned \/ Exit
           \/ \E d \in Downloads : Look(d) \/ Abandon(d)
  <2>1. DownloadsSound' /\ EventsInOrder'
    BY <1>1, <1>5, MainSound
  <2>2. StopTypes' /\ PausedFound'
    BY <1>1, <1>5, MainStopTypes, MainFindsPaused DEF DownloadsSound
  <2> QED BY <2>1, <2>2 DEF Stops
<1>6. CASE UNCHANGED shutdownVars
  <2>1. /\ UNCHANGED <<jobs, workers, requests, recorded, accepted, dispatcher, buffer, heard, stopping>>
        /\ UNCHANGED <<main, todo, paused, overrun, undrained, dropped>>
    BY <1>6 DEF shutdownVars
  <2>2. Stops'
    BY <1>1, <2>1, MainRests DEF mainVars, Stops, StopTypes
  <2>3. DownloadsSound'
    BY <1>1, <2>1, RegistrySound DEF DownloadsSound, DownloadTypes
  <2> QED BY <1>1, <2>1, <2>2, <2>3, EventQueueRests
<1> QED BY <1>2, <1>3, <1>4, <1>5, <1>6 DEF ShutdownNext

\* For any downloads, any queue of events and any number of attempts: across a stop
\* each download has one outcome, none goes unrecorded unless a bound was overrun,
\* and plugins hear of them in order, once, with none lost that came in time.
THEOREM StopsAlwaysLoseNothing == ShutdownSpec => []StopLosesNothing
<1> QED BY ShutdownStarts, ShutdownKeeps, PTL DEF ShutdownSpec
=============================================================================
