-------------------------- MODULE StreamRelayProofs --------------------------
(***************************************************************************)
(* Proofs about StreamRelay, for any number of reads and of payloads per   *)
(* chunk, either kind of reader and any of the faults: types, order and    *)
(* completeness of what the client gets, the truth of the close, the       *)
(* reader's exits and the slot, and that the pipeline implements Relay.    *)
(***************************************************************************)
EXTENDS StreamRelay, TLAPS

\* Number of payloads in the channel.
Buffered == IF out = << >> \/ out = << ErrItem >> THEN 0 ELSE 1

Failures == {"upstream error", "incomplete", "empty", "read error", "timeout"}

\* The types that do not depend on the numbering of the payloads, by owner.
EnvTypes == client \in {"reading", "gone", "stalled"} /\ hostUp \in BOOLEAN

ReaderTypes ==
  /\ upstream \in {"open", "ended", "closed"} /\ reads \in 0..MaxReads
  /\ rd \in {"top", "reading", "std", "send", "sendErr", "done"} /\ via \in {"host", "proxy"}
  /\ onward \in {"top", "std", "sendErr", "done"}

LoopTypes ==
  /\ lp \in {"select", "emit", "emitErr", "cancel", "release", "close", "gone"}
  /\ after \in {"select", "emitErr", "cancel"}
  /\ fired \in BOOLEAN /\ ctxDone \in BOOLEAN /\ slot \in BOOLEAN
  /\ verdict \in Failures \cup {"none", "ok"}
  /\ produced \in Nat
  /\ queue \in Seq(Nat)

ChanTypes == outClosed \in BOOLEAN /\ out \in Seq(Nat) /\ Len(out) <= 1

PumpTypes ==
  /\ pp \in {"select", "calling", "closing", "gone"}
  /\ sink \in {"open", "closed"}
  /\ errMsg \in Failures \cup {"", "emit failed"}
  /\ delivered \in Seq(Nat)
  /\ hand \in Seq(Nat) /\ Len(hand) <= 1

Types == EnvTypes /\ ReaderTypes /\ LoopTypes /\ ChanTypes /\ PumpTypes

\* The loop is at this point, or will be once its queue is empty.
Bound(p) == lp = p \/ (lp = "emit" /\ after = p)

\* Where the loop is decides what it has made of the response.
LoopStage ==
  /\ lp = "emit" <=> queue # << >>
  /\ Bound("select") => verdict = "none"
  /\ Bound("emitErr") => verdict \in Failures
  /\ lp = "emit" /\ after = "cancel" => verdict = "ok"
  /\ lp \in {"cancel", "release", "close", "gone"} => verdict # "none"
  /\ slot <=> lp \notin {"close", "gone"}
  /\ outClosed <=> lp = "gone"
  /\ ctxDone <=> lp \in {"release", "close", "gone"}

\* Where the loop and the pump are decides what the channel holds and what the pump
\* will close the client's stream with.
PumpStage ==
  LET left == lp \in {"cancel", "release", "close", "gone"}
  IN /\ pp = "calling" <=> hand # << >>
     /\ pp \in {"select", "calling"} => errMsg = ""
     /\ pp # "gone" => sink = "open"
     /\ out = << ErrItem >> => left /\ verdict \in Failures
     /\ left /\ verdict \in Failures /\ out # << ErrItem >> => pp \in {"closing", "gone"}
     /\ pp \in {"closing", "gone"} /\ errMsg = "" => lp = "gone" /\ verdict = "ok" /\ out = << >>
     /\ errMsg \in Failures => left /\ errMsg = verdict /\ out = << >>
     /\ errMsg = "emit failed" => client # "reading" \/ ~hostUp

\* The payloads that have left streamLoop's parser and are not lost.
Underway == Len(delivered) + Len(hand) + Buffered + Len(queue)

\* Payloads are numbered to the last one produced, from the queue backwards; none is
\* missing between them unless an emit has failed.
Lines ==
  /\ \A i \in 1 .. Len(queue) : queue[i] = produced - Len(queue) + i
  /\ Buffered = 1 => out[1] = produced - Len(queue)
  /\ hand # << >> => hand[1] = produced - Len(queue) - Buffered
  /\ \A i \in 1 .. Len(delivered) : delivered[i] = i
  /\ errMsg = "emit failed" => Underway < produced
  /\ errMsg # "emit failed" => Underway = produced

\* A reader that is about to leave has seen to its stream.
Source ==
  /\ via = "host" => rd # "std" /\ onward \in {"top", "done"}
  /\ via = "proxy" => rd \notin {"top", "reading"} /\ onward # "top"
  /\ rd = "send" /\ onward = "done" => upstream # "open"
  /\ via = "host" /\ rd = "sendErr" /\ hostUp => upstream # "open"
  /\ rd = "done" /\ (hostUp \/ via = "proxy") => upstream # "open"

\* The kind of reader never changes.
Kind == via \in Readers

IInv == Types /\ LoopStage /\ PumpStage /\ Lines /\ Source /\ Kind

-----------------------------------------------------------------------------
\* The empty sequence is a sequence of payloads.
LEMMA EmptySeq ==
  ASSUME NEW s, s = << >>
  PROVE  s \in Seq(Nat) /\ Len(s) <= 1 /\ 0 = Len(s) /\ \A i \in 1 .. Len(s) : FALSE
OBVIOUS

\* The initial states satisfy the invariant.
LEMMA InitIInv == Init => IInv
<1> SUFFICES ASSUME Init PROVE IInv OBVIOUS
<1>v. via \in Readers => via \in {"host", "proxy"} BY ConstantsAssumption
<1>e. queue = << >> /\ out = << >> /\ hand = << >> BY DEF Init
<1>q. queue \in Seq(Nat) /\ Len(queue) <= 1 BY EmptySeq DEF Init
<1>o. out \in Seq(Nat) /\ Len(out) <= 1 BY EmptySeq DEF Init
<1>h. hand \in Seq(Nat) /\ Len(hand) <= 1 BY EmptySeq DEF Init
<1>d. delivered \in Seq(Nat) /\ Len(delivered) <= 1 BY EmptySeq DEF Init
<1>b. Buffered = 0 BY <1>e DEF Buffered
<1>i. /\ reads = 0 /\ produced = 0 /\ client = "reading" /\ hostUp = TRUE /\ upstream = "open"
      /\ onward = "done" /\ ctxDone = FALSE /\ lp = "select" /\ after = "select"
      /\ fired = FALSE /\ verdict = "none" /\ slot = TRUE /\ outClosed = FALSE
      /\ pp = "select" /\ sink = "open" /\ errMsg = ""
  BY DEF Init
<1>r. /\ via \in {"host", "proxy"} /\ (via = "host" => rd = "top") /\ (via = "proxy" => rd = "std")
  BY <1>v DEF Init
<1>1. EnvTypes BY <1>i DEF EnvTypes
<1>2. ReaderTypes
  <2>0. reads = 0 /\ MaxReads \in Nat BY <1>i, ConstantsAssumption
  <2>1. reads \in 0..MaxReads BY <2>0
  <2> QED BY <2>1, <1>i, <1>r DEF ReaderTypes
<1>3. LoopTypes BY <1>i, <1>q DEF LoopTypes
<1>4. ChanTypes
  <2>1. outClosed = FALSE BY <1>i
  <2> QED BY <2>1, <1>o DEF ChanTypes
<1>5. PumpTypes
  <2>1. pp = "select" /\ sink = "open" /\ errMsg = "" BY <1>i
  <2> QED BY <2>1, <1>h, <1>d DEF PumpTypes
<1>6. LoopStage BY <1>i, <1>e DEF LoopStage, Bound
<1>7. out # << ErrItem >> BY <1>e
<1>8. PumpStage BY <1>i, <1>e, <1>7 DEF PumpStage, Failures
<1>9. Lines
  <2>1. produced = 0 /\ errMsg = "" BY <1>i
  <2>2. /\ \A i \in 1 .. Len(queue) : queue[i] = produced - Len(queue) + i
        /\ \A i \in 1 .. Len(delivered) : delivered[i] = i
    BY EmptySeq DEF Init
  <2>3. Underway = produced
    <3>1. 0 = Len(delivered) /\ 0 = Len(hand) /\ 0 = Len(queue) BY EmptySeq DEF Init
    <3>2. 0 + 0 + 0 + 0 = 0 OBVIOUS
    <3> QED BY <1>b, <2>1, <3>1, <3>2, Zenon DEF Underway
  <2>4. hand = << >> BY <1>e
  <2>5. Buffered # 1 BY <1>b
  <2>6. errMsg # "emit failed" BY <2>1
  <2> QED BY <2>2, <2>3, <2>4, <2>5, <2>6, Zenon DEF Lines
<1>10. Source BY <1>i, <1>r DEF Source
<1>11. Kind BY DEF Init, Kind
<1> QED BY <1>1, <1>2, <1>3, <1>4, <1>5, <1>6, <1>8, <1>9, <1>10, <1>11 DEF IInv, Types

-----------------------------------------------------------------------------
\* What the loop's stage says depends on these variables only.
LEMMA LoopStageSame ==
  ASSUME LoopStage, UNCHANGED << lp, queue, after, verdict, slot, ctxDone, outClosed >>
  PROVE  LoopStage'
BY DEF LoopStage, Bound

\* A step that leaves a part of the program alone keeps what is said of that part.
LEMMA Unchanged ==
  /\ IInv /\ UNCHANGED envVars => EnvTypes'
  /\ IInv /\ UNCHANGED readerVars => ReaderTypes' /\ Kind'
  /\ IInv /\ UNCHANGED loopVars => LoopTypes' /\ (UNCHANGED outClosed => LoopStage')
  /\ IInv /\ UNCHANGED chanVars => ChanTypes'
  /\ IInv /\ UNCHANGED pumpVars => PumpTypes'
  /\ IInv /\ UNCHANGED << loopVars, chanVars, pumpVars >> => Lines'
  /\ IInv /\ UNCHANGED << loopVars, chanVars, pumpVars, envVars >> => PumpStage'
  /\ IInv /\ UNCHANGED << readerVars, envVars >> => Source'
<1>1. IInv /\ UNCHANGED envVars => EnvTypes' BY DEF IInv, Types, EnvTypes, envVars
<1>2. IInv /\ UNCHANGED readerVars => ReaderTypes' /\ Kind'
  BY DEF IInv, Types, ReaderTypes, Kind, readerVars
<1>3. IInv /\ UNCHANGED loopVars => LoopTypes' /\ (UNCHANGED outClosed => LoopStage')
  <2>1. IInv /\ UNCHANGED loopVars => LoopTypes'
    BY DEF IInv, Types, LoopTypes, loopVars, Failures
  <2>2. IInv /\ UNCHANGED loopVars /\ UNCHANGED outClosed => LoopStage'
    BY LoopStageSame DEF IInv, loopVars
  <2> QED BY <2>1, <2>2
<1>4. IInv /\ UNCHANGED chanVars => ChanTypes' BY DEF IInv, Types, ChanTypes, chanVars
<1>5. IInv /\ UNCHANGED pumpVars => PumpTypes' BY DEF IInv, Types, PumpTypes, pumpVars, Failures
<1>6. IInv /\ UNCHANGED << loopVars, chanVars, pumpVars >> => Lines'
  BY DEF IInv, Lines, Underway, Buffered, ErrItem, loopVars, chanVars, pumpVars
<1>7. IInv /\ UNCHANGED << loopVars, chanVars, pumpVars, envVars >> => PumpStage'
  <2> SUFFICES ASSUME IInv, UNCHANGED << loopVars, chanVars, pumpVars, envVars >>
               PROVE  PumpStage'
    OBVIOUS
  <2>1. UNCHANGED << lp, verdict, out, pp, hand, errMsg, sink, client, hostUp >>
    BY DEF loopVars, chanVars, pumpVars, envVars
  <2>2. PumpStage BY DEF IInv
  <2> QED BY <2>1, <2>2 DEF PumpStage, Failures, ErrItem
<1>8. IInv /\ UNCHANGED << readerVars, envVars >> => Source'
  BY DEF IInv, Source, readerVars, envVars
<1> QED BY <1>1, <1>2, <1>3, <1>4, <1>5, <1>6, <1>7, <1>8

\* Either kind of reader, on its own.
LEMMA ReaderStep == IInv /\ (Reader \/ StdReader) => IInv'
<1> SUFFICES ASSUME IInv, Reader \/ StdReader PROVE IInv' OBVIOUS
<1>1. UNCHANGED << loopVars, chanVars, pumpVars, envVars >>
  BY DEF Reader, StdReader, readerTop, readFails, readReportsError, readPayload, readEmpty,
         stdRead, stdReadEnds, stdReadCancelled, stdSendCancelled
<1>2. EnvTypes' /\ LoopTypes' /\ ChanTypes' /\ PumpTypes' /\ LoopStage' /\ PumpStage' /\ Lines'
  <2>1. UNCHANGED outClosed BY <1>1 DEF chanVars
  <2> QED BY <1>1, <2>1, Unchanged
<1>m. MaxReads \in Nat BY ConstantsAssumption
<1>3. ReaderTypes'
  <2>t. ReaderTypes BY DEF IInv, Types
  <2>1. CASE readerTop BY <2>1, <2>t DEF ReaderTypes, readerTop, closeHostHTTPStream
  <2>2. CASE readFails BY <2>2, <2>t DEF ReaderTypes, readFails, closeHostHTTPStream
  <2>3. CASE readReportsError BY <2>3, <2>t DEF ReaderTypes, readReportsError
  <2>4. CASE readPayload BY <2>4, <2>t, <1>m DEF ReaderTypes, readPayload
  <2>5. CASE readEmpty BY <2>5, <2>t DEF ReaderTypes, readEmpty
  <2>6. CASE stdRead BY <2>6, <2>t, <1>m DEF ReaderTypes, stdRead
  <2>7. CASE stdReadEnds BY <2>7, <2>t DEF ReaderTypes, stdReadEnds
  <2>8. CASE stdReadCancelled BY <2>8, <2>t DEF ReaderTypes, stdReadCancelled
  <2>9. CASE stdSendCancelled BY <2>9, <2>t DEF ReaderTypes, stdSendCancelled, BodyClosed
  <2> QED
    BY <2>1, <2>2, <2>3, <2>4, <2>5, <2>6, <2>7, <2>8, <2>9 DEF Reader, StdReader
<1>4. Source'
  BY <1>1 DEF IInv, Types, ReaderTypes, Source, envVars, Reader, StdReader, readerTop,
              readFails, readReportsError, readPayload, readEmpty, stdRead, stdReadEnds,
              stdReadCancelled, stdSendCancelled, closeHostHTTPStream, BodyClosed
<1>5. Kind'
  BY DEF IInv, Kind, Reader, StdReader, readerTop, readFails, readReportsError, readPayload,
         readEmpty, stdRead, stdReadEnds, stdReadCancelled, stdSendCancelled
<1> QED BY <1>2, <1>3, <1>4, <1>5 DEF IInv, Types

-----------------------------------------------------------------------------
\* A batch of n payloads numbers them from the last one on.
LEMMA BatchQueue ==
  ASSUME IInv, NEW n \in Nat, NEW then, Batch(n, then), queue = << >>
  PROVE  /\ produced' = produced + n /\ produced' \in Nat /\ produced \in Nat
         /\ queue' \in Seq(Nat) /\ Len(queue') = n
         /\ \A i \in 1 .. n : queue'[i] = produced + i
         /\ after' = then /\ lp' = IF n = 0 THEN then ELSE "emit"
         /\ (queue' = << >> <=> n = 0)
<1> DEFINE q == [i \in 1 .. n |-> produced + i]
<1>1. produced \in Nat BY DEF IInv, Types, LoopTypes
<1>2. q \in Seq(Nat) /\ Len(q) = n /\ \A i \in 1 .. n : q[i] = produced + i
  BY <1>1
<1>3. q = << >> <=> n = 0
  <2>1. Len(<< >>) = 0 OBVIOUS
  <2>2. ASSUME n = 0 PROVE q = << >>
    <3>1. Len(q) = 0 /\ q \in Seq(Nat) BY <1>2, <2>2
    <3> QED BY <3>1
  <2> QED BY <1>2, <2>1, <2>2
<1>4. queue' = q /\ after' = then /\ produced' = produced + n
      /\ lp' = IF q = << >> THEN then ELSE "emit"
  BY DEF Batch, Emitting
<1> HIDE DEF q
<1> QED BY <1>1, <1>2, <1>3, <1>4

\* The loop has parsed all it will parse.
Left == lp \in {"cancel", "release", "close", "gone"}

\* What the pump's stage says survives a step of the loop that leaves the channel and
\* the pump alone, keeps a verdict that stands and leaves early only with success.
LEMMA PumpStageLoop ==
  ASSUME PumpStage, UNCHANGED << out, pp, hand, errMsg, sink, client, hostUp >>,
         Left => Left' /\ verdict' = verdict /\ lp # "gone",
         ~Left /\ Left' => verdict' = "ok"
  PROVE  PumpStage'
BY DEF PumpStage, Failures, ErrItem, Left

\* The numbering depends on these variables only.
LEMMA LinesSame ==
  ASSUME Lines, UNCHANGED << queue, produced, out, hand, delivered, errMsg >>
  PROVE  Lines'
BY DEF Lines, Underway, Buffered, ErrItem

\* What is said of the sources depends on these variables only.
LEMMA SourceSame ==
  ASSUME Source, UNCHANGED << upstream, rd, onward, via >>, hostUp' => hostUp
  PROVE  Source'
BY DEF Source

\* A step of the loop that only moves its control keeps the invariant.
LEMMA ControlStep ==
  IInv /\ (timerFires \/ timeout \/ Unwind) => IInv'
<1> SUFFICES ASSUME IInv, timerFires \/ timeout \/ Unwind PROVE IInv' OBVIOUS
<1>2. UNCHANGED << queue, after, produced, out >> /\ UNCHANGED readerVars
      /\ UNCHANGED pumpVars /\ UNCHANGED envVars
  BY DEF timerFires, timeout, Unwind, unwindCancel, unwindRelease, unwindClose, chanVars
<1>3. EnvTypes' /\ ReaderTypes' /\ Kind' /\ PumpTypes' /\ Source'
  BY <1>2, Unchanged
<1>t. LoopTypes /\ LoopStage /\ PumpStage /\ Lines /\ ChanTypes BY DEF IInv, Types
<1>4. /\ lp' \in {"select", "emit", "emitErr", "cancel", "release", "close", "gone"}
      /\ fired' \in BOOLEAN /\ ctxDone' \in BOOLEAN /\ slot' \in BOOLEAN
      /\ verdict' \in Failures \cup {"none", "ok"} /\ outClosed' \in BOOLEAN
  BY <1>t DEF LoopTypes, ChanTypes, timerFires, timeout, Unwind, unwindCancel, unwindRelease,
              unwindClose, Failures, chanVars
<1>5. LoopTypes' BY <1>4, <1>2, <1>t DEF LoopTypes
<1>6. ChanTypes' BY <1>4, <1>2, <1>t DEF ChanTypes
<1>7. LoopStage'
  <2>1. UNCHANGED << queue, after >> BY <1>2
  <2>2. CASE timerFires
    <3>1. UNCHANGED << lp, queue, after, verdict, slot, ctxDone, outClosed >>
      BY <2>2 DEF timerFires, chanVars
    <3> QED BY <3>1, <1>t, LoopStageSame
  <2>3. CASE timeout
    <3>1. lp = "select" /\ lp' = "emitErr" /\ verdict' = "timeout"
          /\ UNCHANGED << slot, ctxDone, outClosed >>
      BY <2>3 DEF timeout, chanVars
    <3> QED BY <3>1, <2>1, <1>t DEF LoopStage, Bound, Failures
  <2>4. CASE unwindCancel
    <3>1. lp = "cancel" /\ lp' = "release" /\ ctxDone' = TRUE
          /\ UNCHANGED << slot, verdict, outClosed >>
      BY <2>4 DEF unwindCancel, chanVars
    <3> QED BY <3>1, <2>1, <1>t DEF LoopStage, Bound
  <2>5. CASE unwindRelease
    <3>1. lp = "release" /\ lp' = "close" /\ slot' = FALSE
          /\ UNCHANGED << ctxDone, verdict, outClosed >>
      BY <2>5 DEF unwindRelease, chanVars
    <3> QED BY <3>1, <2>1, <1>t DEF LoopStage, Bound
  <2>6. CASE unwindClose
    <3>1. lp = "close" /\ lp' = "gone" /\ outClosed' = TRUE
          /\ UNCHANGED << ctxDone, verdict, slot >>
      BY <2>6 DEF unwindClose
    <3> QED BY <3>1, <2>1, <1>t DEF LoopStage, Bound
  <2> QED BY <2>2, <2>3, <2>4, <2>5, <2>6 DEF Unwind
<1>8. Lines'
  <2>1. UNCHANGED << queue, produced, out, hand, delivered, errMsg >> BY <1>2 DEF pumpVars
  <2> QED BY <2>1, <1>t, LinesSame
<1>9. PumpStage'
  <2>1. UNCHANGED << out, pp, hand, errMsg, sink, client, hostUp >>
    BY <1>2 DEF pumpVars, envVars
  <2>2. /\ Left => Left' /\ verdict' = verdict /\ lp # "gone"
        /\ ~(~Left /\ Left')
    BY DEF Left, timerFires, timeout, Unwind, unwindCancel, unwindRelease, unwindClose
  <2> QED BY <2>1, <2>2, <1>t, PumpStageLoop
<1> QED BY <1>3, <1>5, <1>6, <1>7, <1>8, <1>9 DEF IInv, Types

\* Sequences have lengths, and the channel holds one item at most.
LEMMA Counts ==
  ASSUME IInv
  PROVE  /\ Len(delivered) \in Nat /\ Len(hand) \in {0, 1} /\ Len(queue) \in Nat
         /\ Buffered \in {0, 1} /\ produced \in Nat
<1>1. delivered \in Seq(Nat) /\ hand \in Seq(Nat) /\ Len(hand) <= 1
  BY DEF IInv, Types, PumpTypes
<1>2. queue \in Seq(Nat) /\ produced \in Nat BY DEF IInv, Types, LoopTypes
<1>3. Len(hand) \in Nat BY <1>1
<1>4. Buffered \in {0, 1} BY Zenon DEF Buffered
<1>5. Len(hand) \in {0, 1}
  <2>1. Len(hand) <= 1 BY <1>1
  <2>2. \A k \in Nat : k <= 1 => k \in {0, 1} OBVIOUS
  <2> QED BY <2>1, <2>2, <1>3, Zenon
<1>6. Len(delivered) \in Nat /\ Len(queue) \in Nat BY <1>1, <1>2
<1> QED BY <1>2, <1>4, <1>5, <1>6

\* A chunk, an error or the end of the reader's channel is received.
LEMMA ReceiveStep ==
  IInv /\ (receiveChunk \/ receiveError \/ receiveClosed) => IInv'
<1> SUFFICES ASSUME IInv, receiveChunk \/ receiveError \/ receiveClosed PROVE IInv' OBVIOUS
<1>t. LoopTypes /\ LoopStage /\ PumpStage /\ Lines /\ ChanTypes /\ ReaderTypes /\ Source /\ Kind
  BY DEF IInv, Types
<1>1. UNCHANGED << slot, ctxDone, reads, onward, via >> /\ UNCHANGED chanVars /\ UNCHANGED pumpVars
      /\ UNCHANGED envVars /\ lp = "select"
  BY DEF receiveChunk, receiveError, receiveClosed, readerVars
<1>2. EnvTypes' /\ ChanTypes' /\ PumpTypes' BY <1>1, Unchanged
<1>3. UNCHANGED << out, outClosed, pp, hand, errMsg, sink, delivered, client, hostUp >>
  BY <1>1 DEF chanVars, pumpVars, envVars
<1>4. queue = << >> /\ verdict = "none" /\ slot /\ ~outClosed /\ ~ctxDone
  BY <1>1, <1>t DEF LoopStage, Bound
<1>5. ReaderTypes' /\ Source' /\ Kind'
  <2>1. CASE receiveChunk
    BY <2>1, <1>3, <1>t DEF receiveChunk, Received, BodyClosed, ReaderTypes, Source, Kind
  <2>2. CASE receiveError
    BY <2>2, <1>3, <1>t DEF receiveError, Received, BodyClosed, ReaderTypes, Source, Kind
  <2>3. CASE receiveClosed BY <2>3, <1>1, Unchanged, <1>3, <1>t, SourceSame DEF receiveClosed, readerVars
  <2> QED BY <2>1, <2>2, <2>3
<1>6. ASSUME NEW n \in Nat, NEW then, Batch(n, then), fired' \in BOOLEAN,
             \/ then = "select" /\ verdict' = "none"
             \/ then = "emitErr" /\ verdict' \in Failures
             \/ then = "cancel" /\ verdict' = "ok"
      PROVE  LoopTypes' /\ LoopStage' /\ PumpStage' /\ Lines'
  <2>1. /\ produced' = produced + n /\ produced' \in Nat /\ produced \in Nat
        /\ queue' \in Seq(Nat) /\ Len(queue') = n
        /\ \A i \in 1 .. n : queue'[i] = produced + i
        /\ after' = then /\ lp' = IF n = 0 THEN then ELSE "emit"
        /\ (queue' = << >> <=> n = 0)
    BY <1>4, <1>6, BatchQueue
  <2>2. LoopTypes'
    <3>1. lp' \in {"select", "emit", "emitErr", "cancel"} /\ after' \in {"select", "emitErr", "cancel"}
      BY <2>1, <1>6
    <3>2. verdict' \in Failures \cup {"none", "ok"} BY <1>6
    <3> QED BY <3>1, <3>2, <2>1, <1>6, <1>1, <1>t DEF LoopTypes
  <2>3. LoopStage'
    <3>1. lp' = "emit" <=> queue' # << >> BY <2>1, <1>6
    <3>2. slot' /\ ~outClosed' /\ ~ctxDone' BY <1>1, <1>3, <1>4
    <3>3. after' = then /\ lp' \in {then, "emit"} BY <2>1
    <3> QED BY <3>1, <3>2, <3>3, <1>6 DEF LoopStage, Bound, Failures
  <2>4. PumpStage'
    <3>1. ~Left BY <1>1 DEF Left
    <3>2. Left' => verdict' = "ok" BY <2>1, <1>6 DEF Left
    <3> QED BY <3>1, <3>2, <1>3, <1>t, PumpStageLoop
  <2>5. Lines'
    <3>1. Buffered' = Buffered BY <1>3 DEF Buffered, ErrItem
    <3>2. Len(queue) = 0 BY <1>4, EmptySeq
    <3>3. Len(delivered) \in Nat /\ Len(hand) \in Nat /\ Buffered \in {0, 1}
      BY Counts
    <3>4. \A i \in 1 .. Len(queue') : queue'[i] = produced' - Len(queue') + i BY <2>1
    <3>5. Buffered' = 1 => out'[1] = produced' - Len(queue')
      <4>1. Buffered = 1 => out[1] = produced - Len(queue) BY <1>t DEF Lines
      <4> QED BY <4>1, <3>1, <3>2, <2>1, <1>3
    <3>6. hand' # << >> => hand'[1] = produced' - Len(queue') - Buffered'
      <4>1. hand # << >> => hand[1] = produced - Len(queue) - Buffered BY <1>t DEF Lines
      <4> QED BY <4>1, <3>1, <3>2, <3>3, <2>1, <1>3
    <3>7. \A i \in 1 .. Len(delivered') : delivered'[i] = i BY <1>3, <1>t DEF Lines
    <3>8. Underway' = Underway + n
      <4>1. UNCHANGED << Len(delivered), Len(hand) >> BY <1>3
      <4> QED BY <4>1, <3>1, <3>2, <3>3, <2>1 DEF Underway
    <3>9. Underway \in Nat BY <3>2, <3>3 DEF Underway
    <3>10. /\ errMsg' = "emit failed" => Underway' < produced'
           /\ errMsg' # "emit failed" => Underway' = produced'
      <4>1. /\ errMsg = "emit failed" => Underway < produced
            /\ errMsg # "emit failed" => Underway = produced
        BY <1>t DEF Lines
      <4>2. produced' = produced + n /\ produced \in Nat BY <2>1
      <4>3. errMsg' = errMsg BY <1>3
      <4>4. ASSUME Underway < produced PROVE Underway' < produced'
        BY <4>2, <4>4, <3>8, <3>9
      <4>5. ASSUME Underway = produced PROVE Underway' = produced'
        BY <4>2, <4>5, <3>8
      <4> QED BY <4>1, <4>3, <4>4, <4>5, Zenon
    <3> QED BY <3>4, <3>5, <3>6, <3>7, <3>10 DEF Lines
  <2> QED BY <2>2, <2>3, <2>4, <2>5
<1>7. CASE receiveChunk
  <2>1. MaxPerChunk \in Nat BY ConstantsAssumption
  <2>2. PICK n \in 0 .. MaxPerChunk :
             \/ Batch(n, "select") /\ UNCHANGED verdict
             \/ Batch(n, "emitErr") /\ verdict' = "upstream error"
    BY <1>7 DEF receiveChunk
  <2>3. n \in Nat /\ fired' \in BOOLEAN
    <3>1. fired' = FALSE BY <1>7 DEF receiveChunk
    <3>2. n \in Nat BY <2>1
    <3> QED BY <3>1, <3>2
  <2>4. LoopTypes' /\ LoopStage' /\ PumpStage' /\ Lines'
    <3>1. CASE Batch(n, "select") /\ UNCHANGED verdict BY <3>1, <1>4, <1>6, <2>3
    <3>2. CASE Batch(n, "emitErr") /\ verdict' = "upstream error"
      <4>1. verdict' \in Failures BY <3>2 DEF Failures
      <4> QED BY <3>2, <4>1, <1>6, <2>3
    <3> QED BY <3>1, <3>2, <2>2
  <2> QED BY <2>4, <1>2, <1>5 DEF IInv, Types
<1>8. CASE receiveClosed
  <2>2. PICK n \in 0 .. 1, v \in Verdicts :
             verdict' = v /\ Batch(n, IF v = "ok" THEN "cancel" ELSE "emitErr")
    BY <1>8 DEF receiveClosed
  <2>3. n \in Nat /\ fired' \in BOOLEAN
    <3>1. UNCHANGED fired BY <1>8 DEF receiveClosed
    <3> QED BY <3>1, <1>t DEF LoopTypes
  <2>4. v = "ok" \/ v \in Failures BY DEF Verdicts, Failures
  <2>5. LoopTypes' /\ LoopStage' /\ PumpStage' /\ Lines'
    <3>1. CASE v = "ok"
      <4>1. Batch(n, "cancel") /\ verdict' = "ok" BY <2>2, <3>1
      <4> QED BY <4>1, <1>6, <2>3
    <3>2. CASE v # "ok"
      <4>1. Batch(n, "emitErr") /\ verdict' \in Failures BY <2>2, <2>4, <3>2
      <4> QED BY <4>1, <1>6, <2>3
    <3> QED BY <3>1, <3>2
  <2> QED BY <2>5, <1>2, <1>5 DEF IInv, Types
<1>9. CASE receiveError
  <2>1. UNCHANGED << queue, after, produced, fired >> /\ lp' = "emitErr" /\ verdict' = "read error"
    BY <1>9 DEF receiveError
  <2>2. LoopTypes' BY <2>1, <1>1, <1>t DEF LoopTypes, Failures
  <2>3. LoopStage' BY <2>1, <1>1, <1>3, <1>4, <1>t DEF LoopStage, Bound, Failures
  <2>4. PumpStage'
    <3>1. ~Left /\ ~Left' BY <1>1, <2>1 DEF Left
    <3> QED BY <3>1, <1>3, <1>t, PumpStageLoop
  <2>5. Lines' BY <2>1, <1>3, <1>t, LinesSame
  <2> QED BY <2>2, <2>3, <2>4, <2>5, <1>2, <1>5 DEF IInv, Types
<1> QED BY <1>7, <1>8, <1>9

\* Taking the head of a sequence of numbers.
LEMMA TakeHead ==
  ASSUME NEW s \in Seq(Nat), s # << >>
  PROVE  /\ Head(s) = s[1] /\ s[1] \in Nat /\ Tail(s) \in Seq(Nat)
         /\ Len(s) \in Nat /\ Len(s) >= 1 /\ Len(Tail(s)) = Len(s) - 1
         /\ \A i \in 1 .. Len(s) - 1 : Tail(s)[i] = s[i + 1]
OBVIOUS

\* A sequence of length at most one that is not empty is its head.
LEMMA Single ==
  ASSUME NEW s \in Seq(Nat), Len(s) <= 1, s # << >>
  PROVE  /\ s = << s[1] >> /\ Len(s) = 1 /\ Head(s) = s[1] /\ s[1] \in Nat
         /\ Tail(s) = << >>
<1>1. Len(s) = 1 /\ s[1] \in Nat
  <2>1. Len(s) \in Nat /\ Len(s) >= 1 /\ s[1] \in Nat BY TakeHead
  <2>2. Len(s) <= 1 OBVIOUS
  <2>3. \A k \in Nat : k >= 1 /\ k <= 1 => k = 1 OBVIOUS
  <2> QED BY <2>1, <2>2, <2>3, Zenon
<1>2. s = << s[1] >> BY <1>1
<1>3. Head(s) = s[1] OBVIOUS
<1>4. Tail(s) = << >>
  <2>1. Tail(s) \in Seq(Nat) /\ Len(Tail(s)) = 0 BY <1>1
  <2> QED BY <2>1
<1> QED BY <1>1, <1>2, <1>3, <1>4, Zenon

\* The loop hands a payload or its verdict to the channel.
LEMMA EmitStep == IInv /\ (emit \/ emitErr) => IInv'
<1> SUFFICES ASSUME IInv, emit \/ emitErr PROVE IInv' OBVIOUS
<1>t. LoopTypes /\ LoopStage /\ PumpStage /\ Lines /\ ChanTypes /\ Source
  BY DEF IInv, Types
<1>1. UNCHANGED << slot, ctxDone, after, verdict, fired, produced, outClosed >>
      /\ UNCHANGED readerVars /\ UNCHANGED pumpVars /\ UNCHANGED envVars
  BY DEF emit, emitErr, Emitting
<1>2. EnvTypes' /\ ReaderTypes' /\ Kind' /\ PumpTypes' /\ Source' BY <1>1, Unchanged
<1>3. UNCHANGED << pp, hand, errMsg, sink, delivered, client, hostUp >>
  BY <1>1 DEF pumpVars, envVars
<1>4. out = << >>
  <2>1. Len(out) < 1 /\ out \in Seq(Nat) BY <1>t DEF emit, emitErr, Room, ChanTypes
  <2> QED BY <2>1
<1>5. Buffered = 0 BY <1>4 DEF Buffered
<1>6. ASSUME NEW x \in Nat, out' = Append(out, x)
      PROVE  ChanTypes' /\ out' = << x >> /\ out' # << >>
             /\ (x = ErrItem => Buffered' = 0) /\ (x # ErrItem => Buffered' = 1 /\ out' # << ErrItem >>)
  <2>1. out' = << x >>
    <3>1. Append(<< >>, x) = << x >> OBVIOUS
    <3> QED BY <1>4, <1>6, <3>1, Zenon
  <2>2. << x >> \in Seq(Nat) /\ Len(<< x >>) = 1 /\ << x >>[1] = x /\ << x >> # << >> OBVIOUS
  <2>3. x # ErrItem => << x >> # << ErrItem >> BY DEF ErrItem
  <2>4. outClosed' \in BOOLEAN BY <1>1, <1>t DEF ChanTypes
  <2>5. ChanTypes'
    <3>1. Len(out') <= 1 BY <2>1, <2>2
    <3>2. out' \in Seq(Nat) BY <2>1, <2>2, Zenon
    <3> QED BY <3>1, <3>2, <2>4 DEF ChanTypes
  <2> QED BY <2>1, <2>2, <2>3, <2>5, Zenon DEF Buffered
<1>7. CASE emitErr
  <2>1. lp = "emitErr" /\ lp' = "cancel" /\ UNCHANGED queue /\ out' = Append(out, ErrItem)
    BY <1>7 DEF emitErr
  <2>2. ErrItem \in Nat BY DEF ErrItem
  <2>3. ChanTypes' /\ out' = << ErrItem >> /\ Buffered' = 0 BY <2>1, <2>2, <1>6
  <2>4. verdict \in Failures /\ queue = << >>
    BY <2>1, <1>t DEF LoopStage, Bound
  <2>5. LoopTypes' BY <2>1, <1>1, <1>t DEF LoopTypes
  <2>6. LoopStage' BY <2>1, <2>4, <1>1, <1>t DEF LoopStage, Bound, Failures
  <2>7. PumpStage'
    <3>1. pp \in {"closing", "gone"} => errMsg = "emit failed"
      <4>1. errMsg \in Failures \cup {"", "emit failed"} BY DEF IInv, Types, PumpTypes
      <4> QED BY <2>1, <4>1, <1>t DEF PumpStage
    <3>2. errMsg \notin Failures BY <2>1, <1>t DEF PumpStage
    <3>3. /\ pp' = "calling" <=> hand' # << >>
          /\ pp' \in {"select", "calling"} => errMsg' = ""
          /\ pp' # "gone" => sink' = "open"
          /\ errMsg' = "emit failed" => client' # "reading" \/ ~hostUp'
      BY <1>3, <1>t DEF PumpStage
    <3>4. lp' = "cancel" /\ verdict' \in Failures BY <2>1, <2>4, <1>1
    <3>5. pp' \in {"closing", "gone"} => errMsg' # "" BY <3>1, <1>3
    <3>6. errMsg' \notin Failures BY <3>2, <1>3
    <3>7. out' = << ErrItem >> BY <2>3
    <3> QED BY <3>3, <3>4, <3>5, <3>6, <3>7, Zenon DEF PumpStage
  <2>8. Lines'
    <3>1. UNCHANGED << queue, produced, hand, delivered, errMsg >> BY <2>1, <1>1, <1>3
    <3>2. Buffered' = Buffered /\ Buffered' # 1 BY <2>3, <1>5
    <3>3. Underway' = Underway BY <3>1, <3>2 DEF Underway
    <3> QED BY <3>1, <3>2, <3>3, <1>t DEF Lines
  <2> QED BY <2>3, <2>5, <2>6, <2>7, <2>8, <1>2 DEF IInv, Types
<1>8. CASE emit
  <2>1. lp = "emit" /\ out' = Append(out, Head(queue)) /\ queue' = Tail(queue)
        /\ lp' = IF queue' = << >> THEN after ELSE "emit"
    BY <1>8 DEF emit, Emitting
  <2>2. queue # << >> /\ queue \in Seq(Nat) BY <2>1, <1>t DEF LoopStage, LoopTypes
  <2>3. /\ Head(queue) = queue[1] /\ queue' \in Seq(Nat) /\ queue[1] \in Nat
        /\ Len(queue) \in Nat /\ Len(queue) >= 1 /\ Len(queue') = Len(queue) - 1
        /\ \A i \in 1 .. Len(queue) - 1 : queue'[i] = queue[i + 1]
    BY <2>1, <2>2, TakeHead
  <2>4. /\ Len(delivered) \in Nat /\ Len(hand) \in {0, 1} /\ produced \in Nat
        /\ Underway <= produced
    <3>1. Underway \in Nat BY Counts DEF Underway
    <3>2. Underway < produced \/ Underway = produced BY <1>t DEF Lines
    <3> QED BY <3>1, <3>2, Counts
  <2>5. Len(queue) <= produced BY <2>3, <2>4, <1>5 DEF Underway
  <2>6. queue[1] = produced - Len(queue) + 1
    <3>1. 1 \in 1 .. Len(queue) BY <2>3
    <3> QED BY <3>1, <1>t DEF Lines
  <2>7. queue[1] # ErrItem BY <2>3, <2>4, <2>5, <2>6 DEF ErrItem
  <2>8. ChanTypes' /\ out' = << queue[1] >> /\ Buffered' = 1 /\ out' # << >> /\ out' # << ErrItem >>
    BY <2>1, <2>3, <2>7, <1>6
  <2>9. LoopTypes'
    <3>1. after \in {"select", "emitErr", "cancel"} BY <1>t DEF LoopTypes
    <3>2. lp' \in {"select", "emit", "emitErr", "cancel"} BY <2>1, <3>1
    <3>3. queue' \in Seq(Nat) BY <2>3
    <3> QED BY <3>2, <3>3, <1>1, <1>t DEF LoopTypes
  <2>10. LoopStage'
    <3>1. after \in {"select", "emitErr", "cancel"} BY <1>t DEF LoopTypes
    <3>2. lp' = "emit" <=> queue' # << >> BY <2>1, <3>1
    <3>3. lp' \in {after, "emit"} BY <2>1
    <3>4. /\ after = "select" => verdict = "none"
          /\ after = "emitErr" => verdict \in Failures
          /\ after = "cancel" => verdict = "ok"
          /\ slot /\ ~outClosed /\ ~ctxDone
      BY <2>1, <1>t DEF LoopStage, Bound
    <3> QED BY <3>1, <3>2, <3>3, <3>4, <1>1 DEF LoopStage, Bound, Failures
  <2>11. PumpStage'
    <3>1. errMsg \notin Failures /\ (pp \in {"closing", "gone"} => errMsg # "")
      BY <2>1, <1>t DEF PumpStage
    <3>2. /\ pp' = "calling" <=> hand' # << >>
          /\ pp' \in {"select", "calling"} => errMsg' = ""
          /\ pp' # "gone" => sink' = "open"
          /\ errMsg' = "emit failed" => client' # "reading" \/ ~hostUp'
      BY <1>3, <1>t DEF PumpStage
    <3>3. lp' \in {"cancel", "release", "close", "gone"} => verdict' \notin Failures
      <4>1. after \in {"select", "emitErr", "cancel"} BY <1>t DEF LoopTypes
      <4>2. after = "cancel" => verdict = "ok" BY <2>1, <1>t DEF LoopStage
      <4> QED BY <4>1, <4>2, <2>1, <1>1 DEF Failures
    <3>4. errMsg' \notin Failures /\ (pp' \in {"closing", "gone"} => errMsg' # "")
      BY <3>1, <1>3
    <3>5. out' # << ErrItem >> BY <2>8
    <3> QED BY <3>2, <3>3, <3>4, <3>5, Zenon DEF PumpStage
  <2>12. Lines'
    <3>1. UNCHANGED << produced, hand, delivered, errMsg >> BY <1>1, <1>3
    <3>2. \A i \in 1 .. Len(queue') : queue'[i] = produced' - Len(queue') + i
      <4> SUFFICES ASSUME NEW i \in 1 .. Len(queue') PROVE queue'[i] = produced' - Len(queue') + i
        OBVIOUS
      <4>1. i \in Nat /\ i + 1 \in 1 .. Len(queue) /\ i \in 1 .. Len(queue) - 1 BY <2>3
      <4>2. queue[i + 1] = produced - Len(queue) + (i + 1) BY <4>1, <1>t DEF Lines
      <4>3. queue'[i] = queue[i + 1] BY <2>3, <4>1
      <4>4. Len(queue') = Len(queue) - 1 /\ produced' = produced BY <2>3, <3>1
      <4> QED BY <4>1, <4>2, <4>3, <4>4, <2>3, <2>4
    <3>3. out'[1] = produced' - Len(queue')
      <4>1. out'[1] = queue[1] BY <2>8
      <4>2. Len(queue') = Len(queue) - 1 /\ produced' = produced BY <2>3, <3>1
      <4> QED BY <4>1, <4>2, <2>3, <2>4, <2>6
    <3>4. hand' # << >> => hand'[1] = produced' - Len(queue') - Buffered'
      <4>1. hand # << >> => hand[1] = produced - Len(queue) - Buffered BY <1>t DEF Lines
      <4>2. Len(queue') = Len(queue) - 1 /\ produced' = produced BY <2>3, <3>1
      <4>3. produced - Len(queue) - 0 = produced - (Len(queue) - 1) - 1 BY <2>3, <2>4
      <4> QED BY <4>1, <4>2, <4>3, <3>1, <2>8, <1>5
    <3>5. Underway' = Underway
      <4>1. Len(queue') = Len(queue) - 1 /\ Buffered' = 1 /\ Buffered = 0 BY <2>3, <2>8, <1>5
      <4>2. UNCHANGED << Len(delivered), Len(hand) >> BY <3>1
      <4> QED BY <4>1, <4>2, <2>3, <2>4 DEF Underway
    <3> QED BY <3>1, <3>2, <3>3, <3>4, <3>5, <1>t DEF Lines
  <2> QED BY <2>8, <2>9, <2>10, <2>11, <2>12, <1>2 DEF IInv, Types
<1> QED BY <1>7, <1>8

\* The pump takes an item, or the end.
LEMMA PumpTakeStep == IInv /\ (pumpTake \/ pumpEnd \/ pumpClose) => IInv'
<1> SUFFICES ASSUME IInv, pumpTake \/ pumpEnd \/ pumpClose PROVE IInv' OBVIOUS
<1>t. LoopTypes /\ LoopStage /\ PumpStage /\ Lines /\ ChanTypes /\ PumpTypes
  BY DEF IInv, Types
<1>1. UNCHANGED readerVars /\ UNCHANGED loopVars /\ UNCHANGED envVars
      /\ UNCHANGED << outClosed, delivered >>
  BY DEF pumpTake, pumpEnd, pumpClose, chanVars
<1>2. EnvTypes' /\ ReaderTypes' /\ Kind' /\ LoopTypes' /\ LoopStage' /\ Source'
  BY <1>1, Unchanged
<1>3. UNCHANGED << lp, verdict, queue, produced, client, hostUp >>
  BY <1>1 DEF loopVars, envVars
<1>4. CASE pumpEnd
  <2>1. /\ pp = "select" /\ out = << >> /\ outClosed /\ pp' = "closing"
        /\ UNCHANGED << hand, errMsg, sink, out >>
    BY <1>4 DEF pumpEnd, chanVars
  <2>2. ChanTypes' BY <2>1, <1>1, <1>t DEF ChanTypes
  <2>3. PumpTypes' BY <2>1, <1>1, <1>t DEF PumpTypes
  <2>4. Lines' BY <2>1, <1>1, <1>3, <1>t, LinesSame
  <2>5. lp = "gone" /\ verdict = "ok" /\ hand = << >> /\ errMsg = "" /\ sink = "open"
    <3>1. lp = "gone" /\ verdict # "none" BY <2>1, <1>t DEF LoopStage
    <3>2. out # << ErrItem >> BY <2>1
    <3>3. verdict \notin Failures BY <3>1, <3>2, <2>1, <1>t DEF PumpStage
    <3>4. verdict = "ok" BY <3>1, <3>3, <1>t DEF LoopTypes
    <3>5. hand = << >> /\ errMsg = "" /\ sink = "open" BY <2>1, <1>t DEF PumpStage
    <3> QED BY <3>1, <3>4, <3>5
  <2>6. PumpStage'
    <3>1. pp' = "closing" /\ hand' = << >> /\ errMsg' = "" /\ sink' = "open" /\ lp' = "gone"
          /\ verdict' = "ok" /\ out' = << >>
      BY <2>1, <2>5, <1>3
    <3>2. << >> # << ErrItem >> OBVIOUS
    <3>3. out' # << ErrItem >> BY <3>1, <3>2, Zenon
    <3> QED BY <3>1, <3>3 DEF PumpStage, Failures
  <2> QED BY <2>2, <2>3, <2>4, <2>6, <1>2 DEF IInv, Types
<1>5. CASE pumpClose
  <2>1. /\ pp = "closing" /\ pp' = "gone" /\ UNCHANGED << hand, errMsg, out >>
        /\ sink' \in {sink, "closed"}
    BY <1>5 DEF pumpClose, chanVars
  <2>2. ChanTypes' BY <2>1, <1>1, <1>t DEF ChanTypes
  <2>3. PumpTypes' BY <2>1, <1>1, <1>t DEF PumpTypes
  <2>4. Lines' BY <2>1, <1>1, <1>3, <1>t, LinesSame
  <2>5. PumpStage' BY <2>1, <1>3, <1>t DEF PumpStage, Failures, ErrItem
  <2> QED BY <2>2, <2>3, <2>4, <2>5, <1>2 DEF IInv, Types
<1>6. CASE pumpTake
  <2>1. /\ pp = "select" /\ out # << >> /\ out' = Tail(out) /\ UNCHANGED sink
        /\ \/ Head(out) = ErrItem /\ pp' = "closing" /\ errMsg' = verdict /\ UNCHANGED hand
           \/ Head(out) # ErrItem /\ pp' = "calling" /\ hand' = << Head(out) >> /\ UNCHANGED errMsg
    BY <1>6 DEF pumpTake
  <2>2. out = << out[1] >> /\ Head(out) = out[1] /\ out[1] \in Nat /\ Tail(out) = << >>
    BY <2>1, <1>t, Single DEF ChanTypes
  <2>3. out' = << >> /\ Buffered' = 0
    <3>1. out' = << >> BY <2>1, <2>2
    <3> QED BY <3>1, Zenon DEF Buffered
  <2>4. ChanTypes'
    <3>1. out' \in Seq(Nat) /\ Len(out') <= 1 BY <2>3, EmptySeq
    <3> QED BY <3>1, <1>1, <1>t DEF ChanTypes
  <2>5. errMsg = "" /\ hand = << >> /\ sink = "open" BY <2>1, <1>t DEF PumpStage
  <2>6. out' # << ErrItem >> BY <2>3
  <2>7. Len(<< >>) = 0 OBVIOUS
  <2>8. CASE Head(out) = ErrItem
    <3>1. out = << ErrItem >> BY <2>2, <2>8
    <3>2. Left /\ verdict \in Failures BY <3>1, <1>t DEF PumpStage, Left
    <3>3. pp' = "closing" /\ errMsg' = verdict /\ UNCHANGED hand BY <2>1, <2>8
    <3>4. PumpTypes' BY <3>2, <3>3, <2>1, <1>1, <1>t DEF PumpTypes
    <3>5. errMsg' \in Failures /\ errMsg' # "" /\ errMsg' # "emit failed" /\ errMsg' = verdict'
          /\ hand' = << >> /\ sink' = "open" /\ Left'
      BY <3>2, <3>3, <2>1, <2>5, <1>3 DEF Failures, Left
    <3>6. pp' = "closing" /\ pp' # "calling" /\ pp' # "select" BY <3>3
    <3>7. PumpStage' BY <3>5, <3>6, <2>3, <2>6, Zenon DEF PumpStage, Left
    <3>8. Lines'
      <4>1. UNCHANGED << queue, produced, hand, delivered >> BY <3>3, <1>1, <1>3
      <4>2. Buffered = 0 BY <3>1 DEF Buffered
      <4>3. Underway' = Underway BY <4>1, <4>2, <2>3 DEF Underway
      <4>4. Buffered' # 1
        <5>1. 0 # 1 OBVIOUS
        <5> QED BY <5>1, <2>3, Zenon
      <4>5. errMsg # "emit failed" /\ errMsg' # "emit failed" BY <2>5, <3>5
      <4>6. hand' = << >> BY <3>5
      <4> QED BY <4>1, <4>3, <4>4, <4>5, <4>6, <1>t DEF Lines
    <3> QED BY <3>4, <3>7, <3>8, <2>4, <1>2 DEF IInv, Types
  <2>9. CASE Head(out) # ErrItem
    <3>1. << out[1] >> # << ErrItem >> BY <2>2, <2>9
    <3>2. Buffered = 1
      <4>1. out # << ErrItem >> BY <3>1, <2>2, Zenon
      <4> QED BY <4>1, <2>1, Zenon DEF Buffered
    <3>3. pp' = "calling" /\ hand' = << out[1] >> /\ UNCHANGED errMsg BY <2>1, <2>2, <2>9
    <3>4. hand' \in Seq(Nat) /\ Len(hand') = 1 /\ hand'[1] = out[1] /\ hand' # << >>
      <4>1. \A x \in Nat : /\ << x >> \in Seq(Nat) /\ Len(<< x >>) = 1 /\ << x >>[1] = x
                           /\ << x >> # << >>
        OBVIOUS
      <4> QED BY <4>1, <3>3, <2>2, Zenon
    <3>5. PumpTypes'
      <4>1. Len(hand') <= 1 BY <3>4
      <4> QED BY <4>1, <3>3, <3>4, <2>1, <1>1, <1>t DEF PumpTypes
    <3>6. PumpStage'
      <4>1. lp' \in {"cancel", "release", "close", "gone"} /\ verdict' \in Failures => FALSE
        <5>1. out # << ErrItem >> BY <3>1, <2>2, Zenon
        <5>2. pp \notin {"closing", "gone"} BY <2>1
        <5> QED BY <5>1, <5>2, <1>3, <1>t DEF PumpStage
      <4>2. errMsg' = "" /\ errMsg' \notin Failures /\ errMsg' # "emit failed" /\ sink' = "open"
        BY <3>3, <2>1, <2>5 DEF Failures
      <4>3. pp' = "calling" /\ pp' \notin {"closing", "gone"} /\ hand' # << >> BY <3>3, <3>4
      <4> QED BY <4>1, <4>2, <4>3, <2>6, Zenon DEF PumpStage
    <3>7. Lines'
      <4>1. UNCHANGED << queue, produced, delivered, errMsg >> BY <3>3, <1>1, <1>3
      <4>2. Buffered' # 1 BY <2>3
      <4>3. Len(hand) = 0 BY <2>5, <2>7
      <4>4. Underway' = Underway
        <5>1. UNCHANGED << Len(delivered), Len(queue) >> BY <4>1
        <5>2. Len(hand') + Buffered' = Len(hand) + Buffered BY <3>2, <3>4, <2>3, <4>3
        <5> QED BY <5>1, <5>2, <3>2, <3>4, <2>3, <4>3, Counts DEF Underway
      <4>5. hand'[1] = produced' - Len(queue') - Buffered'
        <5>1. out[1] = produced - Len(queue) BY <3>2, <1>t DEF Lines
        <5> QED BY <5>1, <4>1, <3>4, <2>3, Counts
      <4> QED BY <4>1, <4>2, <4>4, <4>5, <1>t DEF Lines
    <3> QED BY <3>5, <3>6, <3>7, <2>4, <1>2 DEF IInv, Types
  <2> QED BY <2>8, <2>9
<1> QED BY <1>4, <1>5, <1>6

\* A sequence of one number appended to another.
LEMMA AppendOne ==
  ASSUME NEW s \in Seq(Nat), NEW x \in Nat
  PROVE  /\ s \o << x >> \in Seq(Nat) /\ Len(s \o << x >>) = Len(s) + 1
         /\ \A i \in 1 .. Len(s) : (s \o << x >>)[i] = s[i]
         /\ (s \o << x >>)[Len(s) + 1] = x
OBVIOUS

\* The pump's host call returns.
LEMMA EmitReturnsStep == IInv /\ emitReturns => IInv'
<1> SUFFICES ASSUME IInv, emitReturns PROVE IInv' OBVIOUS
<1>t. PumpStage /\ Lines /\ PumpTypes /\ EnvTypes BY DEF IInv, Types
<1>1. UNCHANGED readerVars /\ UNCHANGED loopVars /\ UNCHANGED chanVars /\ UNCHANGED envVars
      /\ UNCHANGED sink
  BY DEF emitReturns
<1>2. EnvTypes' /\ ReaderTypes' /\ Kind' /\ LoopTypes' /\ ChanTypes' /\ LoopStage' /\ Source'
  <2>1. UNCHANGED outClosed BY <1>1 DEF chanVars
  <2> QED BY <1>1, <2>1, Unchanged
<1>3. UNCHANGED << lp, verdict, queue, produced, client, hostUp, out >>
  BY <1>1 DEF loopVars, envVars, chanVars
<1>4. pp = "calling" /\ hand' = << >> /\ hand # << >> /\ errMsg = "" /\ sink = "open"
  BY <1>t DEF emitReturns, PumpStage
<1>5. hand \in Seq(Nat) /\ Len(hand) <= 1 BY <1>t DEF PumpTypes
<1>6. hand = << hand[1] >> /\ Len(hand) = 1 /\ hand[1] \in Nat BY <1>4, <1>5, Single
<1>7. hand' \in Seq(Nat) /\ Len(hand') <= 1 /\ 0 = Len(hand') BY <1>4, EmptySeq
<1>8. Buffered' = Buffered BY <1>3 DEF Buffered, ErrItem
<1>9. ASSUME pp' \in {"select", "closing"}, errMsg' \in {"", "emit failed"},
             pp' = "select" <=> errMsg' = "",
             errMsg' = "emit failed" => client # "reading" \/ ~hostUp
      PROVE  PumpStage'
  <2>1. out # << ErrItem >> \/ (Left /\ verdict \in Failures) BY <1>t DEF PumpStage, Left
  <2>2. ~(Left /\ verdict \in Failures /\ out # << ErrItem >>)
    <3>1. pp \notin {"closing", "gone"} BY <1>4
    <3> QED BY <3>1, <1>t DEF PumpStage, Left
  <2>3. /\ Left' <=> Left
        /\ errMsg' \notin Failures
        /\ pp' = "select" => errMsg' = ""
        /\ pp' = "closing" => errMsg' = "emit failed" /\ errMsg' # ""
        /\ pp' # "calling" /\ pp' # "gone"
        /\ sink' = "open"
    BY <1>9, <1>3, <1>1, <1>4 DEF Left, Failures
  <2>4. hand' = << >> /\ out' = out /\ verdict' = verdict BY <1>4, <1>3
  <2>5. errMsg' = "emit failed" => pp' = "closing" BY <1>9
  <2>6. errMsg' = "emit failed" => client' # "reading" \/ ~hostUp' BY <1>9, <1>3
  <2>7. pp' \in {"closing", "gone"} => errMsg' # "" BY <2>3
  <2>8. pp' \in {"select", "calling"} => errMsg' = "" BY <2>3
  <2>9. Left' /\ verdict' \in Failures /\ out' # << ErrItem >> => FALSE
    BY <2>2, <2>3, <2>4, Zenon
  <2>10. out' = << ErrItem >> => Left' /\ verdict' \in Failures BY <2>1, <2>3, <2>4, Zenon
  <2> QED BY <2>3, <2>4, <2>6, <2>7, <2>8, <2>9, <2>10, Zenon DEF PumpStage, Left
<1>10. CASE delivered' = delivered \o hand /\ pp' = "select" /\ UNCHANGED errMsg
  <2>1. PumpStage'
    <3>1. errMsg' = "" /\ pp' = "select" BY <1>10, <1>4
    <3> QED BY <3>1, <1>9
  <2>2. /\ delivered' \in Seq(Nat) /\ Len(delivered') = Len(delivered) + 1
        /\ \A i \in 1 .. Len(delivered) : delivered'[i] = delivered[i]
        /\ delivered'[Len(delivered) + 1] = hand[1]
    <3>1. delivered' = delivered \o << hand[1] >> BY <1>6, <1>10
    <3>2. delivered \in Seq(Nat) BY <1>t DEF PumpTypes
    <3> QED BY <3>1, <3>2, <1>6, AppendOne
  <2>3. PumpTypes'
    <3>1. pp' = "select" /\ errMsg' = "" BY <1>10, <1>4
    <3> QED BY <3>1, <2>2, <1>7, <1>1, <1>t DEF PumpTypes
  <2>4. hand[1] = Len(delivered) + 1
    <3>1. hand[1] = produced - Len(queue) - Buffered BY <1>4, <1>t DEF Lines
    <3>2. Underway = produced BY <1>4, <1>t DEF Lines
    <3> QED BY <3>1, <3>2, <1>6, Counts DEF Underway
  <2>5. Lines'
    <3>1. UNCHANGED << queue, produced, out, errMsg >> BY <1>3, <1>10
    <3>2. Underway' = Underway
      <4>1. Len(delivered') + Len(hand') = Len(delivered) + Len(hand) BY <2>2, <1>6, <1>7, Counts
      <4>2. UNCHANGED Len(queue) BY <3>1
      <4> QED BY <4>1, <4>2, <1>8, <1>6, <1>7, <2>2, Counts DEF Underway
    <3>3. \A i \in 1 .. Len(delivered') : delivered'[i] = i
      <4> SUFFICES ASSUME NEW i \in 1 .. Len(delivered') PROVE delivered'[i] = i
        OBVIOUS
      <4>1. CASE i = Len(delivered) + 1 BY <4>1, <2>2, <2>4
      <4>2. CASE i \in 1 .. Len(delivered) BY <4>2, <2>2, <1>t DEF Lines
      <4> QED BY <4>1, <4>2, <2>2, Counts
    <3>4. hand' = << >> BY <1>4
    <3>5. /\ \A i \in 1 .. Len(queue') : queue'[i] = produced' - Len(queue') + i
          /\ Buffered' = 1 => out'[1] = produced' - Len(queue')
      BY <3>1, <1>8, <1>t DEF Lines
    <3>6. /\ errMsg' = "emit failed" => Underway' < produced'
          /\ errMsg' # "emit failed" => Underway' = produced'
      BY <3>1, <3>2, <1>t DEF Lines
    <3> QED BY <3>3, <3>4, <3>5, <3>6, Zenon DEF Lines
  <2> QED BY <2>1, <2>3, <2>5, <1>2 DEF IInv, Types
<1>11. CASE (~hostUp \/ client = "gone") /\ errMsg' = "emit failed" /\ pp' = "closing"
            /\ UNCHANGED delivered
  <2>1. PumpStage'
    <3>1. ~hostUp \/ client # "reading" BY <1>11
    <3>2. errMsg' = "emit failed" /\ pp' = "closing" BY <1>11
    <3> QED BY <3>1, <3>2, <1>9
  <2>2. PumpTypes'
    <3>1. errMsg' = "emit failed" /\ pp' = "closing" /\ UNCHANGED delivered BY <1>11
    <3> QED BY <3>1, <1>7, <1>1, <1>t DEF PumpTypes
  <2>3. Lines'
    <3>1. UNCHANGED << queue, produced, out, delivered >> BY <1>3, <1>11
    <3>2. errMsg' = "emit failed" BY <1>11
    <3>3. Underway = produced BY <1>4, <1>t DEF Lines
    <3>4. Underway' < produced'
      <4>1. UNCHANGED << Len(queue), Len(delivered) >> /\ produced' = produced BY <3>1
      <4> QED BY <4>1, <3>3, <1>8, <1>6, <1>7, Counts DEF Underway
    <3>5. hand' = << >> BY <1>4
    <3>6. /\ \A i \in 1 .. Len(queue') : queue'[i] = produced' - Len(queue') + i
          /\ Buffered' = 1 => out'[1] = produced' - Len(queue')
          /\ \A i \in 1 .. Len(delivered') : delivered'[i] = i
      BY <3>1, <1>8, <1>t DEF Lines
    <3> QED BY <3>2, <3>4, <3>5, <3>6, Zenon DEF Lines
  <2> QED BY <2>1, <2>2, <2>3, <1>2 DEF IInv, Types
<1> QED BY <1>10, <1>11 DEF emitReturns

\* The environment takes the client or the host away.
LEMMA EnvStep == IInv /\ Env => IInv'
<1> SUFFICES ASSUME IInv, Env PROVE IInv' OBVIOUS
<1>t. PumpStage /\ Source /\ EnvTypes BY DEF IInv, Types
<1>1. UNCHANGED readerVars /\ UNCHANGED loopVars /\ UNCHANGED chanVars /\ UNCHANGED pumpVars
  BY DEF Env, clientLeaves, shutdown
<1>2. ReaderTypes' /\ Kind' /\ LoopTypes' /\ ChanTypes' /\ LoopStage' /\ PumpTypes' /\ Lines'
  <2>1. UNCHANGED outClosed BY <1>1 DEF chanVars
  <2> QED BY <1>1, <2>1, Unchanged
<1>3. EnvTypes' BY <1>t DEF EnvTypes, Env, clientLeaves, shutdown
<1>4. UNCHANGED << lp, verdict, out, pp, hand, errMsg, sink, upstream, rd, onward, via >>
  BY <1>1 DEF loopVars, chanVars, pumpVars, readerVars
<1>5. (hostUp' => hostUp) /\ (client # "reading" => client' # "reading")
  BY <1>t DEF Env, clientLeaves, shutdown, EnvTypes
<1>6. Source' BY <1>4, <1>5, <1>t, SourceSame
<1>7. PumpStage' BY <1>4, <1>5, <1>t DEF PumpStage, Failures, ErrItem
<1> QED BY <1>2, <1>3, <1>6, <1>7 DEF IInv, Types

\* Every step, and every stutter, preserves the invariant.
LEMMA NextIInv == IInv /\ [Next]_vars => IInv'
<1> SUFFICES ASSUME IInv, [Next]_vars PROVE IInv' OBVIOUS
<1>1. CASE UNCHANGED vars
  <2>1. /\ UNCHANGED readerVars /\ UNCHANGED loopVars /\ UNCHANGED chanVars
        /\ UNCHANGED pumpVars /\ UNCHANGED envVars /\ UNCHANGED outClosed
    BY <1>1 DEF vars, readerVars, loopVars, chanVars, pumpVars, envVars
  <2> QED BY <2>1, Unchanged DEF IInv, Types
<1>2. CASE Next
  BY <1>1, <1>2, ReaderStep, ReceiveStep, ControlStep, EmitStep, PumpTakeStep,
     EmitReturnsStep, EnvStep DEF Next, Select, Pump, Finished
<1> QED BY <1>1, <1>2

\* The invariant holds in every reachable state.
LEMMA Invariance == Spec => []IInv
BY InitIInv, NextIInv, PTL DEF Spec

-----------------------------------------------------------------------------
\* A sequence that counts to its length, continued by one that counts on from there.
LEMMA CountOn ==
  ASSUME NEW s \in Seq(Nat), \A i \in 1 .. Len(s) : s[i] = i,
         NEW t \in Seq(Nat), \A i \in 1 .. Len(t) : t[i] = Len(s) + i
  PROVE  /\ s \o t \in Seq(Nat) /\ Len(s \o t) = Len(s) + Len(t)
         /\ \A i \in 1 .. Len(s \o t) : (s \o t)[i] = i
<1>1. s \o t \in Seq(Nat) /\ Len(s \o t) = Len(s) + Len(t) OBVIOUS
<1>2. Len(s) \in Nat /\ Len(t) \in Nat OBVIOUS
<1>3. ASSUME NEW i \in 1 .. Len(s \o t) PROVE (s \o t)[i] = i
  <2>1. CASE i <= Len(s)
    <3>1. i \in 1 .. Len(s) BY <2>1, <1>2, <1>1
    <3>2. (s \o t)[i] = s[i] BY <3>1
    <3> QED BY <3>1, <3>2
  <2>2. CASE i > Len(s)
    <3>1. i - Len(s) \in 1 .. Len(t) BY <2>2, <1>2, <1>1
    <3>2. (s \o t)[i] = t[i - Len(s)] BY <3>1, <1>2, <2>2, <1>1
    <3>3. t[i - Len(s)] = Len(s) + (i - Len(s)) BY <3>1
    <3>4. Len(s) + (i - Len(s)) = i BY <1>1, <1>2
    <3> QED BY <3>2, <3>3, <3>4
  <2> QED BY <2>1, <2>2, <1>1, <1>2
<1> QED BY <1>1, <1>3

\* A sequence that counts to its length is Numbers of that length.
LEMMA Counting ==
  ASSUME NEW s \in Seq(Nat), \A i \in 1 .. Len(s) : s[i] = i
  PROVE  s = Numbers(Len(s))
BY DEF Numbers

\* The only index of a sequence that holds one element at most.
LEMMA OneOfOne ==
  ASSUME NEW k \in {0, 1}, NEW i \in 1 .. k
  PROVE  k = 1 /\ i = 1
OBVIOUS

\* The three ways a number is worked out from the back of the line.
LEMMA Shift ==
  ASSUME NEW p \in Nat, NEW q \in Nat, NEW l \in Nat
  PROVE  /\ \A k \in Nat : p = l + q => p - q + k = l + k
         /\ p = l + 1 + q => p - q = l + 1
         /\ \A k \in Nat : p = l + 1 + k + q => p - q - k = l + 1
OBVIOUS

\* The channel's payload, if it holds one.
LEMMA ChannelPayload ==
  ASSUME IInv
  PROVE  \/ Buffered = 0 /\ (out = << >> \/ out = << ErrItem >>)
         \/ /\ Buffered = 1 /\ out # << ErrItem >> /\ out = << out[1] >>
            /\ out[1] = produced - Len(queue) /\ out[1] \in Nat
<1>1. CASE out = << >> \/ out = << ErrItem >> BY <1>1 DEF Buffered
<1>2. CASE ~(out = << >> \/ out = << ErrItem >>)
  <2>1. Buffered = 1 BY <1>2 DEF Buffered
  <2>2. out \in Seq(Nat) /\ Len(out) <= 1 BY DEF IInv, Types, ChanTypes
  <2>3. out # << >> /\ out # << ErrItem >> BY <1>2
  <2>4. out = << out[1] >> /\ out[1] \in Nat BY <2>2, <2>3, Single
  <2>5. out[1] = produced - Len(queue) BY <2>1 DEF IInv, Lines
  <2> QED BY <2>1, <2>3, <2>4, <2>5
<1> QED BY <1>1, <1>2

\* When nothing is missing, what has left the parser is numbered without a gap.
LEMMA InOneLine ==
  ASSUME IInv, Underway = produced
  PROVE  delivered \o hand \o (IF out = << ErrItem >> THEN << >> ELSE out) \o queue
           = Numbers(produced)
<1>1. Lines /\ Underway = produced BY DEF IInv
<1>2. delivered \in Seq(Nat) /\ hand \in Seq(Nat) /\ queue \in Seq(Nat)
  BY DEF IInv, Types, PumpTypes, LoopTypes
<1> DEFINE buffered == IF out = << ErrItem >> THEN << >> ELSE out
<1>3. buffered \in Seq(Nat) /\ Len(buffered) = Buffered
      /\ \A i \in 1 .. Len(buffered) : buffered[i] = produced - Len(queue)
  <2>1. CASE out = << ErrItem >>
    <3>1. buffered = << >> BY <2>1
    <3>2. Buffered = 0 BY <2>1 DEF Buffered
    <3> HIDE DEF buffered
    <3>3. buffered \in Seq(Nat) /\ 0 = Len(buffered) /\ \A i \in 1 .. Len(buffered) : FALSE
      BY <3>1, EmptySeq
    <3> QED BY <3>2, <3>3, Zenon
  <2>2. CASE out = << >>
    <3>1. buffered = << >>
      <4>1. << >> # << ErrItem >> OBVIOUS
      <4> QED BY <2>2, <4>1, Zenon
    <3>2. Buffered = 0 BY <2>2 DEF Buffered
    <3> HIDE DEF buffered
    <3>3. buffered \in Seq(Nat) /\ 0 = Len(buffered) /\ \A i \in 1 .. Len(buffered) : FALSE
      BY <3>1, EmptySeq
    <3> QED BY <3>2, <3>3, Zenon
  <2>3. CASE ~(out = << >> \/ out = << ErrItem >>)
    <3>1. Buffered = 1 BY <2>3 DEF Buffered
    <3>2. out = << out[1] >> /\ out[1] = produced - Len(queue) /\ out[1] \in Nat
      <4>1. 0 # 1 OBVIOUS
      <4> QED BY <3>1, <4>1, ChannelPayload, Zenon
    <3>3. buffered = out BY <2>3
    <3> HIDE DEF buffered
    <3>4. \A x \in Nat : /\ << x >> \in Seq(Nat) /\ Len(<< x >>) = 1
                         /\ \A i \in 1 .. Len(<< x >>) : << x >>[i] = x
      <4> SUFFICES ASSUME NEW x \in Nat
                   PROVE  /\ << x >> \in Seq(Nat) /\ Len(<< x >>) = 1
                          /\ \A i \in 1 .. Len(<< x >>) : << x >>[i] = x
        OBVIOUS
      <4>1. << x >> \in Seq(Nat) /\ Len(<< x >>) = 1 /\ << x >>[1] = x OBVIOUS
      <4>2. \A i \in 1 .. 1 : i = 1 OBVIOUS
      <4> QED BY <4>1, <4>2, Zenon
    <3>5. buffered = << produced - Len(queue) >> /\ produced - Len(queue) \in Nat
      BY <3>2, <3>3
    <3> QED BY <3>1, <3>4, <3>5, Zenon
  <2> QED BY <2>1, <2>2, <2>3
<1> HIDE DEF buffered
<1>4. /\ delivered \o hand \in Seq(Nat) /\ Len(delivered \o hand) = Len(delivered) + Len(hand)
      /\ \A i \in 1 .. Len(delivered \o hand) : (delivered \o hand)[i] = i
  <2>1. \A i \in 1 .. Len(delivered) : delivered[i] = i BY <1>1 DEF Lines
  <2>2. \A i \in 1 .. Len(hand) : hand[i] = Len(delivered) + i
    <3> SUFFICES ASSUME NEW i \in 1 .. Len(hand) PROVE hand[i] = Len(delivered) + i
      OBVIOUS
    <3>1. Len(hand) = 1 /\ i = 1 BY Counts, OneOfOne, Zenon
    <3>2. hand # << >> BY <3>1, EmptySeq
    <3>3. hand[1] = produced - Len(queue) - Buffered BY <3>2, <1>1 DEF Lines
    <3>4. produced = Len(delivered) + 1 + Buffered + Len(queue) BY <1>1, <3>1 DEF Underway
    <3>5. Len(queue) \in Nat /\ produced \in Nat /\ Len(delivered) \in Nat BY Counts
    <3>6. Buffered \in Nat
      <4>1. \A c \in {0, 1} : c \in Nat OBVIOUS
      <4> QED BY <4>1, Counts, Zenon
    <3>7. hand[1] = Len(delivered) + 1 BY <3>3, <3>4, <3>5, <3>6, Shift
    <3> QED BY <3>1, <3>7
  <2> QED BY <2>1, <2>2, <1>2, CountOn
<1> DEFINE a == delivered \o hand
<1>5. a \in Seq(Nat) /\ Len(a) = Len(delivered) + Len(hand) /\ \A i \in 1 .. Len(a) : a[i] = i
  BY <1>4
<1> HIDE DEF a
<1>6. /\ a \o buffered \in Seq(Nat) /\ Len(a \o buffered) = Len(a) + Len(buffered)
      /\ \A i \in 1 .. Len(a \o buffered) : (a \o buffered)[i] = i
  <2>1. \A i \in 1 .. Len(buffered) : buffered[i] = Len(a) + i
    <3> SUFFICES ASSUME NEW i \in 1 .. Len(buffered) PROVE buffered[i] = Len(a) + i
      OBVIOUS
    <3>1. Buffered = 1 /\ i = 1
      <4>1. Len(buffered) \in {0, 1} BY <1>3, Counts, Zenon
      <4> QED BY <4>1, <1>3, OneOfOne, Zenon
    <3>2. buffered[i] = produced - Len(queue) BY <1>3
    <3>3. produced = Len(a) + 1 + Len(queue) BY <1>1, <1>5, <3>1, Counts DEF Underway
    <3>4. Len(a) \in Nat
      <4>1. a \in Seq(Nat) BY <1>5
      <4> QED BY <4>1
    <3>5. Len(queue) \in Nat /\ produced \in Nat BY Counts
    <3>6. produced - Len(queue) = Len(a) + 1 BY <3>3, <3>4, <3>5, Shift
    <3> QED BY <3>1, <3>2, <3>6
  <2> QED BY <2>1, <1>3, <1>5, CountOn
<1> DEFINE b == a \o buffered
<1>7. b \in Seq(Nat) /\ Len(b) = Len(a) + Len(buffered) /\ \A i \in 1 .. Len(b) : b[i] = i
  BY <1>6
<1> HIDE DEF b
<1>8. produced = Len(b) + Len(queue) BY <1>1, <1>3, <1>5, <1>7, Counts DEF Underway
<1>9. \A i \in 1 .. Len(queue) : queue[i] = Len(b) + i
  <2> SUFFICES ASSUME NEW i \in 1 .. Len(queue) PROVE queue[i] = Len(b) + i
    OBVIOUS
  <2>1. queue[i] = produced - Len(queue) + i BY <1>1 DEF Lines
  <2>2. Len(b) \in Nat
    <3>1. b \in Seq(Nat) BY <1>7
    <3> QED BY <3>1
  <2>3. i \in Nat /\ Len(queue) \in Nat BY Counts
  <2>4. produced \in Nat BY Counts
  <2>5. produced - Len(queue) + i = Len(b) + i BY <2>2, <2>3, <2>4, <1>8, Shift
  <2> QED BY <2>1, <2>5
<1>10. /\ b \o queue \in Seq(Nat) /\ Len(b \o queue) = Len(b) + Len(queue)
       /\ \A i \in 1 .. Len(b \o queue) : (b \o queue)[i] = i
  BY <1>2, <1>7, <1>9, CountOn
<1>11. b \o queue = Numbers(produced) BY <1>8, <1>10, Counting
<1> QED BY <1>11 DEF a, b, buffered

\* As long as no emit has failed, nothing is missing.
LEMMA NothingLostInv == IInv => NothingLost
<1>1. IInv /\ errMsg # "emit failed" => Underway = produced BY DEF IInv, Lines
<1> QED BY <1>1, InOneLine, Zenon DEF NothingLost

\* Nothing is lost between the parser of streamLoop and the client, in any interleaving
\* of its three goroutines (executor.go:389-485, abi.go:485-525).
THEOREM NothingLostAlways == Spec => []NothingLost
BY Invariance, NothingLostInv, PTL

\* Where the client's stream has been closed, its reason is earned.
LEMMA CloseInv == IInv => CloseTellsTheTruth /\ SlotFreeAfterSuccess
<1> SUFFICES ASSUME IInv, sink = "closed"
             PROVE  /\ errMsg = "" => verdict = "ok" /\ delivered = Numbers(produced) /\ ~slot
                    /\ errMsg \notin {"", "emit failed"} =>
                          errMsg = verdict /\ delivered = Numbers(produced)
  BY DEF CloseTellsTheTruth, SlotFreeAfterSuccess
<1>1. pp = "gone" /\ hand = << >> BY DEF IInv, PumpStage
<1>2. ASSUME Left, errMsg # "emit failed", out = << >> PROVE delivered = Numbers(produced)
  <2>1. queue = << >> BY <1>2 DEF IInv, LoopStage, Left
  <2>2. Buffered = 0 BY <1>2 DEF Buffered
  <2>3. Len(queue) = 0 /\ Len(hand) = 0 BY <1>1, <2>1, EmptySeq
  <2>4. Underway = produced BY <1>2 DEF IInv, Lines
  <2>5. Len(delivered) = produced BY <2>2, <2>3, <2>4, Counts DEF Underway
  <2>6. delivered \in Seq(Nat) /\ \A i \in 1 .. Len(delivered) : delivered[i] = i
    BY DEF IInv, Types, PumpTypes, Lines
  <2> QED BY <2>5, <2>6, Counting
<1>3. CASE errMsg = ""
  <2>1. lp = "gone" /\ verdict = "ok" /\ out = << >> BY <1>1, <1>3 DEF IInv, PumpStage
  <2>2. ~slot BY <2>1 DEF IInv, LoopStage
  <2>3. Left /\ errMsg # "emit failed" BY <2>1, <1>3 DEF Left
  <2> QED BY <2>1, <2>2, <2>3, <1>2, <1>3
<1>4. CASE errMsg \notin {"", "emit failed"}
  <2>1. errMsg \in Failures BY <1>4 DEF IInv, Types, PumpTypes
  <2>2. Left /\ errMsg = verdict /\ out = << >> BY <2>1 DEF IInv, PumpStage, Left
  <2> QED BY <2>2, <1>2, <1>4
<1> QED BY <1>3, <1>4

\* A close without an error follows a complete response delivered to its last payload,
\* any other close tells streamLoop's own verdict (abi.go:494-525).
THEOREM CloseTellsTheTruthAlways == Spec => []CloseTellsTheTruth
BY Invariance, CloseInv, PTL

\* Whoever has seen a stream end well finds its slot free (executor.go:396-398).
THEOREM SlotFreeAfterSuccessAlways == Spec => []SlotFreeAfterSuccess
BY Invariance, CloseInv, PTL

\* Neither reader leaves a stream open behind it (abi.go:425-483, pool.go:83-124).
THEOREM NoAbandonedStreamAlways == Spec => []NoAbandonedStream
<1>1. IInv => NoAbandonedStream BY DEF IInv, Source, NoAbandonedStream
<1> QED BY <1>1, Invariance, PTL

\* A sequence is one of a set's elements when each of its elements is in the set.
LEMMA SeqOf ==
  ASSUME NEW s \in Seq(Nat), NEW S, \A i \in 1 .. Len(s) : s[i] \in S
  PROVE  s \in Seq(S)
OBVIOUS

\* Every payload in sight has been produced.
LEMMA AllProduced ==
  ASSUME IInv
  PROVE  /\ queue \in Seq(1 .. produced) /\ delivered \in Seq(1 .. produced)
         /\ hand \in Seq(1 .. produced) /\ out \in Seq({ErrItem} \cup 1 .. produced)
<1>0. Buffered \in Nat /\ Len(hand) \in Nat
  <2>1. \A c \in {0, 1} : c \in Nat OBVIOUS
  <2> QED BY <2>1, Counts, Zenon
<1>1. Underway <= produced
  <2>1. Underway \in Nat
    <3> QED BY <1>0, Counts DEF Underway
  <2>2. Underway < produced \/ Underway = produced BY DEF IInv, Lines
  <2> QED BY <2>1, <2>2, Counts
<1>2. Len(queue) <= produced /\ Len(delivered) <= produced
      /\ (Len(hand) = 1 => Len(queue) + Buffered + 1 <= produced)
      /\ (Buffered = 1 => Len(queue) + 1 <= produced)
  <2>1. \A d, h, b, q, p \in Nat :
           d + h + b + q <= p =>
             /\ q <= p /\ d <= p
             /\ (h = 1 => q + b + 1 <= p) /\ (b = 1 => q + 1 <= p)
    OBVIOUS
  <2>2. Len(delivered) + Len(hand) + Buffered + Len(queue) <= produced BY <1>1 DEF Underway
  <2>3. /\ Len(delivered) \in Nat /\ Len(hand) \in Nat /\ Buffered \in Nat
        /\ Len(queue) \in Nat /\ produced \in Nat
    BY <1>0, Counts, Zenon
  <2> QED BY <2>1, <2>2, <2>3, Zenon
<1>3. queue \in Seq(1 .. produced)
  <2>1. queue \in Seq(Nat) BY DEF IInv, Types, LoopTypes
  <2>2. \A i \in 1 .. Len(queue) : queue[i] \in 1 .. produced
    <3> SUFFICES ASSUME NEW i \in 1 .. Len(queue) PROVE queue[i] \in 1 .. produced
      OBVIOUS
    <3>1. queue[i] = produced - Len(queue) + i BY DEF IInv, Lines
    <3> QED BY <3>1, <1>2, Counts
  <2> QED BY <2>1, <2>2, SeqOf
<1>4. delivered \in Seq(1 .. produced)
  <2>1. delivered \in Seq(Nat) BY DEF IInv, Types, PumpTypes
  <2>2. \A i \in 1 .. Len(delivered) : delivered[i] \in 1 .. produced
    <3> SUFFICES ASSUME NEW i \in 1 .. Len(delivered) PROVE delivered[i] \in 1 .. produced
      OBVIOUS
    <3>1. delivered[i] = i BY DEF IInv, Lines
    <3> QED BY <3>1, <1>2, Counts
  <2> QED BY <2>1, <2>2, SeqOf
<1>5. hand \in Seq(1 .. produced)
  <2>1. hand \in Seq(Nat) BY DEF IInv, Types, PumpTypes
  <2>2. \A i \in 1 .. Len(hand) : hand[i] \in 1 .. produced
    <3> SUFFICES ASSUME NEW i \in 1 .. Len(hand) PROVE hand[i] \in 1 .. produced
      OBVIOUS
    <3>1. Len(hand) = 1 /\ i = 1 BY Counts, OneOfOne, Zenon
    <3>2. hand # << >> BY <3>1, EmptySeq
    <3>3. hand[1] = produced - Len(queue) - Buffered BY <3>2 DEF IInv, Lines
    <3>4. hand[1] \in 1 .. produced BY <3>1, <3>3, <1>2, Counts
    <3> QED BY <3>1, <3>4
  <2> QED BY <2>1, <2>2, SeqOf
<1>6. out \in Seq({ErrItem} \cup 1 .. produced)
  <2> DEFINE S == {ErrItem} \cup 1 .. produced
  <2>1. out \in Seq(Nat) /\ Len(out) <= 1 BY DEF IInv, Types, ChanTypes
  <2>2. \A i \in 1 .. Len(out) : out[i] \in S
    <3> SUFFICES ASSUME NEW i \in 1 .. Len(out) PROVE out[i] \in S
      OBVIOUS
    <3>1. out # << >> BY EmptySeq
    <3>2. out = << out[1] >> /\ Len(out) = 1 BY <3>1, <2>1, Single
    <3>3. i = 1 BY <3>2
    <3>4. CASE out = << ErrItem >>
      <4>1. out[1] = ErrItem BY <3>4
      <4> QED BY <4>1, <3>3
    <3>5. CASE out # << ErrItem >>
      <4>1. Buffered = 1 /\ out[1] = produced - Len(queue) BY <3>1, <3>5, ChannelPayload
      <4>2. out[1] \in 1 .. produced BY <4>1, <1>2, Counts
      <4> QED BY <4>2, <3>3
    <3> QED BY <3>4, <3>5
  <2> HIDE DEF S
  <2>3. out \in Seq(S) BY <2>1, <2>2, SeqOf
  <2> QED BY <2>3 DEF S
<1> QED BY <1>3, <1>4, <1>5, <1>6

\* Every variable keeps its type, and the channel its capacity of one.
THEOREM TypeCorrect == Spec => []TypeOK
<1>1. IInv => TypeOK
  <2> SUFFICES ASSUME IInv PROVE TypeOK OBVIOUS
  <2>1. client \in {"reading", "gone", "stalled"} /\ hostUp \in BOOLEAN
    BY DEF IInv, Types, EnvTypes
  <2>2. /\ upstream \in {"open", "ended", "closed"} /\ reads \in 0..MaxReads
        /\ rd \in {"top", "reading", "std", "send", "sendErr", "done"} /\ via \in Readers
        /\ onward \in {"top", "std", "sendErr", "done"}
    BY Zenon DEF IInv, Types, ReaderTypes, Kind
  <2>3. /\ lp \in {"select", "emit", "emitErr", "cancel", "release", "close", "gone"}
        /\ after \in {"select", "emitErr", "cancel"}
        /\ fired \in BOOLEAN /\ ctxDone \in BOOLEAN /\ slot \in BOOLEAN
        /\ verdict \in Verdicts \cup {"none", "read error", "timeout"}
    BY DEF IInv, Types, LoopTypes, Failures, Verdicts
  <2>4. lp = "emit" <=> queue # << >> BY DEF IInv, LoopStage
  <2>5. Len(out) <= 1 /\ outClosed \in BOOLEAN BY DEF IInv, Types, ChanTypes
  <2>6. /\ pp \in {"select", "calling", "closing", "gone"} /\ sink \in {"open", "closed"}
        /\ errMsg \in Verdicts \cup {"", "read error", "timeout", "emit failed"}
    BY DEF IInv, Types, PumpTypes, Failures, Verdicts
  <2> QED BY <2>1, <2>2, <2>3, <2>4, <2>5, <2>6, AllProduced, Zenon DEF TypeOK
<1> QED BY <1>1, Invariance, PTL

-----------------------------------------------------------------------------
\* What a step of the pipeline changes of the promised response.
seen == << produced, verdict, slot, client, hostUp, delivered, sink, errMsg >>

\* A verdict of streamLoop, or none, is an ending of the promised response.
LEMMA EndingsCovered ==
  /\ Failures \cup {"none", "ok"} = (Verdicts \cup {"read error", "timeout"}) \cup {"none"}
BY DEF Failures, Verdicts

\* A step that changes nothing of the promised response stutters.
LEMMA SameSeen == UNCHANGED seen => UNCHANGED Promise!vars
BY DEF seen, Promise!vars

\* The initial states are those of the promise.
LEMMA RelayInit == Init => Promise!Init
BY DEF Init, Promise!Init

\* A chunk, an error, a time-out or the end of the upstream is a step of the source.
LEMMA SelectRelays == IInv /\ Select => [Promise!Next]_(Promise!vars)
<1> SUFFICES ASSUME IInv, Select PROVE Promise!Produce
  BY DEF Promise!Next
<1>1. lp = "select" /\ UNCHANGED << slot, client, hostUp, delivered, sink, errMsg >>
  BY DEF Select, receiveChunk, receiveError, receiveClosed, timeout, pumpVars, envVars
<1>2. verdict = "none" BY <1>1 DEF IInv, LoopStage, Bound
<1>3. IInv' BY NextIInv DEF Next
<1>4. verdict' \in (Verdicts \cup {"read error", "timeout"}) \cup {"none"}
  BY <1>3, EndingsCovered DEF IInv, Types, LoopTypes
<1>5. produced \in Nat /\ produced' \in Nat BY <1>3 DEF IInv, Types, LoopTypes
<1>6. produced' >= produced
  <2>1. CASE receiveError \/ timeout
    <3>1. produced' = produced BY <2>1 DEF receiveError, timeout
    <3> QED BY <3>1, <1>5
  <2>2. ASSUME NEW n \in Nat, produced' = produced + n PROVE produced' >= produced
    BY <2>2, <1>5
  <2>3. CASE receiveChunk
    <3>1. MaxPerChunk \in Nat BY ConstantsAssumption
    <3>2. PICK n \in 0 .. MaxPerChunk : produced' = produced + n
      BY <2>3 DEF receiveChunk, Batch
    <3>3. n \in Nat BY <3>1
    <3> QED BY <3>2, <3>3, <2>2
  <2>4. CASE receiveClosed
    <3>1. PICK n \in 0 .. 1 : produced' = produced + n BY <2>4 DEF receiveClosed, Batch
    <3>2. n \in Nat OBVIOUS
    <3> QED BY <3>1, <3>2, <2>2
  <2> QED BY <2>1, <2>3, <2>4 DEF Select
<1>7. UNCHANGED << slot, client = "reading" /\ hostUp, delivered,
                   IF sink = "open" THEN "open" ELSE IF errMsg = "" THEN "ok" ELSE errMsg >>
  BY <1>1
<1> QED BY <1>2, <1>4, <1>5, <1>6, <1>7 DEF Promise!Produce

\* The deferred calls of streamLoop free the slot.
LEMMA UnwindRelays == IInv /\ Unwind => [Promise!Next]_(Promise!vars)
<1> SUFFICES ASSUME IInv, Unwind PROVE [Promise!Next]_(Promise!vars) OBVIOUS
<1>1. CASE unwindCancel \/ unwindClose
  <2>1. UNCHANGED seen
    BY <1>1 DEF unwindCancel, unwindClose, seen, pumpVars, envVars
  <2> QED BY <2>1, SameSeen
<1>2. CASE unwindRelease
  <2>1. lp = "release" /\ slot' = FALSE
        /\ UNCHANGED << produced, verdict, client, hostUp, delivered, sink, errMsg >>
    BY <1>2 DEF unwindRelease, pumpVars, envVars
  <2>2. slot /\ verdict # "none" BY <2>1 DEF IInv, LoopStage
  <2>3. Promise!Free BY <2>1, <2>2 DEF Promise!Free
  <2> QED BY <2>3 DEF Promise!Next
<1> QED BY <1>1, <1>2 DEF Unwind

\* The host call of the pump delivers the next message, or tells that the client left.
LEMMA EmitReturnsRelays == IInv /\ emitReturns => [Promise!Next]_(Promise!vars)
<1> SUFFICES ASSUME IInv, emitReturns PROVE [Promise!Next]_(Promise!vars) OBVIOUS
<1>1. UNCHANGED << produced, verdict, slot, client, hostUp, sink >>
  BY DEF emitReturns, loopVars, envVars
<1>2. hand # << >> /\ sink = "open" /\ errMsg = "" /\ pp = "calling"
  BY DEF emitReturns, IInv, PumpStage
<1>3. hand \in Seq(Nat) /\ Len(hand) <= 1 BY DEF IInv, Types, PumpTypes
<1>4. hand = << hand[1] >> /\ Len(hand) = 1 BY <1>2, <1>3, Single
<1>5. hand[1] = Len(delivered) + 1 /\ Len(delivered) < produced
  <2>1. hand[1] = produced - Len(queue) - Buffered BY <1>2 DEF IInv, Lines
  <2>2. Underway = produced BY <1>2 DEF IInv, Lines
  <2> QED BY <2>1, <2>2, <1>4, Counts DEF Underway
<1>6. CASE hostUp /\ client = "reading" /\ delivered' = delivered \o hand /\ UNCHANGED errMsg
  <2>1. delivered' = delivered \o << Len(delivered) + 1 >> BY <1>4, <1>5, <1>6
  <2>2. delivered \in Seq(Nat) BY DEF IInv, Types, PumpTypes
  <2>3. delivered' = Append(delivered, Len(delivered) + 1)
    <3>1. \A t \in Seq(Nat) : \A x \in Nat : t \o << x >> = Append(t, x) OBVIOUS
    <3>2. Len(delivered) + 1 \in Nat BY Counts
    <3> QED BY <2>1, <2>2, <3>1, <3>2, Zenon
  <2>4. UNCHANGED << produced, verdict, slot, client = "reading" /\ hostUp,
                     IF sink = "open" THEN "open" ELSE IF errMsg = "" THEN "ok" ELSE errMsg >>
    BY <1>1, <1>6
  <2>5. Promise!Deliver BY <1>2, <1>5, <1>6, <2>3, <2>4, Zenon DEF Promise!Deliver
  <2> QED BY <2>5 DEF Promise!Next
<1>7. CASE UNCHANGED delivered
  <2>1. UNCHANGED Promise!vars
    BY <1>1, <1>2, <1>7 DEF Promise!vars
  <2> QED BY <2>1
<1> QED BY <1>6, <1>7 DEF emitReturns

\* The pump's close is the promised one.
LEMMA CloseRelays == IInv /\ pumpClose => [Promise!Next]_(Promise!vars)
<1> SUFFICES ASSUME IInv, pumpClose PROVE [Promise!Next]_(Promise!vars) OBVIOUS
<1>1. pp = "closing" /\ sink' = (IF hostUp THEN "closed" ELSE sink)
      /\ UNCHANGED << produced, verdict, slot, client, hostUp, delivered, errMsg >>
  BY DEF pumpClose, loopVars, envVars
<1>2. sink = "open" /\ hand = << >> BY <1>1 DEF IInv, PumpStage
<1>3. errMsg \in Failures \cup {"", "emit failed"} BY DEF IInv, Types, PumpTypes
<1>4. CASE ~hostUp
  <2>1. UNCHANGED Promise!vars BY <1>1, <1>2, <1>4 DEF Promise!vars
  <2> QED BY <2>1
<1>5. ASSUME Left, errMsg # "emit failed", out = << >> PROVE Len(delivered) = produced
  <2>1. queue = << >> BY <1>5 DEF IInv, LoopStage, Left
  <2>2. Buffered = 0 BY <1>5 DEF Buffered
  <2>3. Len(queue) = 0 /\ Len(hand) = 0 BY <1>2, <2>1, EmptySeq
  <2>4. Underway = produced BY <1>5 DEF IInv, Lines
  <2> QED BY <2>2, <2>3, <2>4, Counts DEF Underway
<1>6. CASE hostUp /\ errMsg = ""
  <2>1. lp = "gone" /\ verdict = "ok" /\ out = << >> BY <1>1, <1>6 DEF IInv, PumpStage
  <2>2. Len(delivered) = produced
    <3>1. Left /\ errMsg # "emit failed" BY <2>1, <1>6 DEF Left
    <3> QED BY <3>1, <2>1, <1>5
  <2>3. ~slot BY <2>1 DEF IInv, LoopStage
  <2>4. sink' = "closed" /\ errMsg' = "" BY <1>1, <1>6
  <2>5. Promise!Close BY <1>1, <1>2, <2>1, <2>2, <2>3, <2>4 DEF Promise!Close
  <2> QED BY <2>5 DEF Promise!Next
<1>7. CASE hostUp /\ errMsg \in Failures
  <2>1. Left /\ errMsg = verdict /\ out = << >> BY <1>7 DEF IInv, PumpStage, Left
  <2>2. errMsg \notin {"", "emit failed", "ok", "none"} BY <1>7 DEF Failures
  <2>3. Len(delivered) = produced BY <2>1, <2>2, <1>5
  <2>4. sink' = "closed" /\ errMsg' = errMsg BY <1>1, <1>7
  <2>5. Promise!Close BY <1>1, <1>2, <2>1, <2>2, <2>3, <2>4 DEF Promise!Close
  <2> QED BY <2>5 DEF Promise!Next
<1>8. CASE hostUp /\ errMsg = "emit failed"
  <2>1. client # "reading" BY <1>8 DEF IInv, PumpStage
  <2>2. Underway < produced BY <1>8 DEF IInv, Lines
  <2>3. Len(delivered) < produced BY <2>2, Counts DEF Underway
  <2>4. sink' = "closed" /\ errMsg' = "emit failed" BY <1>1, <1>8
  <2>5. Promise!GiveUp BY <1>1, <1>2, <2>1, <2>3, <2>4 DEF Promise!GiveUp
  <2> QED BY <2>5 DEF Promise!Next
<1> QED BY <1>3, <1>4, <1>6, <1>7, <1>8

\* Whoever takes the client or the host away is the client that leaves.
LEMMA EnvRelays == IInv /\ Env => [Promise!Next]_(Promise!vars)
<1> SUFFICES ASSUME IInv, Env PROVE [Promise!Next]_(Promise!vars) OBVIOUS
<1>1. UNCHANGED << produced, verdict, slot, delivered, sink, errMsg >>
  BY DEF Env, clientLeaves, shutdown, loopVars, pumpVars
<1>2. ~(client' = "reading" /\ hostUp') BY DEF Env, clientLeaves, shutdown
<1>3. CASE client = "reading" /\ hostUp
  <2>1. Promise!Leave BY <1>1, <1>2, <1>3 DEF Promise!Leave
  <2> QED BY <2>1 DEF Promise!Next
<1>4. CASE ~(client = "reading" /\ hostUp)
  <2>1. UNCHANGED Promise!vars BY <1>1, <1>2, <1>4 DEF Promise!vars
  <2> QED BY <2>1
<1> QED BY <1>3, <1>4

\* Three goroutines, two channels, a timer and the host's calls behave like one source
\* and one client (abi.go:425-525, executor.go:389-485, pool.go:83-124).
THEOREM Relays == Spec => ImplementsRelay
<1>1. Init => Promise!Init BY RelayInit
<1>2. IInv /\ [Next]_vars => [Promise!Next]_(Promise!vars)
  <2> SUFFICES ASSUME IInv, [Next]_vars PROVE [Promise!Next]_(Promise!vars) OBVIOUS
  <2>1. CASE Reader \/ StdReader \/ timerFires \/ emit \/ emitErr
    <3>1. UNCHANGED seen
      BY <2>1 DEF Reader, StdReader, readerTop, readFails, readReportsError, readPayload,
                  readEmpty, stdRead, stdReadEnds, stdReadCancelled, stdSendCancelled,
                  timerFires, emit, emitErr, Emitting, seen, loopVars, pumpVars, envVars
    <3> QED BY <3>1, SameSeen
  <2>2. CASE pumpEnd
    <3>1. UNCHANGED seen BY <2>2 DEF pumpEnd, seen, loopVars, envVars
    <3> QED BY <3>1, SameSeen
  <2>3. CASE pumpTake
    <3>1. sink = "open" BY <2>3 DEF pumpTake, IInv, PumpStage
    <3>2. UNCHANGED << produced, verdict, slot, client, hostUp, delivered, sink >>
      BY <2>3 DEF pumpTake, loopVars, envVars
    <3>3. UNCHANGED Promise!vars BY <3>1, <3>2 DEF Promise!vars
    <3> QED BY <3>3
  <2>4. CASE UNCHANGED vars
    <3>1. UNCHANGED seen BY <2>4 DEF vars, seen
    <3> QED BY <3>1, SameSeen
  <2>5. CASE Select BY <2>5, SelectRelays
  <2>6. CASE Unwind BY <2>6, UnwindRelays
  <2>7. CASE emitReturns BY <2>7, EmitReturnsRelays
  <2>8. CASE pumpClose BY <2>8, CloseRelays
  <2>9. CASE Env BY <2>9, EnvRelays
  <2> QED
    BY <2>1, <2>2, <2>3, <2>4, <2>5, <2>6, <2>7, <2>8, <2>9 DEF Next, Pump, Finished
<1> QED BY <1>1, <1>2, Invariance, PTL DEF Spec, ImplementsRelay, Promise!Spec

=============================================================================
