----------------------------- MODULE StreamRelay -----------------------------
(***************************************************************************)
(* One streamed response on its way through the plugin:                    *)
(*                                                                         *)
(*   host HTTP stream -> readHostHTTPStream \                              *)
(*   proxied response -> stdDoer.doStream   / -> streamLoop                *)
(*                                -> pumpABIStream -> host client sink     *)
(*                                                                         *)
(* Three goroutines, an unbuffered channel between the first two, a        *)
(* channel of capacity 1 between the last two, an idle timer in the middle *)
(* and blocking host calls at both ends.  The context is                   *)
(* context.Background() (abi.go:201), so it is only ever cancelled by      *)
(* streamLoop's own deferred cancel: the waits on ctx.Done inside the loop *)
(* and in the pump are never taken, the ones of the readers are.           *)
(*                                                                         *)
(* Payloads are numbered in the order streamLoop produces them; what they  *)
(* say is in CCProtocol.                                                   *)
(***************************************************************************)
EXTENDS Integers, Sequences

CONSTANTS
  MaxReads,     \* bound: payload reads the host stream answers
  MaxPerChunk,  \* bound: payloads one upstream chunk may turn into
  Readers,      \* kinds of upstream: "host" and "proxy"
  Faults        \* what may go wrong: a subset of {"abort", "stall", "shutdown"}

ASSUME ConstantsAssumption ==
  /\ MaxReads \in Nat /\ MaxPerChunk \in Nat
  /\ Readers \subseteq {"host", "proxy"}
  /\ Faults \subseteq {"abort", "stall", "shutdown"}

VARIABLES
  client,   \* the caller behind the host's sink
  hostUp,   \* abiState.host is set
  upstream, \* the HTTP stream being read: open, ended by itself, closed by the plugin
  reads,    \* payload reads answered so far
  rd,       \* the reader: "std" is the wait of a proxied one for its body
  onward,   \* where the reader goes once the chunk in its hand is received
  via,      \* the reader: of the host's stream, or of a proxied key's own client
  ctxDone,  \* streamLoop has cancelled its context
  lp,       \* streamLoop
  queue,    \* payloads of the current line batch still to be emitted
  after,    \* what the loop does once the queue is empty
  fired,    \* timer.C is ready
  verdict,  \* how streamLoop ended
  slot,     \* the in-flight slot is held
  out,      \* the channel of capacity 1
  outClosed,
  pp,       \* pumpABIStream
  hand,     \* the payload of its host call
  errMsg,   \* errorMessage
  sink,     \* the host stream of the client
  delivered,\* payloads the client was given
  produced  \* number of payloads streamLoop has produced

vars == << client, hostUp, upstream, reads, rd, onward, via, ctxDone, lp, queue, after,
           fired, verdict, slot, out, outClosed, pp, hand, errMsg, sink,
           delivered, produced >>

readerVars == << upstream, reads, rd, onward, via >>
loopVars   == << lp, queue, after, fired, verdict, slot, ctxDone, produced >>
chanVars   == << out, outClosed >>
pumpVars   == << pp, hand, errMsg, sink, delivered >>
envVars    == << client, hostUp >>

-----------------------------------------------------------------------------
ErrItem == 0     \* the chunk with Err set; payloads are 1, 2, ...
Verdicts == {"ok", "upstream error", "incomplete", "empty"}

Init ==
  /\ client = "reading" /\ hostUp = TRUE
  /\ upstream = "open" /\ reads = 0 /\ via \in Readers /\ onward = "done"
  /\ rd = (IF via = "host" THEN "top" ELSE "std")
  /\ ctxDone = FALSE /\ lp = "select" /\ queue = << >> /\ after = "select"
  /\ fired = FALSE /\ verdict = "none" /\ slot = TRUE
  /\ out = << >> /\ outClosed = FALSE
  /\ pp = "select" /\ hand = << >> /\ errMsg = "" /\ sink = "open"
  /\ delivered = << >> /\ produced = 0

-----------------------------------------------------------------------------
\* readHostHTTPStream.

closeHostHTTPStream ==
  upstream' = IF hostUp /\ upstream = "open" THEN "closed" ELSE upstream

\* Mutant: the reader leaves without closing the stream it was reading.
readerTopForgets ==
  /\ rd = "top"
  /\ rd' = IF ctxDone THEN "done" ELSE "reading"
  /\ UNCHANGED << upstream, reads, onward, via, loopVars, chanVars, pumpVars, envVars >>

readerTop ==
  /\ rd = "top"
  /\ IF ctxDone
     THEN closeHostHTTPStream /\ rd' = "done"
     ELSE rd' = "reading" /\ UNCHANGED upstream
  /\ UNCHANGED << reads, onward, via, loopVars, chanVars, pumpVars, envVars >>

\* The host call of a read fails: the stream is closed and the error passed on.
readFails ==
  /\ rd = "reading"
  /\ closeHostHTTPStream
  /\ rd' = "sendErr"
  /\ UNCHANGED << reads, onward, via, loopVars, chanVars, pumpVars, envVars >>

\* The upstream broke off: the host has ended the stream itself.
readReportsError ==
  /\ rd = "reading" /\ hostUp
  /\ upstream' = "ended"
  /\ rd' = "sendErr"
  /\ UNCHANGED << reads, onward, via, loopVars, chanVars, pumpVars, envVars >>

readPayload ==
  /\ rd = "reading" /\ hostUp /\ reads < MaxReads
  /\ \E done \in BOOLEAN :
       /\ onward' = IF done THEN "done" ELSE "top"
       /\ upstream' = IF done THEN "ended" ELSE upstream
  /\ reads' = reads + 1
  /\ rd' = "send"
  /\ UNCHANGED << via, loopVars, chanVars, pumpVars, envVars >>

\* A read without payload: the end of the stream, or nothing yet.
readEmpty ==
  /\ rd = "reading" /\ hostUp
  /\ \/ rd' = "top" /\ UNCHANGED upstream
     \/ rd' = "done" /\ upstream' = "ended"
  /\ UNCHANGED << reads, onward, via, loopVars, chanVars, pumpVars, envVars >>

-----------------------------------------------------------------------------
\* The goroutine of stdDoer.doStream, for a key with a proxy_url: it reads the body
\* itself, and its request, its reads and its sends all end with the context.

\* Its deferred calls: the body is closed, then the channel.
BodyClosed == upstream' = IF upstream = "open" THEN "closed" ELSE upstream

\* The chunk or the error in the hand of either reader is received.
Received(to) ==
  /\ rd' = to
  /\ IF via = "proxy" /\ to = "done" THEN BodyClosed ELSE UNCHANGED upstream

\* Read gives bytes, with an end (any error that says EOF), an error or neither.
stdRead ==
  /\ rd = "std" /\ reads < MaxReads
  /\ \E to \in {"std", "sendErr", "done"} :
       /\ onward' = to
       /\ upstream' = IF to = "done" THEN "ended" ELSE upstream
  /\ reads' = reads + 1
  /\ rd' = "send"
  /\ UNCHANGED << via, loopVars, chanVars, pumpVars, envVars >>

\* Read gives no bytes: the end or an error.
stdReadEnds ==
  /\ rd = "std"
  /\ \/ rd' = "done" /\ upstream' = "ended"
     \/ rd' = "sendErr" /\ UNCHANGED upstream
  /\ UNCHANGED << reads, onward, via, loopVars, chanVars, pumpVars, envVars >>

\* The context is done: a read that waits fails.
stdReadCancelled ==
  /\ rd = "std" /\ ctxDone
  /\ rd' = "sendErr"
  /\ UNCHANGED << upstream, reads, onward, via, loopVars, chanVars, pumpVars, envVars >>

\* Mutant: the sends do not look at the context.
stdSendCancelledNever == FALSE /\ UNCHANGED vars

\* The context is done: a send is given up.
stdSendCancelled ==
  /\ via = "proxy" /\ rd \in {"send", "sendErr"} /\ ctxDone
  /\ rd' = "done"
  /\ BodyClosed
  /\ UNCHANGED << reads, onward, via, loopVars, chanVars, pumpVars, envVars >>

-----------------------------------------------------------------------------
\* streamLoop.

\* Where the loop is with these payloads to emit, and this to do afterwards.
Emitting(items, then) ==
  /\ queue' = items
  /\ after' = then
  /\ lp' = IF items = << >> THEN then ELSE "emit"

\* Mutant: the payloads of a batch that ends in an error event are dropped.
BatchAfterErrorDropped(n, then) ==
  /\ produced' = produced + n
  /\ queue' = IF then = "emitErr" THEN << >> ELSE [i \in 1..n |-> produced + i]
  /\ after' = then
  /\ lp' = IF n = 0 \/ then = "emitErr" THEN then ELSE "emit"

\* The lines completed by a chunk turn into n payloads, then into what follows.
Batch(n, then) ==
  /\ produced' = produced + n
  /\ Emitting([i \in 1..n |-> produced + i], then)

\* The chunk in the reader's hand meets the loop in its select: the timer is
\* restarted, complete lines are parsed, an error event stops after its payloads.
receiveChunk ==
  /\ lp = "select" /\ rd = "send"
  /\ Received(onward)
  /\ fired' = FALSE
  /\ \E n \in 0..MaxPerChunk :
       \/ Batch(n, "select") /\ UNCHANGED verdict
       \/ Batch(n, "emitErr") /\ verdict' = "upstream error"
  /\ UNCHANGED << reads, onward, via, slot, ctxDone, chanVars, pumpVars, envVars >>

receiveError ==
  /\ lp = "select" /\ rd = "sendErr"
  /\ Received("done")
  /\ lp' = "emitErr"
  /\ verdict' = "read error"
  /\ UNCHANGED << reads, onward, via, queue, after, fired, slot, ctxDone,
                  produced, chanVars, pumpVars, envVars >>

\* The reader has closed its channel: the unterminated last line is parsed, then
\* the checks for error, completeness and output decide.
receiveClosed ==
  /\ lp = "select" /\ rd = "done"
  /\ \E n \in 0..1, v \in Verdicts :
       /\ verdict' = v
       /\ Batch(n, IF v = "ok" THEN "cancel" ELSE "emitErr")
  /\ UNCHANGED << fired, slot, ctxDone, readerVars, chanVars, pumpVars, envVars >>

\* The timer expires while the loop waits for the upstream or is held up in emit
\* by a full channel and a host call that takes its time.  (A loop that waits with
\* a chunk on offer takes it long before a whole idle period is over.)
timerFires ==
  /\ ~fired
  /\ \/ lp = "select" /\ rd \in {"top", "reading", "std"}
     \/ lp = "emit" /\ Len(out) = 1 /\ pp = "calling"
  /\ fired' = TRUE
  /\ UNCHANGED << lp, queue, after, verdict, slot, ctxDone, produced,
                  readerVars, chanVars, pumpVars, envVars >>

\* Mutant: the streaming loop's timer case is missing.
timeoutNever == FALSE /\ UNCHANGED vars

timeout ==
  /\ lp = "select" /\ fired
  /\ lp' = "emitErr"
  /\ verdict' = "timeout"
  /\ UNCHANGED << queue, after, fired, slot, ctxDone, produced,
                  readerVars, chanVars, pumpVars, envVars >>

\* Mutant: a channel of capacity 2.
RoomForTwo == Len(out) < 2

Room == Len(out) < 1

emit ==
  /\ lp = "emit" /\ Room
  /\ out' = Append(out, Head(queue))
  /\ Emitting(Tail(queue), after)
  /\ UNCHANGED << fired, verdict, slot, ctxDone, produced, outClosed,
                  readerVars, pumpVars, envVars >>

\* Mutant: the verdict is not passed on.
emitErrSilently ==
  /\ lp = "emitErr" /\ Room
  /\ lp' = "cancel"
  /\ UNCHANGED << queue, after, fired, verdict, slot, ctxDone, produced,
                  chanVars, readerVars, pumpVars, envVars >>

emitErr ==
  /\ lp = "emitErr" /\ Room
  /\ out' = Append(out, ErrItem)
  /\ lp' = "cancel"
  /\ UNCHANGED << queue, after, fired, verdict, slot, ctxDone, produced,
                  outClosed, readerVars, pumpVars, envVars >>

\* The deferred calls, last in first out: cancel, release the slot, close(out).
unwindCancel ==
  /\ lp = "cancel"
  /\ lp' = "release" /\ ctxDone' = TRUE
  /\ UNCHANGED << queue, after, fired, verdict, slot, produced,
                  chanVars, readerVars, pumpVars, envVars >>

\* Mutant: the slot is released by the last deferred call, after close(out).
unwindReleaseLate ==
  /\ lp = "release"
  /\ \/ ~outClosed /\ outClosed' = TRUE /\ UNCHANGED << lp, slot >>
     \/ outClosed /\ lp' = "gone" /\ slot' = FALSE /\ UNCHANGED outClosed
  /\ UNCHANGED << queue, after, fired, verdict, ctxDone, produced, out,
                  readerVars, pumpVars, envVars >>

unwindRelease ==
  /\ lp = "release"
  /\ lp' = "close" /\ slot' = FALSE
  /\ UNCHANGED << queue, after, fired, verdict, ctxDone, produced,
                  chanVars, readerVars, pumpVars, envVars >>

unwindClose ==
  /\ lp = "close"
  /\ lp' = "gone" /\ outClosed' = TRUE
  /\ UNCHANGED << queue, after, fired, verdict, slot, ctxDone, produced, out,
                  readerVars, pumpVars, envVars >>

-----------------------------------------------------------------------------
\* pumpABIStream.

pumpTake ==
  /\ pp = "select" /\ out # << >>
  /\ out' = Tail(out)
  /\ IF Head(out) = ErrItem
     THEN pp' = "closing" /\ errMsg' = verdict /\ UNCHANGED hand
     ELSE pp' = "calling" /\ hand' = << Head(out) >> /\ UNCHANGED errMsg
  /\ UNCHANGED << sink, delivered, outClosed, readerVars, loopVars, envVars >>

\* Mutant: the end is seen before the channel is empty.
pumpEndEarly ==
  /\ pp = "select" /\ outClosed
  /\ pp' = "closing"
  /\ UNCHANGED << hand, errMsg, sink, delivered, chanVars, readerVars, loopVars, envVars >>

pumpEnd ==
  /\ pp = "select" /\ out = << >> /\ outClosed
  /\ pp' = "closing"
  /\ UNCHANGED << hand, errMsg, sink, delivered, chanVars, readerVars, loopVars, envVars >>

\* host.stream.emit returns: at once when the host is gone, never for a client
\* that has stalled.
emitReturns ==
  /\ pp = "calling"
  /\ hand' = << >>
  /\ \/ /\ hostUp /\ client = "reading"
        /\ delivered' = delivered \o hand /\ pp' = "select" /\ UNCHANGED errMsg
     \/ /\ ~hostUp \/ client = "gone"
        /\ errMsg' = "emit failed" /\ pp' = "closing" /\ UNCHANGED delivered
  /\ UNCHANGED << sink, chanVars, readerVars, loopVars, envVars >>

\* The deferred host.stream.close.
pumpClose ==
  /\ pp = "closing"
  /\ pp' = "gone"
  /\ sink' = IF hostUp THEN "closed" ELSE sink
  /\ UNCHANGED << hand, errMsg, delivered, chanVars, readerVars, loopVars, envVars >>

-----------------------------------------------------------------------------
\* The environment: the client disconnects or stops reading, the host unloads the
\* plugin (CommandCodePluginShutdown).

clientLeaves(how, why) ==
  /\ why \in Faults /\ client = "reading"
  /\ client' = how
  /\ UNCHANGED << hostUp, readerVars, loopVars, chanVars, pumpVars >>

shutdown ==
  /\ "shutdown" \in Faults /\ hostUp
  /\ hostUp' = FALSE
  /\ UNCHANGED << client, readerVars, loopVars, chanVars, pumpVars >>

\* Nothing is left to do.
Finished == lp = "gone" /\ pp = "gone" /\ UNCHANGED vars

Reader == readerTop \/ readFails \/ readReportsError \/ readPayload \/ readEmpty
StdReader == stdRead \/ stdReadEnds \/ stdReadCancelled \/ stdSendCancelled
Select == receiveChunk \/ receiveError \/ receiveClosed \/ timeout
Unwind == unwindCancel \/ unwindRelease \/ unwindClose
Pump   == pumpTake \/ pumpEnd \/ emitReturns \/ pumpClose
Env    == clientLeaves("gone", "abort") \/ clientLeaves("stalled", "stall") \/ shutdown

Next == Reader \/ StdReader \/ Select \/ timerFires \/ emit \/ emitErr \/ Unwind
          \/ Pump \/ Env \/ Finished

Spec == Init /\ [][Next]_vars

\* Goroutines are scheduled, a ready select case is taken, a timer that is not
\* reset fires, and host calls return as far as emitReturns lets them.  A read
\* that waits for the upstream need not return.
FairSpec ==
  /\ Spec
  /\ WF_vars(readerTop) /\ WF_vars(stdReadCancelled) /\ WF_vars(stdSendCancelled)
  /\ WF_vars(Select) /\ WF_vars(timerFires)
  /\ WF_vars(emit) /\ WF_vars(emitErr) /\ WF_vars(Unwind)
  /\ WF_vars(pumpTake \/ pumpEnd) /\ WF_vars(emitReturns) /\ WF_vars(pumpClose)

-----------------------------------------------------------------------------
Numbers(n) == [i \in 1..n |-> i]

\* Every variable has its type, and the channel its capacity.
TypeOK ==
  /\ client \in {"reading", "gone", "stalled"} /\ hostUp \in BOOLEAN
  /\ upstream \in {"open", "ended", "closed"} /\ reads \in 0..MaxReads
  /\ rd \in {"top", "reading", "std", "send", "sendErr", "done"} /\ via \in Readers
  /\ onward \in {"top", "std", "sendErr", "done"}
  /\ lp \in {"select", "emit", "emitErr", "cancel", "release", "close", "gone"}
  /\ queue \in Seq(1..produced) /\ after \in {"select", "emitErr", "cancel"}
  /\ lp = "emit" <=> queue # << >>
  /\ fired \in BOOLEAN /\ ctxDone \in BOOLEAN /\ slot \in BOOLEAN
  /\ verdict \in Verdicts \cup {"none", "read error", "timeout"}
  /\ Len(out) <= 1 /\ out \in Seq({ErrItem} \cup 1..produced) /\ outClosed \in BOOLEAN
  /\ pp \in {"select", "calling", "closing", "gone"}
  /\ hand \in Seq(1..produced) /\ delivered \in Seq(1..produced)
  /\ sink \in {"open", "closed"}
  /\ errMsg \in Verdicts \cup {"", "read error", "timeout", "emit failed"}

\* Nothing streamLoop produced is lost, duplicated or reordered on its way, for
\* as long as the host accepts payloads: what was delivered, what the pump holds,
\* what is buffered and what is still queued is 1, 2, ..., produced.
NothingLost ==
  errMsg # "emit failed" =>
    LET buffered == IF out = << ErrItem >> THEN << >> ELSE out
    IN delivered \o hand \o buffered \o queue = Numbers(produced)

\* The client's stream is closed without an error only after a complete response,
\* delivered to the last payload; otherwise with streamLoop's own verdict: a
\* truncated stream never looks like a finished one.
CloseTellsTheTruth ==
  sink = "closed" =>
    /\ errMsg = "" => verdict = "ok" /\ delivered = Numbers(produced)
    /\ errMsg \notin {"", "emit failed"} =>
          errMsg = verdict /\ delivered = Numbers(produced)

\* Every exit of the reader leaves the host's HTTP stream ended by the upstream or
\* closed by the plugin, unless the host was taken away first; the body that a key's
\* own client reads is closed even then.
NoAbandonedStream == rd = "done" /\ (hostUp \/ via = "proxy") => upstream # "open"

\* When streamLoop has given up, by its watchdog or on an error event, the reader of a
\* proxied key follows it out, wherever it is (pool.go:106-121).
ProxiedReaderEnds == (via = "proxy" /\ ctxDone) ~> (rd = "done")

\* A client that sees its stream end well finds the slot free for its next
\* request: the order of the deferred calls of streamLoop (executor.go:396-398).
SlotFreeAfterSuccess == sink = "closed" /\ errMsg = "" => ~slot

\* Relay is what the client may rely on: the pipeline implements it, with the sink's
\* close as the end and the host's absence as a client that has left.
Promise == INSTANCE Relay WITH
  Endings <- Verdicts \cup {"read error", "timeout"}, GaveUp <- "emit failed",
  sent <- produced, ending <- verdict, there <- client = "reading" /\ hostUp,
  got <- delivered,
  closed <- IF sink = "open" THEN "open" ELSE IF errMsg = "" THEN "ok" ELSE errMsg

\* The three goroutines behave like one source and one client: messages arrive in
\* order, the reason of the end is decided once and told after the last message, and
\* only a client that left is closed before it (abi.go:485-525, executor.go:389-485).
ImplementsRelay == Promise!Spec

\* The stream ends, its slot is released and the pump is gone, however long the
\* upstream is silent, unless the client leaves or the host goes away first (see
\* AbortFreesSlot for what happens then).
StreamEnds == <>(client # "reading" \/ ~hostUp \/ (pp = "gone" /\ lp = "gone" /\ ~slot))

\* A client that disconnects frees its slot (violated: the pump leaves and nobody
\* drains streamLoop or cancels its context).
AbortFreesSlot == (client = "gone") ~> ~slot

=============================================================================
