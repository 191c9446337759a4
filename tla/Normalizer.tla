----------------------------- MODULE Normalizer -----------------------------
(***************************************************************************)
(* One upstream response read twice: by streamLoop and by                  *)
(* collectNonStream.  The bytes arrive in chunks that may end anywhere, so *)
(* a line is made of two halves and a newline; the newline of the last     *)
(* line may be missing.  Both readers keep the unfinished line in pending. *)
(***************************************************************************)
EXTENDS CCProtocol

CONSTANTS
  Scripts,    \* the responses considered: sequences of lines
  MaxChunk    \* bound: halves and newlines in one chunk

ASSUME ConstantsAssumption ==
  /\ MaxChunk \in Nat \ {0}
  /\ \A s \in Scripts : s \in Seq(Lines)

VARIABLES
  script,       \* the response
  terminated,   \* its last line ends in a newline
  sent,         \* how much of it has arrived
  closed,       \* the upstream has closed
  stream,       \* ccStreamState
  streamPending,
  stopped,      \* streamLoop has returned
  acc,          \* ccAccumulator
  accPending

vars == << script, terminated, sent, closed, stream, streamPending, stopped,
           acc, accPending >>

-----------------------------------------------------------------------------
NL == <<0, 0>>

\* The bytes of the response: <<i, 1>> and <<i, 2>> are the halves of line i.
Bytes ==
  LET all == [ k \in 1 .. 3 * Len(script) |->
                 IF k % 3 = 0 THEN NL ELSE <<(k + 2) \div 3, k % 3>> ]
  IN IF terminated \/ script = << >> THEN all ELSE Front(all)

\* The line some bytes amount to; a fragment is not JSON.
LineOf(bytes) ==
  IF \E i \in DOMAIN script : bytes = << <<i, 1>>, <<i, 2>> >>
  THEN script[bytes[1][1]] ELSE Junk

\* Mutant: only the first newline separates lines.
SplitFirstLine(bytes) ==
  FoldLeft(LAMBDA split, b : IF b = NL /\ split.lines = << >>
                             THEN [lines |-> << split.rest >>, rest |-> << >>]
                             ELSE [split EXCEPT !.rest = Append(@, b)],
           [lines |-> << >>, rest |-> << >>], bytes)

\* bytes.Split(pending, "\n"): the complete lines, and the rest.
SplitLines(bytes) ==
  FoldLeft(LAMBDA split, b : IF b = NL THEN [lines |-> Append(split.lines, split.rest), rest |-> << >>]
                             ELSE [split EXCEPT !.rest = Append(@, b)],
           [lines |-> << >>, rest |-> << >>], bytes)

\* The lines of a batch up to the first error event, which ends the stream.
ParseAll(s, lines) ==
  FoldLeft(LAMBDA st, line : IF st.upstreamError # << >> THEN st ELSE parseLine(st, line), s, lines)

FeedAll(a, lines) == FoldLeft(feed, a, lines)

Init ==
  /\ script \in Scripts
  /\ terminated \in BOOLEAN
  /\ sent = 0 /\ closed = FALSE
  /\ stream = newCCStreamState /\ streamPending = << >> /\ stopped = FALSE
  /\ acc = newCCAccumulator /\ accPending = << >>

\* Mutant: what follows the last newline of a chunk is forgotten.
KeptForgetful(rest) == << >>

Kept(rest) == rest

\* process of streamLoop and of collectNonStream.
processStream(pending) ==
  LET split == SplitLines(pending)
      s     == ParseAll(stream, [i \in DOMAIN split.lines |-> LineOf(split.lines[i])])
  IN /\ stream' = s
     /\ streamPending' = Kept(split.rest)
     /\ stopped' = (s.upstreamError # << >>)

processAcc(pending) ==
  LET split == SplitLines(pending)
  IN /\ acc' = FeedAll(acc, [i \in DOMAIN split.lines |-> LineOf(split.lines[i])])
     /\ accPending' = Kept(split.rest)

\* A chunk arrives at both readers; lines are only looked for when it has a newline.
chunk ==
  /\ ~closed
  /\ \E n \in 1..MaxChunk :
       /\ sent + n <= Len(Bytes)
       /\ sent' = sent + n
       /\ LET payload == SubSeq(Bytes, sent + 1, sent + n)
              newline == \E i \in DOMAIN payload : payload[i] = NL
          IN IF newline
             THEN /\ processAcc(accPending \o payload)
                  /\ IF stopped THEN UNCHANGED << stream, streamPending, stopped >>
                     ELSE processStream(streamPending \o payload)
             ELSE /\ accPending' = accPending \o payload
                  /\ streamPending' = IF stopped THEN streamPending ELSE streamPending \o payload
                  /\ UNCHANGED << acc, stream, stopped >>
  /\ UNCHANGED << script, terminated, closed >>

\* The upstream closes: streamLoop parses what is pending as a last line,
\* collectNonStream only looks for complete lines once more.
close ==
  /\ ~closed /\ sent = Len(Bytes)
  /\ closed' = TRUE
  /\ IF stopped THEN UNCHANGED << stream, streamPending, stopped >>
     ELSE /\ stream' = parseLine(stream, LineOf(streamPending))
          /\ stopped' = TRUE
          /\ UNCHANGED streamPending
  /\ processAcc(accPending)
  /\ UNCHANGED << script, terminated, sent >>

Finished == closed /\ UNCHANGED vars

Next == chunk \/ close \/ Finished

Spec == Init /\ [][Next]_vars

-----------------------------------------------------------------------------
\* Reference definitions: the response as a whole, however it was cut up.
StreamReference == ParseAll(newCCStreamState, script)
AccReference    == FeedAll(newCCAccumulator, script)

\* Every variable has its type, and nothing that is complete stays pending.
TypeOK ==
  /\ sent \in 0..Len(Bytes) /\ terminated \in BOOLEAN /\ closed \in BOOLEAN /\ stopped \in BOOLEAN
  /\ \A i \in DOMAIN streamPending : streamPending[i] # NL
  /\ \A i \in DOMAIN accPending : accPending[i] # NL
  /\ stream.chunkIndex \in Nat /\ stream.toolCallIndex \in 0..stream.chunkIndex
  /\ Len(stream.out) >= stream.chunkIndex
  /\ stream.upstreamError # << >> => stopped

\* Where the chunks happen to end changes nothing: at the end both readers have
\* seen exactly the response (the non-streaming one, if its last line is terminated).
CutsDoNotMatter ==
  closed => /\ stream = StreamReference
            /\ terminated => acc = AccReference

Positions(type) == {i \in DOMAIN script : script[i].type = type}

StepReasons == {i \in Positions("finish-step") : script[i].reason # ""}

\* A response as the upstream's SDK writes it: one finish, after which nothing
\* but junk comes, that repeats the reason of the last finish-step, if either
\* gives one; a connection failure is announced by a finish-step; at most one error.
\* What it leaves out is where the readers disagree: a response with a finish-step
\* and no finish is a 429 when streamed, as the output tokens are only counted at the
\* finish (protocol.go:169-180), and a success when collected (executor.go:302-309).
Disciplined ==
  /\ \A i, j \in Positions("error") : i = j
  /\ \E p \in DOMAIN script :
       /\ Positions("finish") = {p}
       /\ \A j \in DOMAIN script : j > p => script[j].type \in {"junk", "error"}
       /\ LET f == mapFinishReason(script[p].reason)
          IN IF StepReasons = {} THEN f # "upstream_error"
             ELSE script[p].reason # "" => f = mapFinishReason(script[Max(StepReasons)].reason)

\* Both paths report a disciplined response under the same status.
SameVerdict ==
  closed /\ terminated /\ Disciplined => streamVerdict(stream) = accumulatorVerdict(acc)

\* What the chunks of a kind carry, in order.
Texts(kind) ==
  FoldLeft(LAMBDA ts, c : IF c.kind = kind THEN Append(ts, c.text) ELSE ts, << >>, stream.out)

ToolTexts == LET ts == Texts("tool-call") IN [i \in DOMAIN ts |-> ts[i][2]]

\* The positions of the chunks of a kind among the first n.
OfKind(kind, n) == {i \in 1..n : stream.out[i].kind = kind}

\* What the chunks of a stream add up to is the message of the non-streaming
\* response: its text, its reasoning, its tool calls in order, its finish reason
\* and its usage.
SameMessage ==
  closed /\ terminated /\ Disciplined /\ Positions("error") = {} =>
    LET b == build(acc)
        f == stream.out[Max(OfKind("finish", Len(stream.out)))]
    IN /\ Texts("text-delta") = b.text /\ Texts("reasoning-delta") = b.thinking
       /\ ToolTexts = b.tools
       /\ f.finish = b.finish /\ f.usage = b.usage

\* The assistant role is announced once, by the first chunk with content, and tool
\* calls are numbered from 0 without gaps.
RoleOnce ==
  \A i \in DOMAIN stream.out :
    LET c == stream.out[i]
    IN /\ c.kind # "finish" => (c.role <=> OfKind("finish", i - 1) = 1 .. i - 1)
       /\ c.kind = "tool-call" => c.text[1] = Cardinality(OfKind("tool-call", i - 1))

\* A response the provider broke off is never a success when streamed, whichever of
\* its finish events says so last, and however much of it was delivered (violated:
\* parseLine only records the reason of a finish-step).
BrokenOffFails ==
  closed /\ acc.finishReason = "upstream_error" => streamVerdict(stream) # 0

=============================================================================
