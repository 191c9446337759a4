----------------------------- MODULE CCProtocol -----------------------------
(***************************************************************************)
(* The two consumers of the upstream's NDJSON events (protocol.go):        *)
(* ccStreamState.parseLine, which turns each line into OpenAI stream       *)
(* chunks, and ccAccumulator.feed, which gathers a whole response; and the *)
(* verdict each reaches when the upstream closes.                          *)
(*                                                                         *)
(* A line is a record: its event type, its text (a token, "" when empty),  *)
(* its finish reason as the upstream spells it, its usage (<<in, out,      *)
(* cached>>, or << >> when absent) and the status an error reports.        *)
(* Optional values are sequences of length at most 1.                      *)
(***************************************************************************)
EXTENDS CCErrors, SequencesExt

Line(type, text, reason, usage, code) ==
  [type |-> type, text |-> text, reason |-> reason, usage |-> usage, code |-> code]

Usages == Seq(Nat \X Nat \X Nat)

Lines == [type : STRING, text : STRING, reason : STRING, usage : Usages, code : Nat]

\* A line parseCCEvent refuses: blank, a comment, [DONE], or not an event object.
Junk == Line("junk", "", "", << >>, 0)

-----------------------------------------------------------------------------
\* ^(?:network|connection|upstream)[-_\s]?error$, with one space for any white space.
ProviderErrors ==
  {"networkerror", "network-error", "network_error", "network error",
   "connectionerror", "connection-error", "connection_error", "connection error",
   "upstreamerror", "upstream-error", "upstream_error", "upstream error"}

\* A reason stands for all its spellings: the code trims it and folds its case first.
mapFinishReason(reason) ==
  CASE reason = "" -> "stop"
    [] reason \in {"tool-calls", "tool_calls", "tool_use"} -> "tool_calls"
    [] reason \in {"length", "max_tokens", "max_output_tokens",
                   "model_context_window_exceeded"} -> "length"
    [] reason \in ProviderErrors -> "upstream_error"
    [] OTHER -> reason

toOpenAIFinishReason(reason) == IF reason = "pause_turn" THEN "length" ELSE reason

\* No output means that nothing is billed as input either.
normalizeUsage(usage) ==
  IF usage = << >> THEN << >>
  ELSE IF usage[1][2] = 0 THEN << <<0, 0, 0>> >> ELSE usage

outputTokensOf(usage) == IF usage = << >> THEN 0 ELSE normalizeUsage(usage)[1][2]

\* openAIUsage: prompt, completion and cached tokens.
openAIUsage(usage) == IF usage = << >> THEN <<0, 0, 0>> ELSE usage[1]

\* The error of an event of type "error".
mapCCEventError(line) == << mappedCCStatus(line.code) >>

-----------------------------------------------------------------------------
\* ccStreamState.  out collects the chunks parseLine returned.

newCCStreamState ==
  [sawFinish |-> FALSE, chunkIndex |-> 0, toolCallIndex |-> 0, finishReason |-> "",
   usage |-> << >>, outputTokens |-> 0, upstreamError |-> << >>, out |-> << >>]

makeChunk(kind, text, role, finish, usage) ==
  [kind |-> kind, text |-> text, role |-> role, finish |-> finish, usage |-> usage]

streamContent(s, line) ==
  [s EXCEPT !.chunkIndex = @ + 1,
            !.out = Append(@, makeChunk(line.type, line.text, s.chunkIndex = 0, "", <<0, 0, 0>>))]

\* Mutant: a tool call does not count as a chunk, so a later one carries the role again.
streamToolCallUncounted(s, line) ==
  [s EXCEPT !.toolCallIndex = @ + 1,
            !.out = Append(@, makeChunk("tool-call", <<s.toolCallIndex, line.text>>,
                                        s.chunkIndex = 0, "", <<0, 0, 0>>))]

streamToolCall(s, line) ==
  [s EXCEPT !.chunkIndex = @ + 1, !.toolCallIndex = @ + 1,
            !.out = Append(@, makeChunk("tool-call", <<s.toolCallIndex, line.text>>,
                                        s.chunkIndex = 0, "", <<0, 0, 0>>))]

streamFinishStep(s, line) ==
  [s EXCEPT !.sawFinish = TRUE,
            !.finishReason = IF line.reason # "" THEN mapFinishReason(line.reason) ELSE @,
            !.usage = IF line.usage # << >> THEN line.usage ELSE @]

streamFinish(s, line) ==
  LET reason == IF s.finishReason # "" THEN s.finishReason ELSE mapFinishReason(line.reason)
      usage  == normalizeUsage(IF line.usage # << >> THEN line.usage ELSE s.usage)
  IN [s EXCEPT !.sawFinish = TRUE, !.usage = usage, !.outputTokens = outputTokensOf(usage),
               !.out = Append(@, makeChunk("finish", "", FALSE, toOpenAIFinishReason(reason),
                                           openAIUsage(usage)))]

parseLine(s, line) ==
  CASE line.type = "error" -> [s EXCEPT !.upstreamError = mapCCEventError(line)]
    [] line.type \in {"text-delta", "reasoning-delta"} /\ line.text # "" -> streamContent(s, line)
    [] line.type = "tool-call"   -> streamToolCall(s, line)
    [] line.type = "finish-step" -> streamFinishStep(s, line)
    [] line.type = "finish"      -> streamFinish(s, line)
    [] OTHER -> s

\* The checks of streamLoop at the end of the upstream: 0 for success, else the status.
streamVerdict(s) ==
  IF s.upstreamError # << >> THEN s.upstreamError[1]
  ELSE IF ~s.sawFinish \/ s.finishReason = "upstream_error" THEN 502
  ELSE IF s.outputTokens = 0 THEN 429 ELSE 0

-----------------------------------------------------------------------------
\* ccAccumulator.

newCCAccumulator ==
  [fullText |-> << >>, thinkingText |-> << >>, toolCalls |-> << >>, finishReason |-> "stop",
   sawFinish |-> FALSE, usage |-> << >>, upstreamError |-> << >>]

\* Mutant: the last delta replaces the text.
AppendedLast(text, more) == IF more = "" THEN text ELSE << more >>

Appended(text, more) == IF more = "" THEN text ELSE Append(text, more)

feed(a, line) ==
  CASE line.type = "error" -> [a EXCEPT !.upstreamError = mapCCEventError(line)]
    [] line.type = "text-delta" -> [a EXCEPT !.fullText = Appended(@, line.text)]
    [] line.type = "reasoning-delta" -> [a EXCEPT !.thinkingText = Appended(@, line.text)]
    [] line.type = "tool-call" -> [a EXCEPT !.toolCalls = Append(@, line.text)]
    [] line.type \in {"finish-step", "finish"} ->
         [a EXCEPT !.sawFinish = TRUE,
                   !.finishReason = IF line.reason # "" THEN mapFinishReason(line.reason) ELSE @,
                   !.usage = IF line.usage # << >> THEN line.usage ELSE @]
    [] OTHER -> a

\* Mutant: the zero-output guard looks at whether there is a usage at all.
accumulatorVerdictAnyUsage(a) ==
  IF a.upstreamError # << >> THEN a.upstreamError[1]
  ELSE IF ~a.sawFinish \/ a.finishReason = "upstream_error" THEN 502
  ELSE IF a.usage = << >> THEN 429 ELSE 0

\* finishNonStream.
accumulatorVerdict(a) ==
  IF a.upstreamError # << >> THEN a.upstreamError[1]
  ELSE IF ~a.sawFinish \/ a.finishReason = "upstream_error" THEN 502
  ELSE IF outputTokensOf(a.usage) = 0 THEN 429 ELSE 0

\* The message, the finish reason and the usage of build.
build(a) ==
  [text |-> a.fullText, thinking |-> a.thinkingText, tools |-> a.toolCalls,
   finish |-> toOpenAIFinishReason(a.finishReason), usage |-> openAIUsage(normalizeUsage(a.usage))]

=============================================================================
