---------------------------- MODULE Conversation ----------------------------
(***************************************************************************)
(* The loop a coding agent is in: the upstream answers (Normalizer), the   *)
(* client keeps the answer, runs the tools it calls and sends the whole    *)
(* history again, in the format it speaks; the plugin translates it        *)
(* (RequestTranslation), and the upstream answers the translation.         *)
(*                                                                         *)
(* The client is not part of the repository: it keeps what it is sent and  *)
(* writes it in its format's own way.  Its history is a sequence of turns. *)
(* What it opened with is left open until its second request.              *)
(***************************************************************************)
EXTENDS Normalizer, RequestTranslation

CONSTANTS
  CallOf,      \* the identifier, or "", and the tool of a tool call's token
  Openings,    \* first requests: system text, question and parameters
  FollowUps,   \* responses to later requests
  MaxTurns     \* bound: answers the client replies to

ASSUME ConversationAssumption ==
  MaxTurns \in Nat /\ \A s \in FollowUps : s \in Seq(Lines)

\* The tokens of the tool calls in the responses considered.
Called ==
  UNION { {line.text : line \in {e \in ToSet(s) : e.type = "tool-call"}} : s \in Scripts \cup FollowUps }

\* A call names a tool, and the upstream gives no identifier to calls of two tools.
ASSUME CallsAssumption ==
  \A t \in Called :
    /\ CallOf[t].name # ""
    /\ \A u \in Called : CallOf[t].id # "" /\ CallOf[u].id = CallOf[t].id =>
         CallOf[u].name = CallOf[t].name

VARIABLES
  format,    \* the client's format, "" before its second request
  opening,   \* what it opened with
  history,   \* its turns since
  turn,      \* the number of the response
  replied    \* the client has sent its next request

talk == << format, opening, history, turn, replied >>

allVars == << vars, talk >>

-----------------------------------------------------------------------------
\* Turns: what the user or the system says, an answer, the result of a tool.
UserTurn(parts) == [kind |-> "user", parts |-> parts, answer |-> << >>, id |-> NoId]
SystemTurn(text) == [UserTurn(<< Text(text, FALSE) >>) EXCEPT !.kind = "system"]
AnswerTurn(answer) == [UserTurn(<< >>) EXCEPT !.kind = "answer", !.answer = << answer >>]
ResultTurn(id, output) ==
  [UserTurn(<< Text(output, FALSE) >>) EXCEPT !.kind = "result", !.id = id]

\* The identifier of a tool call: the upstream's, or one made of the clock and, in a
\* stream, of the call's index.  The clock moves on from one response to the next, but
\* not between two calls of a response.
callID(token, index) ==
  IF CallOf[token].id # "" THEN << CallOf[token].id, 0, 0 >> ELSE <<"", turn, index>>

Call(id, token) == Part("tool_use", << >>, FALSE, id, CallOf[token].name)

\* What the chunks of a stream add up to.
streamedAnswer ==
  LET tools == Texts("tool-call")
  IN [thinking |-> Texts("reasoning-delta"), text |-> Texts("text-delta"),
      calls |-> [i \in DOMAIN tools |-> Call(callID(tools[i][2], tools[i][1] + 1), tools[i][2])],
      streamed |-> TRUE]

\* The message of a collected response.
collectedAnswer ==
  LET b == build(acc)
  IN [thinking |-> b.thinking, text |-> b.text,
      calls |-> [i \in DOMAIN b.tools |-> Call(callID(b.tools[i], 0), b.tools[i])],
      streamed |-> FALSE]

-----------------------------------------------------------------------------
\* The formats, as clients write them.

OpenAIMessage(t) ==
  CASE t.kind \in {"user", "system"} ->
         Message(t.kind, [i \in DOMAIN t.parts |->
           IF t.parts[i].type = "image" THEN [t.parts[i] EXCEPT !.type = "image_url"]
           ELSE t.parts[i]])
    [] t.kind = "answer" ->
         LET a == t.answer[1]
         IN [Message("assistant", IF a.text = << >> THEN << >> ELSE << Text(a.text, FALSE) >>)
               EXCEPT !.reasoning_content = a.thinking, !.tool_calls = a.calls]
    [] t.kind = "result" -> ToolMessage(t.id, "", t.parts[1].text)

OpenAIRequest(o, turns) ==
  [messages |-> (IF o.system = << >> THEN << >> ELSE << Message("system", o.system) >>)
                \o [i \in DOMAIN turns |-> OpenAIMessage(turns[i])],
   max_tokens |-> o.max_tokens, tools |-> o.tools, tool_choice |-> o.tool_choice,
   reasoning_effort |-> o.effort, prompt_cache_key |-> o.cacheKey]

\* Anthropic: an answer is a list of blocks; the results of its calls and what the user
\* says next are one message of the user.
AnthropicBlocks(t) ==
  CASE t.kind = "answer" ->
         LET a == t.answer[1]
         IN (IF a.thinking = << >> THEN << >>
             ELSE << Part("thinking", a.thinking, FALSE, NoId, "") >>)
            \o (IF a.text = << >> THEN << >> ELSE << Text(a.text, FALSE) >>) \o a.calls
    [] t.kind = "result" -> << Part("tool_result", t.parts[1].text, FALSE, t.id, "") >>
    [] OTHER -> t.parts

AnthropicTurn(messages, t) ==
  LET role == IF t.kind = "answer" THEN "assistant" ELSE "user"
  IN IF messages # << >> /\ Last(messages).role = role
     THEN [messages EXCEPT ![Len(messages)].content = @ \o AnthropicBlocks(t)]
     ELSE Append(messages, [role |-> role, content |-> AnthropicBlocks(t)])

AnthropicChoice(choice) ==
  CASE choice.type = "required" -> [choice EXCEPT !.type = "any"]
    [] choice.type = "function" -> [choice EXCEPT !.type = "tool"]
    [] OTHER -> choice

AnthropicRequest(o, turns) ==
  [system |-> o.system, messages |-> FoldLeft(AnthropicTurn, << >>, turns),
   max_tokens |-> o.max_tokens, tools |-> o.tools, tool_choice |-> AnthropicChoice(o.tool_choice),
   thinking |-> [type |-> IF o.effort = "" THEN "" ELSE "adaptive", effort |-> o.effort,
                 budget |-> 0]]

\* Responses: a flat list of items.
ResponsesItems(t) ==
  CASE t.kind = "answer" ->
         LET a == t.answer[1]
         IN << Part("reasoning", a.thinking, FALSE, NoId, ""),
               Part("message", a.text, FALSE, NoId, "assistant") >>
            \o [i \in DOMAIN a.calls |-> [a.calls[i] EXCEPT !.type = "function_call"]]
    [] t.kind = "result" -> << Part("function_call_output", t.parts[1].text, FALSE, t.id, "") >>
    [] OTHER -> << Part("message", Joined(t.parts), FALSE, NoId, t.kind) >>

ResponsesRequest(o, turns) ==
  [instructions |-> Joined(o.system),
   input |-> FlattenSeq([i \in DOMAIN turns |-> ResponsesItems(turns[i])]),
   max_output_tokens |-> o.max_tokens, tools |-> o.tools, tool_choice |-> o.tool_choice,
   effort |-> o.effort]

\* What the upstream is sent.
Sent ==
  LET turns == << UserTurn(opening.ask) >> \o history
  IN CASE format = "openai" -> TranslateRequest(format, OpenAIRequest(opening, turns))
       [] format = "claude" -> TranslateRequest(format, AnthropicRequest(opening, turns))
       [] format = "openai-response" -> TranslateRequest(format, ResponsesRequest(opening, turns))

-----------------------------------------------------------------------------
NoOpening == [ask |-> << >>]

Begin ==
  /\ Init
  /\ format = "" /\ opening = NoOpening /\ history = << >> /\ turn = 1 /\ replied = FALSE

\* Responses clients send no markers and their pictures are not read; Anthropic's
\* messages have no system role.
Speaks(f, parts) == f # "openai-response" \/ \A p \in ToSet(parts) : p.type = "text" /\ ~p.cache

IsList(s) == s \in Seq(ToSet(s))

IsText(p) == IsList(p.text) /\ p.cache \in BOOLEAN /\ p = Text(p.text, p.cache)

IsPicture(p) == IsList(p.text) /\ p = Part("image", p.text, FALSE, NoId, "")

\* What a client may open with: system texts and a question of texts and pictures.  A
\* question that every format can put is one text, since a Responses message holds one
\* here; a tool that is chosen is among the tools.
IsOpening(o) ==
  /\ IsList(o.system) /\ \A p \in ToSet(o.system) : IsText(p)
  /\ IsList(o.ask) /\ \A p \in ToSet(o.ask) : IsText(p) \/ IsPicture(p)
  /\ Speaks("openai-response", o.ask) => Len(o.ask) = 1 /\ o.ask[1].text # << >>
  /\ o.max_tokens \in Int /\ IsList(o.tools)
  /\ o.tool_choice = [type |-> o.tool_choice.type, name |-> o.tool_choice.name]
  /\ o.tool_choice.type \in {"", "auto", "none", "required", "function"}
  /\ IF o.tool_choice.type = "function"
     THEN o.tool_choice.name # "" /\ o.tool_choice \in ToSet(o.tools)
     ELSE o.tool_choice.name = ""

ASSUME OpeningsAssumption == \A o \in Openings : IsOpening(o)

\* The results of all calls, in either order, and what the user or, between messages,
\* the system adds; without calls, something is added.
Reactions(f, answer) ==
  LET results == [i \in DOMAIN answer.calls |->
                    ResultTurn(answer.calls[i].id, <<"result", answer.calls[i].name>>)]
      more == { << UserTurn(<< Text(<<"go on">>, cache) >>) >> : cache \in {FALSE, f = "claude"} }
              \cup (IF f = "claude" THEN {}
                    ELSE {<< SystemTurn(<<"mind">>), UserTurn(<< Text(<<"go on">>, FALSE) >>) >>})
  IN IF results = << >> THEN more
     ELSE { r \o m : r \in {results, Reverse(results)}, m \in more \cup {<< >>} }

\* The client has the whole of a good answer and makes its next request.
Reply ==
  /\ closed /\ terminated /\ ~replied /\ turn <= MaxTurns
  /\ \E f \in {"openai", "claude", "openai-response"}, o \in Openings :
       /\ IF turn = 1 THEN Speaks(f, o.system) /\ Speaks(f, o.ask) ELSE f = format /\ o = opening
       /\ format' = f /\ opening' = o
       /\ \/ streamVerdict(stream) = 0
             /\ \E r \in Reactions(f, streamedAnswer) :
                  history' = history \o << AnswerTurn(streamedAnswer) >> \o r
          \/ accumulatorVerdict(acc) = 0
             /\ \E r \in Reactions(f, collectedAnswer) :
                  history' = history \o << AnswerTurn(collectedAnswer) >> \o r
  /\ replied' = TRUE
  /\ UNCHANGED << vars, turn >>

\* The response to that request begins.
Respond ==
  /\ replied /\ turn < MaxTurns
  /\ turn' = turn + 1 /\ replied' = FALSE
  /\ script' \in FollowUps /\ terminated' = TRUE
  /\ sent' = 0 /\ closed' = FALSE
  /\ stream' = newCCStreamState /\ streamPending' = << >> /\ stopped' = FALSE
  /\ acc' = newCCAccumulator /\ accPending' = << >>
  /\ UNCHANGED << format, opening, history >>

TalkNext ==
  \/ (chunk \/ close \/ Finished) /\ UNCHANGED talk
  \/ Reply
  \/ Respond

Talk == Begin /\ [][TalkNext]_allVars

-----------------------------------------------------------------------------
\* A conversation as a sequence of things said, whatever the format.
Thing(kind, text, id, name, cache) ==
  [kind |-> kind, text |-> text, id |-> id, name |-> name, cache |-> cache]

AnswerThings(a) ==
  (IF a.thinking = << >> THEN << >> ELSE << Thing("reasoning", a.thinking, NoId, "", FALSE) >>)
  \o (IF a.text = << >> THEN << >> ELSE << Thing("answer", a.text, NoId, "", FALSE) >>)
  \o [i \in DOMAIN a.calls |-> Thing("call", << >>, a.calls[i].id, a.calls[i].name, FALSE)]

\* Reasoning that led to nothing is not told by the Responses format.
TurnThings(t) ==
  CASE t.kind = "answer" ->
         IF format = "openai-response" /\ t.answer[1].text = << >> /\ t.answer[1].calls = << >>
         THEN << >> ELSE AnswerThings(t.answer[1])
    [] t.kind = "result" -> << Thing("result", t.parts[1].text, t.id, "", FALSE) >>
    [] t.kind = "user" ->
         [i \in DOMAIN t.parts |-> Thing(t.parts[i].type, t.parts[i].text, NoId, "", t.parts[i].cache)]
    [] OTHER -> << >>

SentThings(m) ==
  [i \in DOMAIN m.content |->
     LET p == m.content[i]
         kind == CASE p.type = "text" /\ m.role = "assistant" -> "answer"
                   [] p.type = "tool-call" -> "call"
                   [] p.type = "tool-result" -> "result"
                   [] OTHER -> p.type
     IN Thing(kind, p.text, p.id, IF kind = "call" THEN p.name ELSE "", p.cache)]

\* Whichever format the client speaks and however the answers were read, the upstream is
\* told the conversation as it was: every text, picture, call and result once and in
\* order, every marker, the system's texts by themselves in theirs, the tools under the
\* names it knows and the choice among them (anthropic.go, responses.go, request.go).
ConversationArrives ==
  replied =>
    LET request == Sent
        turns   == << UserTurn(opening.ask) >> \o history
        reminders == Passing(history, LAMBDA t : t.kind = "system")
        told    == Joined(opening.system
                          \o FlattenSeq([i \in DOMAIN reminders |-> reminders[i].parts]))
    IN /\ FlattenSeq([i \in DOMAIN request.messages |-> SentThings(request.messages[i])])
            = FlattenSeq([i \in DOMAIN turns |-> TurnThings(turns[i])])
       /\ told # << >> => FlattenSeq([i \in DOMAIN request.system |-> request.system[i].text]) = told
       /\ request.tool_choice.type = "tool" /\ request.tool_choice.name \notin DOMAIN Aliases =>
            request.tool_choice.name \in ToSet(request.tools)
       /\ request.reasoning_effort = opening.effort /\ request.max_tokens \in 1..MaxTokensLimit

\* Every result that the upstream is sent follows the call it answers and names its tool,
\* through all turns, if the identifiers came with the calls or from the stream: the ones
\* of a collected response are a clock's (protocol.go:131-134, 298, request.go:163-184).
ResultsNamed ==
  replied /\ (\A i \in DOMAIN history : history[i].kind = "answer" /\ ~history[i].answer[1].streamed =>
                \A c \in ToSet(history[i].answer[1].calls) : c.id[1] # "") =>
    LET messages == Sent.messages
    IN \A j \in DOMAIN messages : messages[j].role = "tool" =>
         \E i \in 1 .. j - 1 : \E c \in ToSet(messages[i].content) :
           /\ c.type = "tool-call" /\ c.id = messages[j].content[1].id
           /\ c.name = messages[j].content[1].name
           /\ messages[j].content[1].text = <<"result", c.name>>

=============================================================================
