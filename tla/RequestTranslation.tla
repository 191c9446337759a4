------------------------- MODULE RequestTranslation -------------------------
(***************************************************************************)
(* What the plugin makes of a client's request: two converters to OpenAI's *)
(* form (anthropic.go, responses.go) and the envelope of the upstream      *)
(* (request.go), chosen by the translator (translator.go).                 *)
(*                                                                         *)
(* A text is the sequence of the pieces it was put together from.  Content *)
(* is a sequence of parts; a string is its one part, and null none, which  *)
(* is what both are turned into.  Tool identifiers are opaque.  Schemas,   *)
(* descriptions, arguments and parameters that are copied are left out.    *)
(***************************************************************************)
EXTENDS Integers, SequencesExt

CONSTANTS
  Aliases,          \* toolNameAliases: a function from names to names
  EmptyPlaceholder  \* emptySystemPlaceholder of the configuration

ASSUME TranslationAssumption == EmptyPlaceholder \in BOOLEAN

NoId == <<"", 0, 0>>

\* A part of a message; a block of an Anthropic one; an item of a Responses one.
Part(type, text, cache, id, name) ==
  [type |-> type, text |-> text, cache |-> cache, id |-> id, name |-> name]

Text(text, cache) == Part("text", text, cache, NoId, "")

Message(role, content) ==
  [role |-> role, content |-> content, reasoning_content |-> << >>, tool_calls |-> << >>,
   tool_call_id |-> NoId, name |-> ""]

ToolMessage(id, name, text) ==
  [Message("tool", << Text(text, FALSE) >>) EXCEPT !.tool_call_id = id, !.name = name]

\* The elements of s that pass a test, in order.
Passing(s, Test(_)) ==
  FlattenSeq([i \in DOMAIN s |-> IF Test(s[i]) THEN << s[i] >> ELSE << >>])

OfType(parts, types) == Passing(parts, LAMBDA p : p.type \in types)

Joined(parts) == FlattenSeq([i \in DOMAIN parts |-> parts[i].text])

\* An only text without a marker stands for a string, and an empty string is no part.
Unempty(content) == IF content = << Text(<< >>, FALSE) >> THEN << >> ELSE content

\* A map of names by identifier, and what a call and some calls add to it.
Name(names, id) == IF id \in DOMAIN names THEN names[id] ELSE ""

WithName(names, call) ==
  [id \in DOMAIN names \cup {call.id} |-> IF id = call.id THEN call.name ELSE names[id]]

WithNames(names, calls) == FoldLeft(WithName, names, calls)

-----------------------------------------------------------------------------
\* convertAnthropicToOpenAI.

\* Several texts are joined by newlines, and so are never nothing.
anthropicSystem(blocks) ==
  LET texts == OfType(blocks, {"text"})
  IN IF Len(texts) <= 1 /\ Joined(texts) = << >> THEN << >>
     ELSE << Message("system", texts) >>

anthropicAssistant(blocks) ==
  [Message("assistant", Unempty(OfType(blocks, {"text"}))) EXCEPT
     !.reasoning_content = Joined(OfType(blocks, {"thinking"})),
     !.tool_calls = OfType(blocks, {"tool_use"})]

\* The tool results of a message come first, then what the user says.
anthropicUser(blocks, names) ==
  LET results == OfType(blocks, {"tool_result"})
      said    == OfType(blocks, {"text", "image"})
  IN [i \in DOMAIN results |->
        ToolMessage(results[i].id, Name(names, results[i].id), results[i].text)]
     \o (IF said = << >> THEN << >>
         ELSE << Message("user", [i \in DOMAIN said |->
                   IF said[i].type = "image"
                   THEN Part("image_url", said[i].text, FALSE, NoId, "") ELSE said[i]]) >>)

anthropicMessage(done, msg) ==
  CASE msg.role = "assistant" ->
         [messages |-> Append(done.messages, anthropicAssistant(msg.content)),
          names |-> WithNames(done.names, OfType(msg.content, {"tool_use"}))]
    [] msg.role = "user" ->
         [done EXCEPT !.messages = @ \o anthropicUser(msg.content, done.names)]
    [] OTHER -> done

anthropicToolChoice(choice) ==
  CASE choice.type = "" -> choice
    [] choice.type \in {"auto", "none"} -> choice
    [] choice.type = "any" -> [choice EXCEPT !.type = "required"]
    [] choice.type = "tool" -> [choice EXCEPT !.type = "function"]
    [] OTHER -> [type |-> "auto", name |-> ""]

\* The thinking configuration: a type, an effort and a budget.
anthropicEffort(thinking) ==
  CASE thinking.type \in {"", "disabled", "none"} -> ""
    [] thinking.type = "adaptive" -> IF thinking.effort = "" THEN "medium" ELSE thinking.effort
    [] OTHER -> IF thinking.budget >= 10000 THEN "high"
                ELSE IF thinking.budget >= 5000 THEN "medium"
                ELSE IF thinking.budget > 0 THEN "low" ELSE ""

\* An absent number of tokens counts as 0.
DefaultMaxTokens == 64000

nonZeroInt(n, fallback) == IF n <= 0 THEN fallback ELSE n

\* No prompt_cache_key: the format has none.
convertAnthropicToOpenAI(req) ==
  [messages |-> anthropicSystem(req.system)
                \o FoldLeft(anthropicMessage, [messages |-> << >>, names |-> << >>],
                            req.messages).messages,
   max_tokens |-> nonZeroInt(req.max_tokens, DefaultMaxTokens),
   tools |-> req.tools, tool_choice |-> anthropicToolChoice(req.tool_choice),
   reasoning_effort |-> anthropicEffort(req.thinking), prompt_cache_key |-> FALSE]

-----------------------------------------------------------------------------
\* convertResponsesToChat: an assistant message is gathered from the items in a row
\* that belong to it.  pending holds it, or nothing.

ensurePending(done) ==
  IF done.pending # << >> THEN done
  ELSE [done EXCEPT !.pending = << Message("assistant", << >>) >>]

\* A pending message that has reasoning only is dropped.
flushPending(done) ==
  LET kept == Passing(done.pending, LAMBDA m : m.content # << >> \/ m.tool_calls # << >>)
  IN [messages |-> done.messages \o kept, pending |-> << >>]

Said(done, role, text) ==
  LET flushed == flushPending(done)
  IN IF text = << >> THEN flushed
     ELSE [flushed EXCEPT !.messages = Append(@, Message(role, << Text(text, FALSE) >>))]

\* Mutant: a pending message is not flushed before the output of its calls.
responsesOutputUnflushed(done, item) ==
  [done EXCEPT !.messages = Append(@, ToolMessage(item.id, "", item.text))]

responsesOutput(done, item) ==
  [flushPending(done) EXCEPT !.messages = Append(@, ToolMessage(item.id, "", item.text))]

\* The role of a message item is its name.
responsesItem(done, item) ==
  CASE item.type = "reasoning" ->
         IF item.text = << >> THEN done
         ELSE [ensurePending(done) EXCEPT !.pending[1].reasoning_content = item.text]
    [] item.type = "message" /\ item.name = "assistant" ->
         IF item.text = << >> THEN done
         ELSE [ensurePending(done) EXCEPT !.pending[1].content = << Text(item.text, FALSE) >>]
    [] item.type = "message" /\ item.name \in {"system", "developer"} ->
         Said(done, "system", item.text)
    [] item.type = "message" /\ item.name \notin {"assistant", "system", "developer"} ->
         Said(done, "user", item.text)
    [] item.type = "function_call" ->
         [ensurePending(done) EXCEPT
            !.pending[1].tool_calls = Append(@, Part("tool_use", << >>, FALSE, item.id, item.name))]
    [] item.type = "function_call_output" -> responsesOutput(done, item)
    [] OTHER -> done

\* No prompt_cache_key: the request's own is not copied.
convertResponsesToChat(req) ==
  LET none == [messages |-> << >>, pending |-> << >>]
  IN [messages |-> flushPending(FoldLeft(responsesItem, Said(none, "system", req.instructions),
                                         req.input)).messages,
      max_tokens |-> req.max_output_tokens,
      tools |-> Passing(req.tools, LAMBDA t : t.type = "function" \/ t.name # ""),
      tool_choice |-> IF req.tool_choice.name # ""
                      THEN [type |-> "function", name |-> req.tool_choice.name]
                      ELSE req.tool_choice,
      reasoning_effort |-> req.effort, prompt_cache_key |-> FALSE]

-----------------------------------------------------------------------------
\* buildCcRequest.

\* Every block but the last gets a newline.
systemBlocksFromMessages(messages) ==
  LET system == Passing(messages, LAMBDA m : m.role \in {"system", "developer"})
      parts  == FlattenSeq([i \in DOMAIN system |-> system[i].content])
      blocks == Passing(parts, LAMBDA p : p.text # << >> \/ p.cache)
  IN [i \in DOMAIN blocks |->
        [text |-> blocks[i].text, newline |-> i < Len(blocks), cache |-> blocks[i].cache]]

\* Pictures lose a marker, other parts are passed on.
ccUserContent(content) ==
  [i \in DOMAIN content |->
     IF content[i].type = "image_url" THEN Part("image", content[i].text, FALSE, NoId, "")
     ELSE content[i]]

\* Reasoning comes first, from one source, then texts, then tool calls.
ccAssistantMessage(msg) ==
  LET reasoning == msg.reasoning_content
      kinds == IF reasoning = << >> THEN {"text", "reasoning"} ELSE {"text"}
  IN [role |-> "assistant",
      content |-> (IF reasoning = << >> THEN << >>
                   ELSE << Part("reasoning", reasoning, FALSE, NoId, "") >>)
                  \o OfType(Unempty(msg.content), kinds)
                  \o [i \in DOMAIN msg.tool_calls |->
                        Part("tool-call", << >>, FALSE, msg.tool_calls[i].id, msg.tool_calls[i].name)]]

\* Mutant: a result is named by its own message only.
toolResultNameOwn(msg, toolNameMap) == msg.name

toolResultName(msg, toolNameMap) ==
  IF Name(toolNameMap, msg.tool_call_id) # "" THEN Name(toolNameMap, msg.tool_call_id) ELSE msg.name

\* toWireToolOutput joins what is text.
ccMessage(msg, toolNameMap) ==
  CASE msg.role = "user" -> [role |-> "user", content |-> ccUserContent(msg.content)]
    [] msg.role = "assistant" -> ccAssistantMessage(msg)
    [] msg.role = "tool" ->
         [role |-> "tool",
          content |-> << Part("tool-result", Joined(OfType(msg.content, {"text"})), FALSE,
                              msg.tool_call_id, toolResultName(msg, toolNameMap)) >>]
    [] OTHER -> [role |-> "user", content |-> << Text(Joined(msg.content), FALSE) >>]

\* The messages so far, and the names of the calls in them, this message's included.
chatMessage(done, msg) ==
  LET names == IF msg.role = "assistant"
               THEN WithNames(done.names, Passing(msg.tool_calls, LAMBDA c : c.id # NoId))
               ELSE done.names
  IN IF msg.role \in {"system", "developer"} THEN done
     ELSE [messages |-> Append(done.messages, ccMessage(msg, names)), names |-> names]

chatMessages(messages) ==
  FoldLeft(chatMessage, [messages |-> << >>, names |-> << >>], messages).messages

\* The caller's cache key marks the last system block, unless there is a marker.
Marked(system, messages, key) ==
  LET marker == \/ \E b \in ToSet(system) : b.cache
                \/ \E m \in ToSet(messages) : \E p \in ToSet(m.content) : p.cache
  IN IF key /\ ~marker /\ system # << >>
     THEN [system EXCEPT ![Len(system)].cache = TRUE] ELSE system

MaxTokensLimit == 200000

maxTokens(n) ==
  IF n <= 0 THEN DefaultMaxTokens ELSE IF n > MaxTokensLimit THEN MaxTokensLimit ELSE n

toWireToolName(name) == IF name \in DOMAIN Aliases THEN Aliases[name] ELSE name

wireTools(tools) == [i \in DOMAIN tools |-> toWireToolName(tools[i].name)]

\* A choice is a string, or a function by its name.
wireToolChoice(choice) ==
  CASE choice.type \in {"", "auto", "none"} -> choice
    [] choice.type = "required" -> [choice EXCEPT !.type = "any"]
    [] choice.type = "function" -> [choice EXCEPT !.type = "tool"]
    [] OTHER -> [choice EXCEPT !.type = "auto"]

buildCcRequest(payload) ==
  LET system   == systemBlocksFromMessages(payload.messages)
      messages == chatMessages(payload.messages)
  IN [system |-> IF system = << >>
                 THEN IF EmptyPlaceholder
                      THEN << [text |-> <<" ">>, newline |-> FALSE, cache |-> FALSE] >>
                      ELSE << >>
                 ELSE Marked(system, messages, payload.prompt_cache_key),
      messages |-> messages,
      max_tokens |-> maxTokens(payload.max_tokens),
      tools |-> wireTools(payload.tools),
      tool_choice |-> wireToolChoice(payload.tool_choice),
      reasoning_effort |-> payload.reasoning_effort]

-----------------------------------------------------------------------------
\* TranslateRequest, for the formats it knows, and buildBody for a payload in OpenAI's.
TranslateRequest(from, body) ==
  buildCcRequest(CASE from = "claude" -> convertAnthropicToOpenAI(body)
                   [] from = "openai-response" -> convertResponsesToChat(body)
                   [] OTHER -> body)

=============================================================================
