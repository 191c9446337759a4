--------------------------- MODULE HistoryProofs ----------------------------
(***************************************************************************)
(* Theorems about whole conversations: what a client keeps of the          *)
(* responses and adds to them is a conversation (HistoryInv, by induction  *)
(* over its replies), its results follow their calls and its identifiers   *)
(* tell the tools apart (FollowInv), and the request it makes of it tells  *)
(* the upstream the same, with the name of its tool for each result.       *)
(* ConversationProofs says what the readers have gathered of a response,   *)
(* TranslationProofs what a converter makes of a conversation.             *)
(***************************************************************************)
EXTENDS ConversationProofs, TranslationProofs

-----------------------------------------------------------------------------
(* Every answer a client keeps is one, and every history one it may write. *)

LEMMA TextsType ==
  ASSUME NEW kind, NEW out \in Seq(Chunks)
  PROVE  TextsOf(kind, out) \in Seq(Carried)
<1>1. Len(out) \in Nat /\ DOMAIN out = 1..Len(out) OBVIOUS
<1>2. \A i \in 1..Len(out) : out[i] \in Chunks OBVIOUS
<1>3. \A c \in Chunks : c.text \in Carried BY DEF Chunks
<1>4. PICK S : S = Carried OBVIOUS
<1>5. << >> \in Seq(S) OBVIOUS
<1>6. ASSUME NEW v \in Seq(S), NEW i \in 1..Len(out) PROVE TextOp(kind, v, out[i]) \in Seq(S)
  BY <1>2, <1>3, <1>4 DEF TextOp
<1>7. PICK base : base = << >> OBVIOUS
<1>8. Carry!Fold(kind, base, out) \in Seq(S) BY <1>1, <1>5, <1>6, <1>7, Carry!FoldKeeps
<1> QED BY <1>4, <1>7, <1>8 DEF TextsOf

LEMMA StreamTexts ==
  ASSUME CutInv
  PROVE  \A kind : IsList(Texts(kind))
<1>1. StreamOK(stream) BY StreamIsPrefix
<1>2. stream.out \in Seq(Chunks) BY <1>1 DEF StreamOK, StreamStates
<1>3. \A kind : Texts(kind) \in Seq(Carried) BY <1>2, TextsType, TextsIsFold DEF TextsOf
<1> QED BY <1>3, ListOf

LEMMA CallIs == \A id, token : IsCall(Call(id, token))
BY DEF IsCall, Call, Part

LEMMA AnswerFields ==
  ASSUME NEW th, NEW tx, NEW cs, NEW st, IsList(th), IsList(tx), IsList(cs),
         \A c \in ToSet(cs) : IsCall(c),
         NEW a, a = [thinking |-> th, text |-> tx, calls |-> cs, streamed |-> st]
  PROVE  IsAnswer(a)
<1>1. a.thinking = th /\ a.text = tx /\ a.calls = cs OBVIOUS
<1>2. \A c \in ToSet(cs) : c = Part("tool_use", << >>, FALSE, c.id, c.name) BY DEF IsCall
<1> QED BY <1>1, <1>2 DEF IsAnswer

LEMMA StreamedIs ==
  ASSUME CutInv
  PROVE  IsAnswer(streamedAnswer)
<1>1. PICK th, tx, tools : /\ th = Texts("reasoning-delta") /\ tx = Texts("text-delta")
                           /\ tools = Texts("tool-call")
  OBVIOUS
<1>2. IsList(th) /\ IsList(tx) /\ IsList(tools) BY <1>1, StreamTexts
<1> DEFINE cs == [i \in DOMAIN tools |-> Call(callID(tools[i][2], tools[i][1] + 1), tools[i][2])]
<1>3. /\ DOMAIN cs = DOMAIN tools /\ cs = [i \in DOMAIN tools |-> cs[i]]
      /\ \A i \in DOMAIN cs : IsCall(cs[i])
  BY CallIs
<1>4. streamedAnswer = [thinking |-> th, text |-> tx, calls |-> cs, streamed |-> TRUE]
  BY <1>1, Zenon DEF streamedAnswer
<1> HIDE DEF cs
<1>5. IsList(cs) BY <1>2, <1>3, MadeList
<1>6. ASSUME NEW c \in ToSet(cs) PROVE IsCall(c)
  <2>1. PICK i \in DOMAIN cs : c = cs[i] BY <1>5, ListElements
  <2> QED BY <1>3, <2>1
<1>7. PICK st, a : st = TRUE /\ a = streamedAnswer OBVIOUS
<1>8. a = [thinking |-> th, text |-> tx, calls |-> cs, streamed |-> st] BY <1>4, <1>7, Zenon
<1>9. IsAnswer(a) BY <1>2, <1>5, <1>6, <1>8, AnswerFields
<1> QED BY <1>7, <1>9

LEMMA CollectedIs ==
  ASSUME CutInv
  PROVE  IsAnswer(collectedAnswer)
<1>1. CallsIn(STRING)
  <2>1. script \in Seq(Lines) BY DEF CutInv
  <2>2. \A j \in DOMAIN script : script[j] \in Lines BY <2>1, ScriptIs
  <2> QED BY <2>2 DEF CallsIn, Lines
<1>2. GatheredOK(acc, STRING) BY <1>1, CollectedTokens
<1>3. acc \in AccStates BY <1>2 DEF GatheredOK
<1>4. PICK th, tx, tools : th = acc.thinkingText /\ tx = acc.fullText /\ tools = acc.toolCalls
  OBVIOUS
<1>5. th \in Seq(STRING) /\ tx \in Seq(STRING) /\ tools \in Seq(STRING)
  BY <1>3, <1>4 DEF AccStates
<1>6. IsList(th) /\ IsList(tx) /\ IsList(tools) BY <1>5, ListOf
<1>7. PICK b : b = build(acc) OBVIOUS
<1>8. b.thinking = th /\ b.text = tx /\ b.tools = tools BY <1>4, <1>7 DEF build
<1> DEFINE cs == [i \in DOMAIN tools |-> Call(callID(tools[i], 0), tools[i])]
<1>9. /\ DOMAIN cs = DOMAIN tools /\ cs = [i \in DOMAIN tools |-> cs[i]]
      /\ \A i \in DOMAIN cs : IsCall(cs[i])
  BY CallIs
<1>10. collectedAnswer = [thinking |-> th, text |-> tx, calls |-> cs, streamed |-> FALSE]
  BY <1>7, <1>8, Zenon DEF collectedAnswer
<1> HIDE DEF cs
<1>11. IsList(cs) BY <1>6, <1>9, MadeList
<1>12. ASSUME NEW c \in ToSet(cs) PROVE IsCall(c)
  <2>1. PICK i \in DOMAIN cs : c = cs[i] BY <1>11, ListElements
  <2> QED BY <1>9, <2>1
<1>13. PICK st, a : st = FALSE /\ a = collectedAnswer OBVIOUS
<1>14. a = [thinking |-> th, text |-> tx, calls |-> cs, streamed |-> st] BY <1>10, <1>13, Zenon
<1>15. IsAnswer(a) BY <1>6, <1>11, <1>12, <1>14, AnswerFields
<1> QED BY <1>13, <1>15

-----------------------------------------------------------------------------
(* The history of a conversation.                                          *)

\* The turns of a client of format f that opened with o, and that an answer may follow.
Held(f, o, turns) ==
  /\ f \in Formats /\ IsOpening(o) /\ Awaits(f, << UserTurn(o.ask) >> \o turns)
  /\ IsList(turns) /\ \A t \in ToSet(turns) : IsTurn(f, t)

\* Before the client's first reply there is no history; since then it is one.
HistoryInv ==
  /\ replied \in BOOLEAN /\ turn \in Nat /\ turn # 0
  /\ \/ turn = 1 /\ ~replied /\ history = << >>
     \/ (turn # 1 \/ replied) /\ Held(format, opening, history)

LEMMA OpeningTurn ==
  ASSUME NEW f \in Formats, NEW o, IsOpening(o), Speaks(f, o.ask)
  PROVE  IsTurn(f, UserTurn(o.ask)) /\ UserTurn(o.ask).kind = "user"
<1>1. PICK ask, u : ask = o.ask /\ u = UserTurn(ask) OBVIOUS
<1>2. u.kind = "user" /\ u.parts = ask BY <1>1, UserTurnFields
<1>3. IsList(ask) /\ \A p \in ToSet(ask) : IsText(p) \/ IsPicture(p) BY <1>1 DEF IsOpening
<1>4. IsSaid(ask) BY <1>3 DEF IsSaid
<1>5. ASSUME f = "openai-response"
      PROVE  \E text : ask = << Text(text, FALSE) >> /\ IsList(text) /\ text # << >>
  <2>1. \A p \in ToSet(ask) : p.type = "text" /\ ~p.cache BY <1>1, <1>5 DEF Speaks
  <2>2. Speaks("openai-response", ask) BY <2>1 DEF Speaks
  <2>3. Len(ask) = 1 /\ ask[1].text # << >> BY <1>1, <2>2 DEF IsOpening
  <2>4. PICK p : p = ask[1] OBVIOUS
  <2>5. ask = << p >>
    <3>1. DOMAIN ask = 1..1 /\ ask = [i \in DOMAIN ask |-> ask[i]] BY <1>3, <2>3, ListElements
    <3>2. ask = [i \in 1..1 |-> p] BY <2>4, <3>1
    <3> QED BY <3>2, OneMade
  <2>6. p \in ToSet(ask) BY <2>5, OneList
  <2>7. p.type = "text" /\ ~p.cache BY <2>1, <2>6
  <2>8. IsText(p)
    <3>1. ASSUME IsPicture(p) PROVE FALSE
      <4>1. p = Part("image", p.text, FALSE, NoId, "") BY <3>1 DEF IsPicture
      <4>2. \A text, cache, id, name : Part("image", text, cache, id, name).type = "image"
        BY DEF Part
      <4>3. p.type = "image" BY <4>1, <4>2
      <4> QED BY <2>7, <4>3
    <3> QED BY <1>3, <2>6, <3>1
  <2>9. IsList(p.text) /\ p.cache \in BOOLEAN /\ p = Text(p.text, p.cache) BY <2>8 DEF IsText
  <2>10. p.cache = FALSE BY <2>7, <2>9
  <2>11. PICK text : text = p.text OBVIOUS
  <2>12. p = Text(text, FALSE) BY <2>9, <2>10, <2>11, Zenon
  <2>13. IsList(text) /\ text # << >> BY <2>3, <2>4, <2>9, <2>11
  <2> QED BY <2>5, <2>12, <2>13
<1>6. IsUserTurn(f, u) BY <1>2, <1>4, <1>5 DEF IsUserTurn
<1>7. IsTurn(f, u) BY <1>6 DEF IsTurn
<1> QED BY <1>1, <1>2, <1>7

LEMMA HeldFirst ==
  ASSUME NEW f \in Formats, NEW o, IsOpening(o), Speaks(f, o.ask)
  PROVE  Held(f, o, << >>)
<1>1. PICK u, us : u = UserTurn(o.ask) /\ us = << u >> OBVIOUS
<1>2. IsTurn(f, u) /\ u.kind = "user" BY <1>1, OpeningTurn
<1>3. IsList(us) /\ Len(us) = 1 /\ us[1] = u BY <1>1, OneList
<1>4. us \o << >> = us BY <1>3, ConcatSame
<1>5. Awaits(f, us) BY <1>2, <1>3 DEF Awaits, AreTurns
<1>6. Awaits(f, << UserTurn(o.ask) >> \o << >>) BY <1>1, <1>4, <1>5
<1> QED BY <1>6, NoList DEF Held

LEMMA HeldMore ==
  ASSUME NEW f, NEW o, NEW h, Held(f, o, h), NEW a, IsAnswer(a), NEW r, IsReaction(f, r),
         NEW g, g = (h \o << AnswerTurn(a) >>) \o r
  PROVE  Held(f, o, g)
<1>1. PICK t, one, us : t = AnswerTurn(a) /\ one = << t >> /\ us = << UserTurn(o.ask) >> OBVIOUS
<1>2. t.kind = "answer" /\ t.answer = << a >> BY <1>1, AnswerTurnFields
<1>3. IsAnswerTurn(t) BY <1>2 DEF IsAnswerTurn
<1>4. IsTurn(f, t) BY <1>3 DEF IsTurn
<1>5. IsList(h) /\ IsList(one) /\ IsList(r) /\ IsList(us) /\ ToSet(one) = {t}
  BY <1>1, OneList DEF Held, IsReaction
<1>6. PICK hs : hs = h \o one OBVIOUS
<1>7. IsList(hs) /\ ToSet(hs) = ToSet(h) \cup {t}
  <2>1. IsList(h \o one) /\ ToSet(h \o one) = ToSet(h) \cup ToSet(one) BY <1>5, Concatenated
  <2> QED BY <1>5, <1>6, <2>1
<1>8. g = hs \o r BY <1>1, <1>6
<1>9. IsList(g) /\ ToSet(g) = ToSet(hs) \cup ToSet(r)
  <2>1. IsList(hs \o r) /\ ToSet(hs \o r) = ToSet(hs) \cup ToSet(r) BY <1>5, <1>7, Concatenated
  <2> QED BY <1>8, <2>1
<1>10. \A x \in ToSet(g) : IsTurn(f, x)
  <2>1. \A x \in ToSet(h) : IsTurn(f, x) BY DEF Held
  <2>2. ASSUME NEW x \in ToSet(r) PROVE IsTurn(f, x)
    <3>1. \E i \in 1..Len(r) : x = r[i]
      <4>1. IsList(r) BY <1>5
      <4> QED BY <4>1, ListElements
    <3>2. \A i \in 1..Len(r) : IsTurn(f, r[i]) BY DEF IsReaction
    <3> QED BY <3>1, <3>2
  <2> QED BY <1>4, <1>7, <1>9, <2>1, <2>2
<1>11. PICK turns, w : turns = us \o h /\ w = (turns \o one) \o r OBVIOUS
<1>12. Awaits(f, turns) BY <1>1, <1>11 DEF Held
<1>13. w = (turns \o << t >>) \o r BY <1>1, <1>11
<1>14. Awaits(f, w) BY <1>2, <1>4, <1>12, <1>13, TurnsJoin
<1>15. w = us \o g
  <2>1. (us \o h) \o one = us \o (h \o one)
    <3>1. Associates(us, h, one) BY <1>5, ConcatAll
    <3> QED BY <3>1, Zenon DEF Associates
  <2>2. (us \o hs) \o r = us \o (hs \o r)
    <3>1. Associates(us, hs, r) BY <1>5, <1>7, ConcatAll
    <3> QED BY <3>1, Zenon DEF Associates
  <2>3. turns \o one = us \o hs BY <1>6, <1>11, <2>1, Zenon
  <2> QED BY <1>8, <1>11, <2>2, <2>3, Zenon
<1>16. Awaits(f, << UserTurn(o.ask) >> \o g) BY <1>1, <1>14, <1>15
<1> QED BY <1>9, <1>10, <1>16 DEF Held

LEMMA HistoryReply == CutInv /\ HistoryInv /\ Reply => HistoryInv'
<1> SUFFICES ASSUME CutInv, HistoryInv, Reply PROVE HistoryInv' OBVIOUS
<1>1. PICK f \in {"openai", "claude", "openai-response"}, o \in Openings :
        /\ IF turn = 1 THEN Speaks(f, o.system) /\ Speaks(f, o.ask) ELSE f = format /\ o = opening
        /\ format' = f /\ opening' = o
        /\ \/ streamVerdict(stream) = 0
              /\ \E r \in Reactions(f, streamedAnswer) :
                   history' = history \o << AnswerTurn(streamedAnswer) >> \o r
           \/ accumulatorVerdict(acc) = 0
              /\ \E r \in Reactions(f, collectedAnswer) :
                   history' = history \o << AnswerTurn(collectedAnswer) >> \o r
  BY DEF Reply
<1>2. replied' = TRUE /\ turn' = turn /\ ~replied BY DEF Reply
<1>3. f \in Formats BY DEF Formats
<1>4. IsOpening(o) BY OpeningsAssumption
<1>5. Held(f, o, history)
  <2>1. CASE turn = 1
    <3>1. history = << >> BY <1>2, <2>1 DEF HistoryInv
    <3>2. Speaks(f, o.ask) BY <1>1, <2>1
    <3>3. Held(f, o, << >>) BY <1>3, <1>4, <3>2, HeldFirst
    <3> QED BY <3>1, <3>3
  <2>2. CASE turn # 1
    <3>1. Held(format, opening, history) BY <2>2 DEF HistoryInv
    <3> QED BY <1>1, <2>2, <3>1
  <2> QED BY <2>1, <2>2
<1>6. \E a : IsAnswer(a) /\ \E r \in Reactions(f, a) :
               history' = (history \o << AnswerTurn(a) >>) \o r
  BY <1>1, StreamedIs, CollectedIs
<1>7. PICK a : IsAnswer(a) /\ \E r \in Reactions(f, a) :
                 history' = (history \o << AnswerTurn(a) >>) \o r
  BY <1>6
<1>8. PICK r \in Reactions(f, a) : history' = (history \o << AnswerTurn(a) >>) \o r BY <1>7
<1>9. IsReaction(f, r) BY <1>3, <1>7, ReactionIs
<1>10. PICK h, g : h = history /\ g = history' OBVIOUS
<1>11. Held(f, o, g) BY <1>5, <1>7, <1>8, <1>9, <1>10, HeldMore
<1>12. Held(format', opening', history') BY <1>1, <1>10, <1>11
<1> QED BY <1>2, <1>12 DEF HistoryInv

\* Once the client has replied, what it is about to send again is a conversation: it opens
\* with one of its questions, never has two answers in a row, and has results only where an
\* answer or another result precedes them.  Both readers of a response give answers that
\* such a history can hold (protocol.go).
LEMMA HistoryHeld == Talk => []HistoryInv
<1>1. Begin => HistoryInv
  <2> SUFFICES ASSUME Begin PROVE HistoryInv OBVIOUS
  <2>1. turn = 1 /\ replied = FALSE /\ history = << >> BY Zenon DEF Begin
  <2>2. turn \in Nat /\ turn # 0 BY <2>1
  <2>3. ~replied /\ replied \in BOOLEAN BY <2>1, Zenon
  <2> QED BY <2>1, <2>2, <2>3, Zenon DEF HistoryInv
<1>2. CutInv /\ HistoryInv /\ [TalkNext]_allVars => HistoryInv'
  <2> SUFFICES ASSUME CutInv, HistoryInv, [TalkNext]_allVars PROVE HistoryInv' OBVIOUS
  <2>1. CASE UNCHANGED talk BY <2>1 DEF talk, HistoryInv
  <2>2. CASE Reply BY <2>2, HistoryReply
  <2>3. CASE Respond
    <3>1. replied /\ replied' = FALSE /\ turn' = turn + 1
          /\ format' = format /\ opening' = opening /\ history' = history
      BY <2>3 DEF Respond
    <3>2. Held(format, opening, history) BY <3>1 DEF HistoryInv
    <3>3. turn' \in Nat /\ turn' # 0 /\ turn' # 1 BY <3>1 DEF HistoryInv
    <3> QED BY <3>1, <3>2, <3>3 DEF HistoryInv
  <2>4. CASE UNCHANGED allVars BY <2>1, <2>4 DEF allVars
  <2> QED BY <2>1, <2>2, <2>3, <2>4 DEF TalkNext
<1> QED BY <1>1, <1>2, TalkCuts, PTL DEF Talk

\* Whichever of the three formats a client speaks, and however its answers were streamed or
\* collected, every request translated for the upstream tells the conversation as it was
\* (convertAnthropicToOpenAI, convertResponsesToChat, buildCcRequest).
THEOREM ArrivesTheorem == Talk => []ConversationArrives
<1>1. HistoryInv => ConversationArrives
  <2> SUFFICES ASSUME HistoryInv, replied PROVE ConversationArrives BY DEF ConversationArrives
  <2>1. Held(format, opening, history) BY DEF HistoryInv
  <2>2. Conversing BY <2>1 DEF Held, Awaits, Conversing
  <2> QED BY <2>2, Arrives
<1> QED BY <1>1, HistoryHeld, PTL

-----------------------------------------------------------------------------
\* The message an assistant's turns into, part by part.
HasCalls(w, calls) ==
  /\ w.role = "assistant" /\ IsList(w.content)
  /\ \A c \in ToSet(w.content) :
       \/ c.type \in {"reasoning", "text"}
       \/ \E i \in 1..Len(calls) :
            c = Part("tool-call", << >>, FALSE, calls[i].id, calls[i].name)
  /\ \A i \in 1..Len(calls) :
       Part("tool-call", << >>, FALSE, calls[i].id, calls[i].name) \in ToSet(w.content)

LEMMA AssistantParts ==
  ASSUME NEW m, WellMessage(m), NEW w, w = ccAssistantMessage(m), NEW calls, calls = m.tool_calls
  PROVE  HasCalls(w, calls)
<1> DEFINE f == [i \in DOMAIN calls |-> Part("tool-call", << >>, FALSE, calls[i].id, calls[i].name)]
           r == IF m.reasoning_content = << >> THEN << >>
                ELSE << Part("reasoning", m.reasoning_content, FALSE, NoId, "") >>
           kinds == IF m.reasoning_content = << >> THEN {"text", "reasoning"} ELSE {"text"}
           said == Unempty(m.content)
           o == OfType(said, kinds)
<1>1. IsList(said) /\ IsList(calls) BY UnemptyList DEF WellMessage
<1>2. w.role = "assistant" /\ w.content = r \o o \o f BY DEF ccAssistantMessage
<1>3. DOMAIN f = DOMAIN calls /\ f = [i \in DOMAIN calls |-> f[i]]
      /\ \A i \in DOMAIN calls : f[i] = Part("tool-call", << >>, FALSE, calls[i].id, calls[i].name)
  OBVIOUS
<1>4. IsList(r) /\ \A c \in ToSet(r) : c.type = "reasoning"
  <2>1. PICK p : p = Part("reasoning", m.reasoning_content, FALSE, NoId, "") OBVIOUS
  <2>2. p.type = "reasoning" BY <2>1 DEF Part
  <2>3. r = << >> \/ r = << p >> BY <2>1
  <2> HIDE DEF r
  <2> QED BY <2>2, <2>3, OneList, NoList
<1>5. IsList(o) /\ \A c \in ToSet(o) : c.type \in {"reasoning", "text"}
  <2>1. IsList(o) /\ ToSet(o) \subseteq {p \in ToSet(said) : p.type \in kinds}
    BY <1>1, OfTypeList
  <2>2. kinds \subseteq {"reasoning", "text"} OBVIOUS
  <2> HIDE DEF o, kinds
  <2> QED BY <2>1, <2>2
<1> HIDE DEF f, r, o, said
<1>6. IsList(f) /\ DOMAIN calls = 1..Len(calls) /\ DOMAIN f = 1..Len(calls)
  <2>1. IsList(f) BY <1>1, <1>3, MadeList
  <2>2. DOMAIN calls = 1..Len(calls) BY <1>1, ListElements
  <2> QED BY <1>3, <2>1, <2>2
<1>7. PICK ro, v : ro = r \o o /\ v = w.content OBVIOUS
<1>8. IsList(ro) /\ ToSet(ro) = ToSet(r) \cup ToSet(o)
  <2>1. IsList(r \o o) /\ ToSet(r \o o) = ToSet(r) \cup ToSet(o) BY <1>4, <1>5, Concatenated
  <2> QED BY <1>7, <2>1, Zenon
<1>9. IsList(v) /\ ToSet(v) = ToSet(ro) \cup ToSet(f)
  <2>1. IsList(ro \o f) /\ ToSet(ro \o f) = ToSet(ro) \cup ToSet(f) BY <1>6, <1>8, Concatenated
  <2>2. v = ro \o f BY <1>2, <1>7, Zenon
  <2> QED BY <2>1, <2>2, Zenon
<1>10. \A c \in ToSet(f) : \E i \in 1..Len(calls) : c = f[i] BY <1>6, ListElements
<1>11. \A i \in 1..Len(calls) : f[i] \in ToSet(f) BY <1>6, ListElements
<1>12. ASSUME NEW c \in ToSet(v)
       PROVE  \/ c.type \in {"reasoning", "text"}
              \/ \E i \in 1..Len(calls) :
                   c = Part("tool-call", << >>, FALSE, calls[i].id, calls[i].name)
  <2>1. c \in ToSet(r) \/ c \in ToSet(o) \/ c \in ToSet(f) BY <1>8, <1>9
  <2>2. CASE c \in ToSet(f)
    <3>1. PICK i \in 1..Len(calls) : c = f[i] BY <1>10, <2>2
    <3>2. c = Part("tool-call", << >>, FALSE, calls[i].id, calls[i].name) BY <1>3, <1>6, <3>1
    <3> QED BY <3>2
  <2> QED BY <1>4, <1>5, <2>1, <2>2
<1>13. ASSUME NEW i \in 1..Len(calls)
       PROVE  Part("tool-call", << >>, FALSE, calls[i].id, calls[i].name) \in ToSet(v)
  <2>1. f[i] \in ToSet(v) BY <1>9, <1>11
  <2> QED BY <1>3, <1>6, <2>1
<1> QED BY <1>2, <1>7, <1>9, <1>12, <1>13 DEF HasCalls

IsCallPart(c, id, name) == c.type = "tool-call" /\ c.id = id /\ c.name = name

LEMMA CallPart == \A id, name : IsCallPart(Part("tool-call", << >>, FALSE, id, name), id, name)
BY DEF Part, IsCallPart

\* The calls of a message whose identifiers are recorded.
Recorded(calls) == Passing(calls, LAMBDA c : c.id # NoId)

LEMMA RecordedAre ==
  ASSUME NEW calls, IsList(calls)
  PROVE  /\ IsList(Recorded(calls))
         /\ \A c \in ToSet(Recorded(calls)) : c \in ToSet(calls)
         /\ \A c \in ToSet(calls) : c.id # NoId => c \in ToSet(Recorded(calls))
<1> DEFINE S == {c \in ToSet(calls) : c.id # NoId}
<1>1. \A i \in DOMAIN calls : calls[i] \in ToSet(calls) BY ListElements
<1>2. Recorded(calls) = Filter(S, calls) BY <1>1 DEF Recorded, Passing, Filter
<1>3. \A c \in ToSet(calls) : c.id # NoId => c \in S OBVIOUS
<1> HIDE DEF S
<1> QED BY <1>2, <1>3, FilterList, FilterKeeps

LEMMA AssistantNames ==
  ASSUME NEW m, WellMessage(m), NEW names,
         NEW w, w = ccAssistantMessage(m), NEW ns, ns = WithNames(names, Recorded(m.tool_calls))
  PROVE  NamesFrom(w, names, ns)
<1>1. PICK calls, rec : calls = m.tool_calls /\ rec = Recorded(calls) OBVIOUS
<1>2. IsList(calls) BY <1>1 DEF WellMessage
<1>3. /\ w.role = "assistant" /\ IsList(w.content)
      /\ \A c \in ToSet(w.content) :
           \/ c.type \in {"reasoning", "text"}
           \/ \E i \in 1..Len(calls) :
                c = Part("tool-call", << >>, FALSE, calls[i].id, calls[i].name)
      /\ \A i \in 1..Len(calls) :
           Part("tool-call", << >>, FALSE, calls[i].id, calls[i].name) \in ToSet(w.content)
  <2>1. HasCalls(w, calls) BY <1>1, AssistantParts
  <2> QED BY <2>1 DEF HasCalls
<1>4. /\ IsList(rec) /\ (\A c \in ToSet(rec) : c \in ToSet(calls))
      /\ \A c \in ToSet(calls) : c.id # NoId => c \in ToSet(rec)
  BY <1>1, <1>2, RecordedAre
<1>5. Names(ns, names, rec, Len(rec)) BY <1>1, <1>4, WithNamesIs
<1>6. DOMAIN rec = 1..Len(rec) /\ DOMAIN calls = 1..Len(calls) BY <1>2, <1>4, ListElements
<1>7. Uncalling(w)
  <2> SUFFICES ASSUME NEW c \in ToSet(w.content) PROVE c.type # "call" BY DEF Uncalling
  <2>1. CASE \E i \in 1..Len(calls) :
               c = Part("tool-call", << >>, FALSE, calls[i].id, calls[i].name)
    <3>0. PICK i \in 1..Len(calls) :
            c = Part("tool-call", << >>, FALSE, calls[i].id, calls[i].name)
      BY <2>1
    <3>01. IsCallPart(c, calls[i].id, calls[i].name) BY <3>0, CallPart
    <3>1. c.type = "tool-call" BY <3>01 DEF IsCallPart
    <3> QED BY <3>1
  <2> QED BY <1>3, <2>1
<1>8. ASSUME NEW c, Calls(w, c), c.id # NoId PROVE c.id \in DOMAIN ns
  <2>1. c \in ToSet(w.content) /\ c.type = "tool-call" BY <1>8 DEF Calls
  <2>2. PICK i \in 1..Len(calls) : c = Part("tool-call", << >>, FALSE, calls[i].id, calls[i].name)
    BY <1>3, <2>1
  <2>21. IsCallPart(c, calls[i].id, calls[i].name) BY <2>2, CallPart
  <2>3. c.id = calls[i].id BY <2>21 DEF IsCallPart
  <2>4. calls[i] \in ToSet(calls) BY <1>2, <1>6, ListElements
  <2>5. calls[i] \in ToSet(rec) BY <1>4, <1>8, <2>3, <2>4
  <2>6. PICK k \in 1..Len(rec) : calls[i] = rec[k] BY <1>4, <1>6, <2>5, ListElements
  <2> QED BY <1>5, <2>3, <2>6 DEF Names
<1>9. ASSUME NEW id \in DOMAIN ns
      PROVE  \/ id \in DOMAIN names /\ ns[id] = names[id]
             \/ \E c : Calls(w, c) /\ c.id = id /\ ns[id] = c.name
  <2>1. CASE \E k \in 1..Len(rec) : rec[k].id = id /\ ns[id] = rec[k].name
    <3>1. PICK k \in 1..Len(rec) : rec[k].id = id /\ ns[id] = rec[k].name BY <2>1
    <3>2. rec[k] \in ToSet(calls) BY <1>4, <1>6, ListElements
    <3>3. PICK i \in 1..Len(calls) : rec[k] = calls[i] BY <1>2, <1>6, <3>2, ListElements
    <3>4. PICK c : c = Part("tool-call", << >>, FALSE, calls[i].id, calls[i].name) OBVIOUS
    <3>5. c \in ToSet(w.content) BY <1>3, <3>4
    <3>51. IsCallPart(c, calls[i].id, calls[i].name) BY <3>4, CallPart
    <3>6. c.type = "tool-call" /\ c.id = id /\ c.name = ns[id] BY <3>1, <3>3, <3>51 DEF IsCallPart
    <3>7. Calls(w, c) BY <3>5, <3>6 DEF Calls
    <3> QED BY <3>6, <3>7
  <2> QED BY <1>5, <2>1 DEF Names
<1>10. DOMAIN names \subseteq DOMAIN ns BY <1>5 DEF Names
<1> QED BY <1>3, <1>7, <1>8, <1>9, <1>10 DEF NamesFrom

\* A message that calls nothing leaves the names as they are.
LEMMA OtherNames ==
  ASSUME NEW m, WellMessage(m), m.role # "assistant", NEW names,
         NEW w, w = ccMessage(m, names)
  PROVE  NamesFrom(w, names, names)
<1>1. CASE m.role = "user"
  <2>1. PICK c, v : c = m.content /\ v = ccUserContent(c) OBVIOUS
  <2>2. w.role = "user" /\ w.content = v BY <1>1, <2>1 DEF ccMessage
  <2>3. IsList(c) /\ \A p \in ToSet(c) : p.type \notin {"tool-call", "call"}
    BY <1>1, <2>1 DEF WellMessage, Uncalled
  <2>4. /\ DOMAIN v = DOMAIN c /\ v = [i \in DOMAIN c |-> v[i]]
        /\ \A i \in DOMAIN c : v[i] = IF c[i].type = "image_url"
                                      THEN Part("image", c[i].text, FALSE, NoId, "") ELSE c[i]
    BY <2>1 DEF ccUserContent
  <2>5. IsList(v) BY <2>3, <2>4, MadeList
  <2>6. ASSUME NEW p \in ToSet(v) PROVE p.type \notin {"tool-call", "call"}
    <3>1. PICK i \in DOMAIN v : p = v[i] BY <2>5, ListElements
    <3>2. CASE c[i].type = "image_url"
      <4>1. p = Part("image", c[i].text, FALSE, NoId, "") BY <2>4, <3>1, <3>2
      <4>2. \A text : Part("image", text, FALSE, NoId, "").type = "image" BY DEF Part
      <4>3. p.type = "image" BY <4>1, <4>2, Zenon
      <4> QED BY <4>3
    <3>3. CASE c[i].type # "image_url"
      <4>1. p = c[i] /\ i \in DOMAIN c BY <2>4, <3>1, <3>3
      <4>2. p \in ToSet(c) BY <2>3, <4>1, ListElements
      <4> QED BY <2>3, <4>2
    <3> QED BY <3>2, <3>3
  <2>7. Uncalling(w) /\ \A c2 : ~Calls(w, c2) BY <2>2, <2>6 DEF Uncalling, Calls
  <2> QED BY <2>2, <2>7 DEF NamesFrom
<1>2. CASE m.role = "tool"
  <2>1. PICK t : t = Part("tool-result", Joined(OfType(m.content, {"text"})), FALSE,
                          m.tool_call_id, toolResultName(m, names))
    OBVIOUS
  <2>2. w.role = "tool" /\ w.content = << t >> BY <1>2, <2>1 DEF ccMessage
  <2>3. t.type = "tool-result" /\ t.id = m.tool_call_id /\ t.name = toolResultName(m, names)
    BY <2>1 DEF Part
  <2>4. ToSet(w.content) = {t} /\ w.content[1] = t BY <2>2, OneList
  <2>5. Uncalling(w) /\ \A c : ~Calls(w, c) BY <2>3, <2>4 DEF Uncalling, Calls
  <2>6. IsToolMessage(w) BY <2>2, <2>3 DEF IsToolMessage
  <2>7. t.id \in DOMAIN names => names[t.id] \in {"", t.name}
    BY <2>3 DEF toolResultName, Name
  <2> QED BY <2>4, <2>5, <2>6, <2>7 DEF NamesFrom
<1>3. CASE m.role \notin {"user", "tool"}
  <2>1. PICK t : t = Text(Joined(m.content), FALSE) OBVIOUS
  <2>2. w.role = "user" /\ w.content = << t >> BY <1>3, <2>1 DEF ccMessage
  <2>3. t.type = "text" BY <2>1, TextFields
  <2>4. ToSet(w.content) = {t} BY <2>2, OneList
  <2>5. Uncalling(w) /\ \A c : ~Calls(w, c) BY <2>3, <2>4 DEF Uncalling, Calls
  <2> QED BY <2>2, <2>5 DEF NamesFrom
<1> QED BY <1>1, <1>2, <1>3

\* After all messages.
LEMMA ChatNames ==
  ASSUME NEW ms, Messages(ms)
  PROVE  \E names : NamesOK(chatMessages(ms), names)
<1> DEFINE n == Len(ms)
<1>1. IsList(ms) /\ n \in Nat /\ DOMAIN ms = 1..n BY ListElements DEF Messages
<1>2. \A i \in 1..n : WellMessage(ms[i]) BY <1>1, ListElements DEF Messages
<1> HIDE DEF n
<1>3. PICK r : Chat!IsTrace(r, 0, NoChat, ms, n) /\ Chat!Fold(0, NoChat, ms) = r[n]
  BY <1>1, Chat!FoldTrace
<1>4. r[0] = NoChat /\ \A k \in 1..n : r[k] = chatMessage(r[k-1], ms[k])
  BY <1>3 DEF Chat!IsTrace, ChatOp
<1> DEFINE K == {k \in Nat : k <= n => NamesOK(r[k].messages, r[k].names)}
<1>5. 0 \in K
  <2>1. r[0].messages = << >> /\ r[0].names = << >> BY <1>4 DEF NoChat
  <2>2. NamesOK(<< >>, << >>) BY NoList DEF NamesOK, CallsNamed, AllNamed
  <2> QED BY <2>1, <2>2
<1>6. ASSUME NEW k \in Nat, k \in K PROVE k + 1 \in K
  <2> SUFFICES ASSUME k + 1 <= n PROVE NamesOK(r[k + 1].messages, r[k + 1].names) OBVIOUS
  <2>1. k + 1 \in 1..n /\ (k + 1) - 1 = k /\ k <= n BY <1>1
  <2>2. NamesOK(r[k].messages, r[k].names) BY <1>6, <2>1
  <2>3. PICK m, d, e : m = ms[k + 1] /\ d = r[k] /\ e = r[k + 1] OBVIOUS
  <2>4. e = chatMessage(d, m) /\ WellMessage(m) BY <1>2, <1>4, <2>1, <2>3
  <2>5. CASE m.role \in SystemRoles
    <3>1. e = d BY <2>4, <2>5 DEF chatMessage, SystemRoles
    <3> QED BY <2>2, <2>3, <3>1
  <2>6. CASE m.role \notin SystemRoles /\ m.role = "assistant"
    <3>1. PICK ns, w : /\ ns = WithNames(d.names, Recorded(m.tool_calls))
                       /\ w = ccAssistantMessage(m)
      OBVIOUS
    <3>2. ccMessage(m, ns) = w BY <2>6, <3>1 DEF ccMessage
    <3>3. e = [messages |-> Append(d.messages, w), names |-> ns]
      BY <2>4, <2>6, <3>1, <3>2 DEF chatMessage, SystemRoles, Recorded
    <3>4. NamesFrom(w, d.names, ns) BY <2>4, <3>1, AssistantNames
    <3>5. PICK mm, nn : mm = d.messages /\ nn = d.names OBVIOUS
    <3>6. NamesOK(Append(mm, w), ns) BY <2>2, <2>3, <3>4, <3>5, NamesMore
    <3> QED BY <2>3, <3>3, <3>5, <3>6
  <2>7. CASE m.role \notin SystemRoles /\ m.role # "assistant"
    <3>1. PICK ns, w : ns = d.names /\ w = ccMessage(m, ns) OBVIOUS
    <3>2. e = [messages |-> Append(d.messages, w), names |-> ns]
      BY <2>4, <2>7, <3>1 DEF chatMessage, SystemRoles
    <3>3. NamesFrom(w, ns, ns) BY <2>4, <2>7, <3>1, OtherNames
    <3>4. PICK mm : mm = d.messages OBVIOUS
    <3>5. NamesOK(Append(mm, w), ns) BY <2>2, <2>3, <3>1, <3>3, <3>4, NamesMore
    <3> QED BY <2>3, <3>2, <3>4, <3>5
  <2> QED BY <2>5, <2>6, <2>7
<1> HIDE DEF K
<1>7. \A k \in Nat : k \in K BY <1>5, <1>6, Chat!SetInduction
<1>8. NamesOK(r[n].messages, r[n].names) BY <1>1, <1>7 DEF K
<1>9. chatMessages(ms) = r[n].messages BY <1>3, ChatIsFold
<1> QED BY <1>8, <1>9

-----------------------------------------------------------------------------
(* A conversation in which every result follows its call.                  *)

\* A call, and the result of it.
IsFor(c, t) ==
  c.kind = "call" /\ c.id = t.id /\ c.id # NoId /\ c.name # "" /\ t.text = <<"result", c.name>>

Answered(x) ==
  \A q \in 1..Len(x) : x[q].kind = "result" => \E p \in 1..(q - 1) : IsFor(x[p], x[q])

OneName(x) ==
  \A p, q \in 1..Len(x) :
    x[p].kind = "call" /\ x[q].kind = "call" /\ x[p].id = x[q].id => x[p].name = x[q].name

\* What ResultsNamed says of the messages the upstream is sent.
ResultOK(messages, j) ==
  \E i \in 1..(j - 1) : \E c \in ToSet(messages[i].content) :
    /\ c.type = "tool-call" /\ c.id = messages[j].content[1].id
    /\ c.name = messages[j].content[1].name
    /\ messages[j].content[1].text = <<"result", c.name>>

ResultsOK(messages) == \A j \in DOMAIN messages : messages[j].role = "tool" => ResultOK(messages, j)

LEMMA CallThing ==
  ASSUME NEW role, NEW c, NEW th, th = ThingOf(role, c)
  PROVE  /\ th.kind = "call" /\ c.type # "call" => c.type = "tool-call"
         /\ c.type = "tool-call" => th.kind = "call" /\ th.id = c.id /\ th.name = c.name
         /\ c.type = "tool-result" => th.kind = "result" /\ th.id = c.id /\ th.text = c.text
<1> DEFINE kind == CASE c.type = "text" /\ role = "assistant" -> "answer"
                     [] c.type = "tool-call" -> "call"
                     [] c.type = "tool-result" -> "result"
                     [] OTHER -> c.type
<1>1. th = Thing(kind, c.text, c.id, IF kind = "call" THEN c.name ELSE "", c.cache) BY DEF ThingOf
<1>2. /\ c.type = "tool-call" => kind = "call"
      /\ c.type = "tool-result" => kind = "result"
      /\ kind = "call" => c.type \in {"tool-call", "call"}
  OBVIOUS
<1> HIDE DEF kind
<1>3. PICK k, name : k = kind /\ name = (IF k = "call" THEN c.name ELSE "") OBVIOUS
<1>4. th = Thing(k, c.text, c.id, name, c.cache) BY <1>1, <1>3, Zenon
<1>5. th.kind = k /\ th.text = c.text /\ th.id = c.id /\ th.name = name BY <1>4 DEF Thing
<1> QED BY <1>2, <1>3, <1>5

LEMMA ResultsFollow ==
  ASSUME NEW ms, Messages(ms), NEW x, x = Meant(ms), Answered(x), OneName(x)
  PROVE  ResultsOK(chatMessages(ms))
<1>1. PICK M, n : M = chatMessages(ms) /\ n = Len(M) OBVIOUS
<1>2. PICK names : NamesOK(M, names) BY <1>1, ChatNames
<1>3. Sendable(M) /\ Told(M) = x BY <1>1, ChatTells DEF Tells
<1>4. IsList(M) /\ n \in Nat /\ DOMAIN M = 1..n BY <1>1, <1>3, ListElements DEF Sendable
<1>5. \A i \in 1..n : IsList(M[i].content) BY <1>3, <1>4, ListElements DEF Sendable
<1> DEFINE ss == [i \in DOMAIN M |-> SentThings(M[i])]
<1>6. /\ ss = [i \in 1..n |-> ss[i]] /\ x = FlattenSeq(ss)
      /\ \A i \in 1..n : ss[i] = SentThings(M[i])
  BY <1>3, <1>4 DEF Told
<1> HIDE DEF ss
<1>7. IsList(ss) /\ Len(ss) = n /\ \A y \in ToSet(ss) : \E i \in 1..n : y = ss[i]
  BY <1>4, <1>6, ListMade
<1>8. Lists(ss)
  <2>1. \A i \in 1..n : IsList(ss[i]) BY <1>5, <1>6, SentList
  <2> QED BY <1>7, <2>1 DEF Lists
<1>9. ASSUME NEW i \in 1..n
      PROVE  /\ Len(ss[i]) = Len(M[i].content)
             /\ \A h \in 1..Len(ss[i]) : /\ ss[i][h] = ThingOf(M[i].role, M[i].content[h])
                                         /\ M[i].content[h] \in ToSet(M[i].content)
  <2>1. PICK m, c, s : m = M[i] /\ c = m.content /\ s = ss[i] OBVIOUS
  <2>2. s = [h \in DOMAIN c |-> ThingOf(m.role, c[h])] BY <1>6, <2>1, SentIs
  <2>3. IsList(c) /\ DOMAIN c = 1..Len(c) /\ \A h \in 1..Len(c) : c[h] \in ToSet(c)
    BY <1>5, <2>1, ListElements
  <2>4. Len(s) = Len(c) BY <2>2, <2>3, MadeList
  <2> QED BY <2>1, <2>2, <2>3, <2>4
<1>10. \A i \in 1..n : Uncalling(M[i]) /\ (M[i].role = "tool" => ToolNamed(M, i))
  BY <1>1, <1>2 DEF NamesOK
<1> SUFFICES ASSUME NEW j \in 1..n, M[j].role = "tool" PROVE ResultOK(M, j)
  BY <1>1, <1>4 DEF ResultsOK
<1>11. ToolNamed(M, j) BY <1>10
<1>12. PICK t : M[j].content = << t >> /\ t.type = "tool-result" BY <1>11 DEF ToolNamed, IsToolMessage
<1>13. M[j].content[1] = t /\ Len(M[j].content) = 1 BY <1>12, OneList
<1>14. 1 \in 1..Len(ss[j]) /\ ss[j][1] = ThingOf(M[j].role, t) BY <1>9, <1>13
<1>15. PICK u : u = ss[j][1] OBVIOUS
<1>16. u.kind = "result" /\ u.id = t.id /\ u.text = t.text BY <1>12, <1>14, <1>15, CallThing
<1>17. PlaceOf(x, ss, j, 1) BY <1>6, <1>7, <1>8, <1>14, PlaceFound
<1>18. PICK q \in 1..Len(x) :
         /\ x[q] = u
         /\ \A p \in 1..(q - 1) : \E k \in 1..j : \E h \in 1..Len(ss[k]) :
              x[p] = ss[k][h] /\ (k = j => h < 1)
  BY <1>15, <1>17 DEF PlaceOf
<1>19. PICK p \in 1..(q - 1) : IsFor(x[p], u) BY <1>16, <1>18 DEF Answered
<1>20. PICK k \in 1..j : \E h \in 1..Len(ss[k]) : x[p] = ss[k][h] /\ (k = j => h < 1) BY <1>18
<1>21. PICK h \in 1..Len(ss[k]) : x[p] = ss[k][h] /\ (k = j => h < 1) BY <1>20
<1>22. k \in 1..n /\ k \in 1..(j - 1)
  <2>1. h >= 1 OBVIOUS
  <2>2. k # j BY <1>21, <2>1
  <2> QED BY <1>4, <2>2
<1>23. PICK c, v : c = M[k].content[h] /\ v = x[p] OBVIOUS
<1>24. v = ThingOf(M[k].role, c) /\ c \in ToSet(M[k].content) BY <1>9, <1>21, <1>22, <1>23
<1>25. v.kind = "call" /\ v.id = u.id /\ v.id # NoId /\ v.name # "" /\ u.text = <<"result", v.name>>
  BY <1>19, <1>23 DEF IsFor
<1>26. c.type # "call" BY <1>10, <1>22, <1>24 DEF Uncalling
<1>27. c.type = "tool-call" BY <1>24, <1>25, <1>26, CallThing
<1>28. v.id = c.id /\ v.name = c.name BY <1>24, <1>27, CallThing
<1>29. Calls(M[k], c) /\ c.id = t.id /\ c.id # NoId BY <1>16, <1>24, <1>25, <1>27, <1>28 DEF Calls
<1>30. PICK l \in 1..n : \E d : /\ Calls(M[l], d) /\ d.id = c.id
                                /\ d.name \in {"", M[j].content[1].name}
  BY <1>1, <1>11, <1>13, <1>22, <1>29 DEF ToolNamed
<1>31. PICK d : Calls(M[l], d) /\ d.id = c.id /\ d.name \in {"", t.name} BY <1>13, <1>30
<1>32. c.name = d.name
  <2>1. d \in ToSet(M[l].content) /\ d.type = "tool-call" BY <1>31 DEF Calls
  <2>11. PICK s : s = M[l].content OBVIOUS
  <2>12. IsList(s) /\ d \in ToSet(s) BY <1>5, <2>1, <2>11
  <2>15. (\E g \in DOMAIN s : d = s[g]) /\ DOMAIN s = 1..Len(s) BY <2>12, ListElements
  <2>2. PICK g \in 1..Len(M[l].content) : d = M[l].content[g] BY <2>11, <2>15
  <2>3. g \in 1..Len(ss[l]) /\ ss[l][g] = ThingOf(M[l].role, d) BY <1>9, <2>2
  <2>4. l \in 1..Len(ss) BY <1>7
  <2>5. PlaceOf(x, ss, l, g) BY <1>6, <1>8, <2>3, <2>4, PlaceFound
  <2>6. PICK b \in 1..Len(x) : x[b] = ss[l][g] BY <2>5 DEF PlaceOf
  <2>7. x[b].kind = "call" /\ x[b].id = d.id /\ x[b].name = d.name BY <2>1, <2>3, <2>6, CallThing
  <2>8. p \in 1..Len(x)
    <3>1. x = FlattenSeq(ss) BY <1>6
    <3>2. IsList(x) BY <1>8, <3>1, FlattenConcat
    <3>3. Len(x) \in Nat BY <3>2, ListElements
    <3> QED BY <3>3
  <2>9. PICK e, w : e = x[p] /\ w = x[b] OBVIOUS
  <2>10. /\ e.kind = "call" /\ e.id = c.id /\ e.name = c.name
         /\ w.kind = "call" /\ w.id = d.id /\ w.name = d.name
    BY <1>23, <1>25, <1>28, <2>7, <2>9
  <2>13. e.id = w.id BY <1>31, <2>10
  <2>14. e.name = w.name BY <2>8, <2>9, <2>10, <2>13 DEF OneName
  <2> QED BY <2>10, <2>14
<1>33. c.name = t.name BY <1>25, <1>28, <1>31, <1>32
<1>34. t.text = <<"result", c.name>> BY <1>16, <1>25, <1>28
<1> QED BY <1>13, <1>22, <1>24, <1>27, <1>29, <1>33, <1>34 DEF ResultOK

-----------------------------------------------------------------------------
(* The calls and results of a conversation's turns.                        *)

\* A call in a turn, and one that a turn is the result of.
TurnCalls(t, c) == t.kind = "answer" /\ c \in ToSet(t.answer[1].calls)

Answers(t, c) ==
  t.id = c.id /\ c.id # NoId /\ c.name # "" /\ t.parts[1].text = <<"result", c.name>>

TurnsAnswered(turns) ==
  \A j \in 1..Len(turns) : turns[j].kind = "result" =>
    \E i \in 1..(j - 1) : \E c : TurnCalls(turns[i], c) /\ Answers(turns[j], c)

TurnsNamed(turns) ==
  \A i, j \in 1..Len(turns) : \A c, d :
    TurnCalls(turns[i], c) /\ TurnCalls(turns[j], d) /\ c.id = d.id => c.name = d.name

CallTold(c) == Thing("call", << >>, c.id, c.name, FALSE)

\* The things that are told of a turn: its calls, and its output if it is a result.
ToldOf(t, s) ==
  /\ IsList(s)
  /\ \A h \in 1..Len(s) :
       /\ s[h].kind = "call" => \E c : TurnCalls(t, c) /\ s[h].id = c.id /\ s[h].name = c.name
       /\ s[h].kind = "result" => /\ t.kind = "result" /\ s[h].id = t.id
                                  /\ s[h].text = t.parts[1].text
  /\ \A c : TurnCalls(t, c) => \E h \in 1..Len(s) : s[h] = CallTold(c)

HasFields(th, kind, text, id, name) ==
  th.kind = kind /\ th.text = text /\ th.id = id /\ th.name = name

LEMMA ThingFields ==
  \A kind, text, id, name, cache : HasFields(Thing(kind, text, id, name, cache), kind, text, id, name)
BY DEF Thing, HasFields

LEMMA CallToldIs ==
  ASSUME NEW c, NEW th, th = CallTold(c)
  PROVE  th.kind = "call" /\ th.id = c.id /\ th.name = c.name
<1>1. PICK id, name, kind, text, no : id = c.id /\ name = c.name /\ kind = "call" /\ text = << >> /\ no = FALSE
  OBVIOUS
<1>2. th = Thing(kind, text, id, name, no) BY <1>1 DEF CallTold
<1>3. HasFields(th, kind, text, id, name) BY <1>2, ThingFields
<1> QED BY <1>1, <1>3 DEF HasFields

LEMMA AnswerToldOf ==
  ASSUME NEW t, IsAnswerTurn(t), NEW a, a = t.answer[1], NEW s, s = AnswerThings(a)
  PROVE  ToldOf(t, s)
<1> DEFINE r == IF a.thinking = << >> THEN << >>
                ELSE << Thing("reasoning", a.thinking, NoId, "", FALSE) >>
           o == IF a.text = << >> THEN << >> ELSE << Thing("answer", a.text, NoId, "", FALSE) >>
           f == [i \in DOMAIN a.calls |-> Thing("call", << >>, a.calls[i].id, a.calls[i].name, FALSE)]
<1>1. t.kind = "answer" BY DEF IsAnswerTurn
<1>2. IsAnswer(a) BY AnswerTurnIs
<1>3. PICK calls : calls = a.calls OBVIOUS
<1>4. IsList(calls) BY <1>2, <1>3 DEF IsAnswer
<1>5. s = r \o o \o f BY DEF AnswerThings
<1>6. /\ DOMAIN f = DOMAIN calls /\ f = [i \in DOMAIN calls |-> f[i]]
      /\ \A i \in DOMAIN calls : f[i] = CallTold(calls[i])
  BY <1>3 DEF CallTold
<1>7. IsList(r) /\ \A c \in ToSet(r) : c.kind = "reasoning"
  <2>1. PICK p : p = Thing("reasoning", a.thinking, NoId, "", FALSE) OBVIOUS
  <2>11. HasFields(p, "reasoning", a.thinking, NoId, "") BY <2>1, ThingFields
  <2>2. p.kind = "reasoning" BY <2>11 DEF HasFields
  <2>3. r = << >> \/ r = << p >> BY <2>1
  <2> HIDE DEF r
  <2> QED BY <2>2, <2>3, OneList, NoList
<1>8. IsList(o) /\ \A c \in ToSet(o) : c.kind = "answer"
  <2>1. PICK p : p = Thing("answer", a.text, NoId, "", FALSE) OBVIOUS
  <2>11. HasFields(p, "answer", a.text, NoId, "") BY <2>1, ThingFields
  <2>2. p.kind = "answer" BY <2>11 DEF HasFields
  <2>3. o = << >> \/ o = << p >> BY <2>1
  <2> HIDE DEF o
  <2> QED BY <2>2, <2>3, OneList, NoList
<1> HIDE DEF f, r, o
<1>9. IsList(f) /\ DOMAIN calls = 1..Len(calls)
      /\ (\A c \in ToSet(f) : \E i \in DOMAIN f : c = f[i]) /\ \A i \in DOMAIN f : f[i] \in ToSet(f)
  <2>1. IsList(f) BY <1>4, <1>6, MadeList
  <2> QED BY <1>4, <2>1, ListElements
<1>10. PICK ro : ro = r \o o OBVIOUS
<1>11. IsList(ro) /\ ToSet(ro) = ToSet(r) \cup ToSet(o)
  <2>1. IsList(r \o o) /\ ToSet(r \o o) = ToSet(r) \cup ToSet(o) BY <1>7, <1>8, Concatenated
  <2> QED BY <1>10, <2>1, Zenon
<1>12. IsList(s) /\ ToSet(s) = ToSet(ro) \cup ToSet(f)
  <2>1. IsList(ro \o f) /\ ToSet(ro \o f) = ToSet(ro) \cup ToSet(f) BY <1>9, <1>11, Concatenated
  <2>2. s = ro \o f BY <1>5, <1>10, Zenon
  <2> QED BY <2>1, <2>2, Zenon
<1>13. DOMAIN s = 1..Len(s) /\ \A h \in 1..Len(s) : s[h] \in ToSet(s) BY <1>12, ListElements
<1>14. ASSUME NEW h \in 1..Len(s)
       PROVE  /\ s[h].kind = "call" =>
                   \E c : TurnCalls(t, c) /\ s[h].id = c.id /\ s[h].name = c.name
              /\ s[h].kind # "result"
  <2>1. PICK e : e = s[h] OBVIOUS
  <2>2. e \in ToSet(r) \/ e \in ToSet(o) \/ e \in ToSet(f) BY <1>11, <1>12, <1>13, <2>1
  <2>3. CASE e \in ToSet(f)
    <3>1. PICK i \in DOMAIN f : e = f[i] BY <1>9, <2>3
    <3>2. PICK c : c = calls[i] OBVIOUS
    <3>3. e = CallTold(c) /\ c \in ToSet(calls) BY <1>4, <1>6, <3>1, <3>2, ListElements
    <3>4. e.kind = "call" /\ e.id = c.id /\ e.name = c.name BY <3>3, CallToldIs
    <3>5. TurnCalls(t, c) BY <1>1, <1>3, <3>3 DEF TurnCalls
    <3> QED BY <2>1, <3>4, <3>5
  <2>4. CASE e \in ToSet(r) \/ e \in ToSet(o)
    <3>1. e.kind \in {"reasoning", "answer"} BY <1>7, <1>8, <2>4
    <3> QED BY <2>1, <3>1
  <2> QED BY <2>2, <2>3, <2>4
<1>15. ASSUME NEW c, TurnCalls(t, c) PROVE \E h \in 1..Len(s) : s[h] = CallTold(c)
  <2>1. c \in ToSet(calls) BY <1>3, <1>15 DEF TurnCalls
  <2>2. PICK i \in DOMAIN calls : c = calls[i] BY <1>4, <2>1, ListElements
  <2>3. f[i] = CallTold(c) /\ f[i] \in ToSet(s) BY <1>6, <1>9, <1>12, <2>2
  <2>4. PICK h \in DOMAIN s : f[i] = s[h] BY <1>12, <2>3, ListElements
  <2> QED BY <1>13, <2>3, <2>4
<1> QED BY <1>12, <1>14, <1>15 DEF ToldOf

LEMMA TurnToldOf ==
  ASSUME NEW t, IsTurn(format, t)
  PROVE  ToldOf(t, TurnThings(t))
<1>1. CASE IsUserTurn(format, t)
  <2>1. PICK parts, s : parts = t.parts /\ s = PartThings(parts) OBVIOUS
  <2>2. TurnThings(t) = s /\ t.kind = "user" /\ IsSaid(parts)
    BY <1>1, <2>1, UserTurnIs DEF IsUserTurn
  <2>3. s = [i \in DOMAIN parts |->
               Thing(parts[i].type, parts[i].text, NoId, "", parts[i].cache)]
    BY <2>1 DEF PartThings
  <2>4. IsList(parts) /\ \A p \in ToSet(parts) : p.type \in {"text", "image"}
    BY <2>2, SaidTypes DEF IsSaid
  <2>5. DOMAIN parts = 1..Len(parts) /\ \A i \in 1..Len(parts) : parts[i] \in ToSet(parts)
    BY <2>4, ListElements
  <2>6. IsList(s) /\ Len(s) = Len(parts)
    <3>1. DOMAIN s = DOMAIN parts /\ s = [i \in DOMAIN parts |-> s[i]] BY <2>3
    <3> QED BY <2>4, <3>1, MadeList
  <2>7. ASSUME NEW h \in 1..Len(s) PROVE s[h].kind \in {"text", "image"}
    <3>1. s[h] = Thing(parts[h].type, parts[h].text, NoId, "", parts[h].cache)
      BY <2>3, <2>5, <2>6
    <3>11. PICK p : p = parts[h] OBVIOUS
    <3>12. HasFields(s[h], p.type, p.text, NoId, "") BY <3>1, <3>11, ThingFields
    <3>2. s[h].kind = parts[h].type BY <3>11, <3>12 DEF HasFields
    <3> QED BY <2>4, <2>5, <2>6, <3>2
  <2>8. \A c : ~TurnCalls(t, c) BY <2>2 DEF TurnCalls
  <2>9. \A h \in 1..Len(s) : s[h].kind # "call" /\ s[h].kind # "result" BY <2>7
  <2> QED BY <2>2, <2>6, <2>8, <2>9 DEF ToldOf
<1>2. CASE IsSystemTurn(format, t)
  <2>1. TurnThings(t) = << >> /\ t.kind = "system" BY <1>2, SystemTurnIs DEF IsSystemTurn
  <2>2. \A c : ~TurnCalls(t, c) BY <2>1 DEF TurnCalls
  <2> QED BY <2>1, <2>2, NoList DEF ToldOf
<1>3. CASE IsAnswerTurn(t)
  <2>1. PICK a : a = t.answer[1] OBVIOUS
  <2>2. \/ TurnThings(t) = AnswerThings(a)
        \/ TurnThings(t) = << >> /\ a.calls = << >>
    BY <1>3, <2>1, AnswerTurnIs
  <2>3. ToldOf(t, AnswerThings(a)) BY <1>3, <2>1, AnswerToldOf
  <2>4. CASE TurnThings(t) = << >> /\ a.calls = << >>
    <3>1. \A c : ~TurnCalls(t, c) BY <2>1, <2>4, NoList DEF TurnCalls
    <3> QED BY <2>4, <3>1, NoList DEF ToldOf
  <2> QED BY <2>2, <2>3, <2>4
<1>4. CASE IsResultTurn(t)
  <2>1. PICK th, s : th = Thing("result", t.parts[1].text, t.id, "", FALSE) /\ s = << th >> OBVIOUS
  <2>2. TurnThings(t) = s /\ t.kind = "result" BY <1>4, <2>1, ResultTurnIs DEF IsResultTurn
  <2>21. HasFields(th, "result", t.parts[1].text, t.id, "") BY <2>1, ThingFields
  <2>3. th.kind = "result" /\ th.id = t.id /\ th.text = t.parts[1].text BY <2>21 DEF HasFields
  <2>4. IsList(s) /\ Len(s) = 1 /\ s[1] = th BY <2>1, OneList
  <2>5. \A h \in 1..Len(s) : s[h] = th BY <2>4
  <2>6. \A c : ~TurnCalls(t, c) BY <2>2 DEF TurnCalls
  <2> QED BY <2>2, <2>3, <2>4, <2>5, <2>6 DEF ToldOf
<1> QED BY <1>1, <1>2, <1>3, <1>4 DEF IsTurn

LEMMA SpokenAnswered ==
  ASSUME NEW turns, AreTurns(format, turns), TurnsAnswered(turns), TurnsNamed(turns),
         NEW x, x = Spoken(turns)
  PROVE  Answered(x) /\ OneName(x)
<1> DEFINE ss == [i \in DOMAIN turns |-> TurnThings(turns[i])]
<1>1. PICK n : n = Len(turns) OBVIOUS
<1>2. IsList(turns) /\ n \in Nat /\ DOMAIN turns = 1..n BY <1>1, ListElements DEF AreTurns
<1>3. /\ ss = [i \in 1..n |-> ss[i]] /\ x = FlattenSeq(ss)
      /\ \A i \in 1..n : ss[i] = TurnThings(turns[i])
  BY <1>2 DEF Spoken
<1> HIDE DEF ss
<1>4. \A i \in 1..n : ToldOf(turns[i], ss[i]) BY <1>1, <1>3, TurnToldOf DEF AreTurns
<1>5. IsList(ss) /\ Len(ss) = n /\ \A y \in ToSet(ss) : \E i \in 1..n : y = ss[i]
  BY <1>2, <1>3, ListMade
<1>6. Lists(ss) BY <1>4, <1>5 DEF Lists, ToldOf
<1>7. ASSUME NEW q \in 1..Len(x) PROVE SourceOf(x, ss, q) BY <1>3, <1>6, SourceFound
<1>8. ASSUME NEW q \in 1..Len(x), x[q].kind = "result"
      PROVE  \E p \in 1..(q - 1) : IsFor(x[p], x[q])
  <2>1. PICK j \in 1..n : \E i \in 1..Len(ss[j]) :
          /\ x[q] = ss[j][i]
          /\ \A k \in 1..(j - 1) : \A h \in 1..Len(ss[k]) : \E p \in 1..(q - 1) : x[p] = ss[k][h]
    BY <1>5, <1>7 DEF SourceOf
  <2>2. PICK i \in 1..Len(ss[j]) :
          /\ x[q] = ss[j][i]
          /\ \A k \in 1..(j - 1) : \A h \in 1..Len(ss[k]) : \E p \in 1..(q - 1) : x[p] = ss[k][h]
    BY <2>1
  <2>3. PICK t, u : t = turns[j] /\ u = x[q] OBVIOUS
  <2>4. t.kind = "result" /\ u.id = t.id /\ u.text = t.parts[1].text
    BY <1>4, <1>8, <2>2, <2>3 DEF ToldOf
  <2>5. PICK k \in 1..(j - 1) : \E c : TurnCalls(turns[k], c) /\ Answers(t, c)
    BY <1>1, <2>3, <2>4 DEF TurnsAnswered
  <2>6. PICK c : TurnCalls(turns[k], c) /\ Answers(t, c) BY <2>5
  <2>7. k \in 1..n BY <1>2
  <2>8. PICK h \in 1..Len(ss[k]) : ss[k][h] = CallTold(c) BY <1>4, <2>6, <2>7 DEF ToldOf
  <2>9. PICK p \in 1..(q - 1) : x[p] = ss[k][h] BY <2>2, <2>8
  <2>10. PICK v : v = x[p] OBVIOUS
  <2>11. v.kind = "call" /\ v.id = c.id /\ v.name = c.name BY <2>8, <2>9, <2>10, CallToldIs
  <2>12. IsFor(v, u) BY <2>4, <2>6, <2>11 DEF IsFor, Answers
  <2> QED BY <2>3, <2>10, <2>12
<1>9. ASSUME NEW q \in 1..Len(x), x[q].kind = "call"
      PROVE  \E j \in 1..n : \E c : TurnCalls(turns[j], c) /\ x[q].id = c.id /\ x[q].name = c.name
  <2>1. PICK j \in 1..n : \E i \in 1..Len(ss[j]) : x[q] = ss[j][i] BY <1>5, <1>7 DEF SourceOf
  <2>2. PICK i \in 1..Len(ss[j]) : x[q] = ss[j][i] BY <2>1
  <2> QED BY <1>4, <1>9, <2>2 DEF ToldOf
<1>10. ASSUME NEW p \in 1..Len(x), NEW q \in 1..Len(x),
              x[p].kind = "call", x[q].kind = "call", x[p].id = x[q].id
       PROVE  x[p].name = x[q].name
  <2>1. PICK i \in 1..n : \E c : TurnCalls(turns[i], c) /\ x[p].id = c.id /\ x[p].name = c.name
    BY <1>9, <1>10
  <2>2. PICK c : TurnCalls(turns[i], c) /\ x[p].id = c.id /\ x[p].name = c.name BY <2>1
  <2>3. PICK j \in 1..n : \E d : TurnCalls(turns[j], d) /\ x[q].id = d.id /\ x[q].name = d.name
    BY <1>9, <1>10
  <2>4. PICK d : TurnCalls(turns[j], d) /\ x[q].id = d.id /\ x[q].name = d.name BY <2>3
  <2>41. c.id = d.id BY <1>10, <2>2, <2>4
  <2>5. c.name = d.name BY <1>1, <2>2, <2>4, <2>41 DEF TurnsNamed
  <2> QED BY <2>2, <2>4, <2>5
<1> QED BY <1>8, <1>10 DEF Answered, OneName

-----------------------------------------------------------------------------
(* The calls of the answers a client keeps.                                *)

LEMMA CalledIn == ASSUME script \in Scripts \cup FollowUps PROVE CallsIn(Called)
<1> SUFFICES ASSUME NEW j \in DOMAIN script, script[j].type = "tool-call"
             PROVE  script[j].text \in Called
  BY DEF CallsIn
<1>1. script[j] \in ToSet(script) BY DEF ToSet
<1> QED BY <1>1 DEF Called

\* A call with an identifier of the upstream, and one that may have the plugin's, made in
\* response k.
Given(c) ==
  \E t \in Called : CallOf[t].id # "" /\ c.id = << CallOf[t].id, 0, 0 >> /\ c.name = CallOf[t].name

Made(c, k) == c.name # "" /\ (Given(c) \/ \E i : c.id = << "", k, i >>)

LEMMA GivenIs ==
  ASSUME NEW c, Given(c)
  PROVE  c.id[1] # ""
<1>1. PICK t \in Called : CallOf[t].id # "" /\ c.id = << CallOf[t].id, 0, 0 >> BY DEF Given
<1>2. PICK x, v : x = CallOf[t].id /\ v = c.id OBVIOUS
<1>3. v = << x, 0, 0 >> /\ x # "" BY <1>1, <1>2
<1>4. v[1] = x BY <1>3
<1> QED BY <1>2, <1>3, <1>4

LEMMA GivenNames ==
  ASSUME NEW c, NEW d, Given(c), Given(d), c.id = d.id
  PROVE  c.name = d.name
<1>1. PICK t \in Called : /\ CallOf[t].id # "" /\ c.id = << CallOf[t].id, 0, 0 >>
                          /\ c.name = CallOf[t].name
  BY DEF Given
<1>2. PICK u \in Called : /\ CallOf[u].id # "" /\ d.id = << CallOf[u].id, 0, 0 >>
                          /\ d.name = CallOf[u].name
  BY DEF Given
<1>3. PICK x, y : x = CallOf[t].id /\ y = CallOf[u].id OBVIOUS
<1>4. << x, 0, 0 >> = << y, 0, 0 >> BY <1>1, <1>2, <1>3
<1>5. x = y BY <1>4
<1> QED BY <1>1, <1>2, <1>3, <1>5, CallsAssumption

LEMMA MadeIs ==
  ASSUME NEW k \in Nat, k # 0, NEW c, Made(c, k)
  PROVE  c.id # NoId
<1>1. PICK w : w = c.id OBVIOUS
<1>2. CASE Given(c)
  <2>1. w[1] # "" BY <1>1, <1>2, GivenIs
  <2>2. NoId[1] = "" BY DEF NoId
  <2> QED BY <1>1, <2>1, <2>2
<1>3. CASE \E i : w = << "", k, i >>
  <2>1. PICK i : w = << "", k, i >> BY <1>3
  <2>2. w[2] = k BY <2>1
  <2>3. NoId[2] = 0 BY DEF NoId
  <2> QED BY <1>1, <2>2, <2>3
<1> QED BY <1>1, <1>2, <1>3 DEF Made

LEMMA CallMade ==
  ASSUME NEW t \in Called, NEW i, NEW c, c = Call(callID(t, i), t)
  PROVE  Made(c, turn) /\ (Given(c) \/ c.id = << "", turn, i >>)
<1>1. PICK id, name : id = callID(t, i) /\ name = CallOf[t].name OBVIOUS
<1>2. c = Part("tool_use", << >>, FALSE, id, name) BY <1>1, Zenon DEF Call
<1>3. c.id = id /\ c.name = name BY <1>2 DEF Part
<1>4. name # "" BY <1>1, CallsAssumption
<1>5. CASE CallOf[t].id # ""
  <2>1. id = << CallOf[t].id, 0, 0 >> BY <1>1, <1>5 DEF callID
  <2>2. Given(c) BY <1>1, <1>3, <1>5, <2>1 DEF Given
  <2> QED BY <1>3, <1>4, <2>2 DEF Made
<1>6. CASE CallOf[t].id = ""
  <2>1. id = << "", turn, i >> BY <1>1, <1>6 DEF callID
  <2> QED BY <1>3, <1>4, <2>1 DEF Made
<1> QED BY <1>5, <1>6

\* The calls of the answer to request k: their identifiers tell tools apart, unless they
\* are a clock's.
Own(a) == a.streamed \/ \A c \in ToSet(a.calls) : c.id[1] # ""

OneNamed(cs) == \A c, d \in ToSet(cs) : c.id = d.id => c.name = d.name

CallsMade(a, k) ==
  /\ \A c \in ToSet(a.calls) : Made(c, k)
  /\ Own(a) => OneNamed(a.calls)

LEMMA StreamedCalls ==
  ASSUME CutInv, script \in Scripts \cup FollowUps
  PROVE  CallsMade(streamedAnswer, turn)
<1>1. PICK tools : tools = Texts("tool-call") OBVIOUS
<1>2. Tokens(tools, Len(tools), Called) BY <1>1, CalledIn, StreamTokens
<1>3. IsList(tools) BY <1>1, StreamTexts
<1>4. PICK n : n = Len(tools) OBVIOUS
<1>5. DOMAIN tools = 1..n /\ n \in Nat BY <1>3, <1>4, ListElements
<1>6. tools \in Seq(Nat \X STRING) /\ \A i \in 1..n : tools[i][1] = i - 1 /\ tools[i][2] \in Called
  BY <1>2, <1>4 DEF Tokens
<1> DEFINE cs == [i \in DOMAIN tools |-> Call(callID(tools[i][2], tools[i][1] + 1), tools[i][2])]
<1>7. /\ DOMAIN cs = DOMAIN tools /\ cs = [i \in DOMAIN tools |-> cs[i]]
      /\ \A i \in DOMAIN cs : cs[i] = Call(callID(tools[i][2], tools[i][1] + 1), tools[i][2])
  OBVIOUS
<1>8. streamedAnswer.calls = cs BY <1>1 DEF streamedAnswer
<1> HIDE DEF cs
<1>9. IsList(cs) BY <1>3, <1>7, MadeList
<1>10. ASSUME NEW i \in 1..n PROVE Made(cs[i], turn) /\ (Given(cs[i]) \/ cs[i].id = << "", turn, i >>)
  <2>1. PICK t, c : t = tools[i][2] /\ c = cs[i] OBVIOUS
  <2>2. t \in Called BY <1>6, <2>1
  <2>3. tools[i][1] + 1 = i BY <1>6
  <2>4. c = Call(callID(t, i), t) BY <1>5, <1>7, <2>1, <2>3
  <2> QED BY <2>1, <2>2, <2>4, CallMade
<1>11. ASSUME NEW c \in ToSet(cs) PROVE \E i \in 1..n : c = cs[i]
  <2>1. \E i \in DOMAIN cs : c = cs[i] BY <1>9, ListElements
  <2> QED BY <1>5, <1>7, <2>1
<1>12. ASSUME NEW c \in ToSet(cs), NEW d \in ToSet(cs), c.id = d.id PROVE c.name = d.name
  <2>1. PICK i \in 1..n : c = cs[i] BY <1>11
  <2>2. PICK j \in 1..n : d = cs[j] BY <1>11
  <2>3. Given(c) \/ c.id = << "", turn, i >> BY <1>10, <2>1
  <2>4. Given(d) \/ d.id = << "", turn, j >> BY <1>10, <2>2
  <2>5. PICK v, w : v = c.id /\ w = d.id OBVIOUS
  <2>6. CASE Given(c) /\ Given(d) BY <1>12, <2>6, GivenNames
  <2>7. CASE Given(c) /\ ~Given(d)
    <3>1. v[1] # "" BY <2>5, <2>7, GivenIs
    <3>2. w = << "", turn, j >> BY <2>4, <2>5, <2>7
    <3>3. w[1] = "" BY <3>2
    <3> QED BY <1>12, <2>5, <3>1, <3>3
  <2>8. CASE ~Given(c) /\ Given(d)
    <3>1. w[1] # "" BY <2>5, <2>8, GivenIs
    <3>2. v = << "", turn, i >> BY <2>3, <2>5, <2>8
    <3>3. v[1] = "" BY <3>2
    <3> QED BY <1>12, <2>5, <3>1, <3>3
  <2>9. CASE ~Given(c) /\ ~Given(d)
    <3>1. << "", turn, i >> = << "", turn, j >> BY <1>12, <2>3, <2>4, <2>9
    <3>2. i = j BY <3>1
    <3> QED BY <2>1, <2>2, <3>2
  <2> QED BY <2>6, <2>7, <2>8, <2>9
<1>13. PICK a : a = streamedAnswer OBVIOUS
<1>14. a.calls = cs BY <1>8, <1>13
<1>15. OneNamed(a.calls) BY <1>12, <1>14 DEF OneNamed
<1>16. \A c \in ToSet(a.calls) : Made(c, turn) BY <1>10, <1>11, <1>14
<1> QED BY <1>13, <1>15, <1>16 DEF CallsMade

LEMMA CollectedCalls ==
  ASSUME CutInv, script \in Scripts \cup FollowUps
  PROVE  CallsMade(collectedAnswer, turn)
<1>1. GatheredOK(acc, Called) BY CalledIn, CollectedTokens
<1>2. PICK tools : tools = acc.toolCalls OBVIOUS
<1>3. tools \in Seq(STRING) /\ \A i \in 1..Len(tools) : tools[i] \in Called
  BY <1>1, <1>2 DEF GatheredOK, AccStates
<1>4. IsList(tools) BY <1>3, ListOf
<1>5. PICK n : n = Len(tools) OBVIOUS
<1>6. DOMAIN tools = 1..n /\ n \in Nat BY <1>4, <1>5, ListElements
<1>7. build(acc).tools = tools BY <1>2 DEF build
<1> DEFINE cs == [i \in DOMAIN tools |-> Call(callID(tools[i], 0), tools[i])]
<1>8. /\ DOMAIN cs = DOMAIN tools /\ cs = [i \in DOMAIN tools |-> cs[i]]
      /\ \A i \in DOMAIN cs : cs[i] = Call(callID(tools[i], 0), tools[i])
  OBVIOUS
<1>9. PICK a : a = collectedAnswer OBVIOUS
<1>10. a.calls = cs /\ a.streamed = FALSE BY <1>7, <1>9 DEF collectedAnswer
<1> HIDE DEF cs
<1>11. IsList(cs) BY <1>4, <1>8, MadeList
<1>12. ASSUME NEW c \in ToSet(cs)
       PROVE  Made(c, turn) /\ (Given(c) \/ c.id = << "", turn, 0 >>)
  <2>1. \E i \in DOMAIN cs : c = cs[i] BY <1>11, ListElements
  <2>2. PICK i \in 1..n : c = cs[i] BY <1>6, <1>8, <2>1
  <2>3. PICK t : t = tools[i] OBVIOUS
  <2>4. t \in Called /\ c = Call(callID(t, 0), t) BY <1>3, <1>5, <1>6, <1>8, <2>2, <2>3
  <2> QED BY <2>4, CallMade
<1>13. ASSUME NEW c \in ToSet(cs), c.id[1] # "" PROVE Given(c)
  <2>1. PICK v : v = c.id OBVIOUS
  <2>2. ASSUME v = << "", turn, 0 >> PROVE FALSE
    <3>1. v[1] = "" BY <2>2
    <3> QED BY <1>13, <2>1, <3>1
  <2> QED BY <1>12, <2>1, <2>2
<1>14. ASSUME Own(a) PROVE OneNamed(a.calls)
  <2>1. \A c \in ToSet(cs) : c.id[1] # "" BY <1>10, <1>14 DEF Own
  <2>2. \A c \in ToSet(cs) : Given(c) BY <1>13, <2>1
  <2> QED BY <1>10, <2>2, GivenNames DEF OneNamed
<1>15. \A c \in ToSet(a.calls) : Made(c, turn) BY <1>10, <1>12
<1> QED BY <1>9, <1>14, <1>15 DEF CallsMade

-----------------------------------------------------------------------------
(* The results and calls of a history.                                     *)

\* A result among the reactions to an answer is that of one of its calls.
IsResultOf(t, a) ==
  t.kind = "result" => \E c \in ToSet(a.calls) :
    t.id = c.id /\ t.parts[1].text = <<"result", c.name>>

LEMMA OutputOf ==
  ASSUME NEW a, NEW c \in ToSet(a.calls), NEW t, t = ResultTurn(c.id, <<"result", c.name>>)
  PROVE  IsResultOf(t, a)
<1>1. PICK id, output, p : /\ id = c.id /\ output = <<"result", c.name>>
                           /\ p = Text(output, FALSE)
  OBVIOUS
<1>2. t.parts = << p >> /\ t.id = id BY <1>1, ResultTurnFields
<1>3. t.parts[1] = p BY <1>2, OneList
<1>4. p.text = output BY <1>1, TextFields
<1> QED BY <1>1, <1>2, <1>3, <1>4 DEF IsResultOf

LEMMA ReactionAnswers ==
  ASSUME NEW f \in Formats, NEW a, IsAnswer(a), NEW r \in Reactions(f, a)
  PROVE  \A t \in ToSet(r) : IsResultOf(t, a)
<1> DEFINE calls == a.calls
           results == [i \in DOMAIN calls |-> ResultTurn(calls[i].id, <<"result", calls[i].name>>)]
<1>1. IF results = << >> THEN r \in More(f)
      ELSE \E q \in {results, Reverse(results)}, m \in More(f) \cup {<< >>} : r = q \o m
  <2>1. r \in ReactionsTo(f, results) BY ReactionsAre, Zenon DEF OutputsOf
  <2> HIDE DEF results
  <2> QED BY <2>1 DEF ReactionsTo
<1>2. IsList(calls) BY DEF IsAnswer
<1>3. DOMAIN results = DOMAIN calls /\ results = [i \in DOMAIN calls |-> results[i]]
      /\ \A i \in DOMAIN calls : results[i] = ResultTurn(calls[i].id, <<"result", calls[i].name>>)
  OBVIOUS
<1>4. \A i \in DOMAIN calls : calls[i] \in ToSet(a.calls) BY <1>2, ListElements
<1> HIDE DEF calls, results
<1>5. IsList(results) BY <1>2, <1>3, MadeList
<1>6. ASSUME NEW i \in DOMAIN results PROVE IsResultOf(results[i], a)
  <2>1. PICK c, t : c = calls[i] /\ t = results[i] OBVIOUS
  <2>2. c \in ToSet(a.calls) /\ t = ResultTurn(c.id, <<"result", c.name>>) BY <1>3, <1>4, <2>1
  <2> QED BY <2>1, <2>2, OutputOf
<1>7. \A t \in ToSet(results) : IsResultOf(t, a) BY <1>5, <1>6, ListElements
<1>8. IsList(Reverse(results)) /\ \A t \in ToSet(Reverse(results)) : IsResultOf(t, a)
  <2> DEFINE n == Len(results)
             v == Reverse(results)
  <2>1. n \in Nat /\ DOMAIN results = 1..n BY <1>5, ListElements
  <2>2. v = [i \in 1..n |-> results[(n - i) + 1]] BY DEF Reverse
  <2>3. v = [i \in 1..n |-> v[i]] BY <2>2
  <2>4. \A i \in 1..n : (n - i) + 1 \in 1..n BY <2>1
  <2>5. ASSUME NEW i \in 1..n PROVE IsResultOf(v[i], a)
    <3>1. PICK j : j = (n - i) + 1 OBVIOUS
    <3>2. j \in 1..n BY <2>4, <3>1
    <3>3. v[i] = results[j] BY <2>2, <3>1
    <3> HIDE DEF v
    <3> QED BY <1>6, <2>1, <3>2, <3>3
  <2> HIDE DEF v
  <2>6. IsList(v) /\ \A t \in ToSet(v) : \E i \in 1..n : t = v[i] BY <2>1, <2>3, ListMade
  <2> QED BY <2>5, <2>6 DEF v
<1>9. ASSUME NEW m \in More(f) PROVE IsList(m) /\ \A t \in ToSet(m) : IsResultOf(t, a)
  <2>1. IsMore(f, m) BY <1>9, MoreIs
  <2>2. IsList(m) BY <2>1 DEF IsMore
  <2>3. ASSUME NEW t \in ToSet(m) PROVE t.kind # "result"
    <3>1. (\E i \in DOMAIN m : t = m[i]) /\ DOMAIN m = 1..Len(m) BY <2>2, ListElements
    <3>2. PICK i \in 1..Len(m) : t = m[i] BY <3>1
    <3>3. m[i].kind \in {"user", "system"} BY <2>1 DEF IsMore
    <3> QED BY <3>2, <3>3
  <2> QED BY <2>2, <2>3 DEF IsResultOf
<1>10. CASE results = << >> BY <1>1, <1>9, <1>10
<1>11. CASE results # << >>
  <2>1. PICK q \in {results, Reverse(results)}, m \in More(f) \cup {<< >>} : r = q \o m
    BY <1>1, <1>11
  <2>2. IsList(q) /\ \A t \in ToSet(q) : IsResultOf(t, a) BY <1>5, <1>7, <1>8
  <2>3. IsList(m) /\ \A t \in ToSet(m) : IsResultOf(t, a) BY <1>9, NoList
  <2>4. ToSet(q \o m) = ToSet(q) \cup ToSet(m) BY <2>2, <2>3, Concatenated
  <2> QED BY <2>1, <2>2, <2>3, <2>4
<1> QED BY <1>10, <1>11

\* The identifiers of two responses tell tools apart.
LEMMA MadeApart ==
  ASSUME NEW j, NEW k, j # k, NEW c, NEW d, Made(c, j), Made(d, k), c.id = d.id
  PROVE  c.name = d.name
<1>1. PICK v : v = c.id /\ v = d.id OBVIOUS
<1>2. CASE Given(c) /\ Given(d) BY <1>2, GivenNames
<1>3. CASE \E i : v = << "", j, i >>
  <2>1. PICK i : v = << "", j, i >> BY <1>3
  <2>2. v[1] = "" /\ v[2] = j BY <2>1
  <2>3. ~Given(d) BY <1>1, <2>2, GivenIs
  <2>4. PICK h : v = << "", k, h >> BY <1>1, <2>3 DEF Made
  <2>5. v[2] = k BY <2>4
  <2> QED BY <2>2, <2>5
<1>4. CASE Given(c) /\ ~Given(d)
  <2>1. v[1] # "" BY <1>1, <1>4, GivenIs
  <2>2. PICK h : v = << "", k, h >> BY <1>1, <1>4 DEF Made
  <2>3. v[1] = "" BY <2>2
  <2> QED BY <2>1, <2>3
<1> QED BY <1>1, <1>2, <1>3, <1>4 DEF Made

\* What ResultsNamed asks of the answers: the identifiers came with the calls or from a stream.
AllOwn(h) ==
  \A i \in DOMAIN h : h[i].kind = "answer" /\ ~h[i].answer[1].streamed =>
    \A c \in ToSet(h[i].answer[1].calls) : c.id[1] # ""

\* A history of the responses 1 to n.
CallsBy(h, n) == \A i \in 1..Len(h) : \A c : TurnCalls(h[i], c) => \E k \in 1..n : Made(c, k)

Follow(h, n) ==
  /\ IsList(h) /\ CallsBy(h, n) /\ TurnsAnswered(h)
  /\ AllOwn(h) => TurnsNamed(h)

LEMMA FollowMore ==
  ASSUME NEW h, NEW n \in Nat, Follow(h, n), NEW k, k = n + 1, NEW a, CallsMade(a, k),
         NEW r, IsList(r), \A x \in ToSet(r) : x.kind # "answer" /\ IsResultOf(x, a),
         NEW g, g = (h \o << AnswerTurn(a) >>) \o r
  PROVE  Follow(g, k)
<1> DEFINE H == Len(h)
           K == Len(r)
<1>1. PICK t, one : t = AnswerTurn(a) /\ one = << t >> OBVIOUS
<1>2. t.kind = "answer" /\ t.answer = << a >> BY <1>1, AnswerTurnFields
<1>3. t.answer[1] = a BY <1>2, OneList
<1>4. IsList(h) /\ H \in Nat /\ DOMAIN h = 1..H /\ IsList(r) /\ K \in Nat BY ListElements DEF Follow
<1>5. IsList(one) /\ Len(one) = 1 /\ one[1] = t BY <1>1, OneList
<1>6. PICK m : m = h \o one OBVIOUS
<1>7. Concats(h \o one, h, one) /\ IsList(h \o one) BY <1>4, <1>5, ConcatsAre, Concatenated
<1>8. IsList(m) /\ Len(m) = H + 1 /\ (\A i \in 1..H : m[i] = h[i]) /\ m[H + 1] = t
  <2>1. Concats(m, h, one) /\ IsList(m) BY <1>6, <1>7
  <2>2. 1 \in 1..Len(one) BY <1>5
  <2> QED BY <1>5, <2>1, <2>2 DEF Concats
<1>9. g = m \o r BY <1>1, <1>6
<1>10. Concats(m \o r, m, r) /\ IsList(m \o r) BY <1>4, <1>8, ConcatsAre, Concatenated
<1>11. Concats(g, m, r) /\ IsList(g) BY <1>9, <1>10
<1>12. /\ Len(g) = H + 1 + K /\ \A i \in 1..H : g[i] = h[i]
       /\ g[H + 1] = t /\ \A i \in 1..K : g[H + 1 + i] = r[i]
  BY <1>4, <1>8, <1>11 DEF Concats
<1>13. Len(g) = H + 1 + K BY <1>12
<1>14. DOMAIN g = 1..Len(g) BY <1>11, ListElements
<1>15. DOMAIN r = 1..K /\ \A i \in DOMAIN r : r[i] \in ToSet(r) BY <1>4, ListElements
<1>16. ASSUME NEW i \in 1..Len(g), i \notin 1..H, i # H + 1
       PROVE  H + 1 \in 1..(i - 1) /\ g[i].kind # "answer" /\ IsResultOf(g[i], a)
  <2>1. PICK j : j = i - (H + 1) OBVIOUS
  <2>2. j \in 1..K /\ H + 1 + j = i BY <1>4, <1>13, <1>16, <2>1
  <2>3. g[H + 1 + j] = r[j] BY <1>12, <2>2
  <2>4. g[i] \in ToSet(r) BY <1>15, <2>2, <2>3
  <2>5. H + 1 \in 1..(i - 1) BY <1>4, <2>2
  <2> QED BY <2>4, <2>5
<1>17. ASSUME NEW i \in 1..Len(g), NEW c, TurnCalls(g[i], c)
       PROVE  \/ i \in 1..H /\ TurnCalls(h[i], c)
              \/ i = H + 1 /\ c \in ToSet(a.calls)
  <2>1. CASE i \in 1..H BY <1>12, <1>17, <2>1
  <2>2. CASE i = H + 1
    <3>1. TurnCalls(t, c) BY <1>12, <1>17, <2>2
    <3> QED BY <1>3, <2>2, <3>1 DEF TurnCalls
  <2>3. CASE i \notin 1..H /\ i # H + 1
    <3>1. g[i].kind # "answer" BY <1>16, <2>3
    <3>2. g[i].kind = "answer" BY <1>17 DEF TurnCalls
    <3> QED BY <3>1, <3>2
  <2> QED BY <2>1, <2>2, <2>3
<1>18. \A c \in ToSet(a.calls) : Made(c, k) BY DEF CallsMade
<1>19. \A i \in 1..H : \A c : TurnCalls(h[i], c) => \E j \in 1..n : Made(c, j) BY DEF Follow, CallsBy
<1>20. k \in 1..k /\ k # 0 /\ k \in Nat /\ \A j \in 1..n : j \in 1..k /\ j # k OBVIOUS
<1>21. CallsBy(g, k)
  <2> SUFFICES ASSUME NEW i \in 1..Len(g), NEW c, TurnCalls(g[i], c)
               PROVE  \E j \in 1..k : Made(c, j)
    BY DEF CallsBy
  <2>1. CASE i \in 1..H /\ TurnCalls(h[i], c) BY <1>19, <1>20, <2>1
  <2>2. CASE c \in ToSet(a.calls) BY <1>18, <1>20, <2>2
  <2> QED BY <1>17, <2>1, <2>2
<1>22. TurnsAnswered(g)
  <2> SUFFICES ASSUME NEW j \in 1..Len(g), g[j].kind = "result"
               PROVE  \E i \in 1..(j - 1) : \E c : TurnCalls(g[i], c) /\ Answers(g[j], c)
    BY DEF TurnsAnswered
  <2>1. CASE j \in 1..H
    <3>1. g[j] = h[j] BY <1>12, <2>1
    <3>2. PICK i \in 1..(j - 1) : \E c : TurnCalls(h[i], c) /\ Answers(h[j], c)
      BY <2>1, <3>1 DEF Follow, TurnsAnswered
    <3>3. i \in 1..H BY <1>4, <2>1
    <3>4. g[i] = h[i] BY <1>12, <3>3
    <3> QED BY <3>1, <3>2, <3>4
  <2>2. CASE j = H + 1
    <3>1. g[j] = t BY <1>12, <2>2
    <3> QED BY <1>2, <3>1
  <2>3. CASE j \notin 1..H /\ j # H + 1
    <3>1. PICK u : u = g[j] OBVIOUS
    <3>2. H + 1 \in 1..(j - 1) /\ IsResultOf(u, a) BY <1>16, <2>3, <3>1
    <3>3. PICK c \in ToSet(a.calls) : u.id = c.id /\ u.parts[1].text = <<"result", c.name>>
      BY <3>1, <3>2 DEF IsResultOf
    <3>4. Made(c, k) BY <1>18
    <3>5. c.id # NoId BY <1>20, <3>4, MadeIs
    <3>6. c.name # "" BY <3>4 DEF Made
    <3>7. Answers(u, c) BY <3>3, <3>5, <3>6 DEF Answers
    <3>8. TurnCalls(t, c) BY <1>2, <1>3 DEF TurnCalls
    <3> QED BY <1>12, <3>1, <3>2, <3>7, <3>8
  <2> QED BY <2>1, <2>2, <2>3
<1>23. ASSUME AllOwn(g) PROVE TurnsNamed(g)
  <2>1. AllOwn(h)
    <3> SUFFICES ASSUME NEW i \in DOMAIN h, h[i].kind = "answer", ~h[i].answer[1].streamed
                 PROVE  \A c \in ToSet(h[i].answer[1].calls) : c.id[1] # ""
      BY DEF AllOwn
    <3>1. i \in 1..H /\ g[i] = h[i] BY <1>4, <1>12
    <3>2. i \in DOMAIN g BY <1>4, <1>13, <1>14, <3>1
    <3> QED BY <1>23, <3>1, <3>2 DEF AllOwn
  <2>2. Own(a)
    <3>1. H + 1 \in DOMAIN g BY <1>4, <1>13, <1>14
    <3>2. g[H + 1] = t BY <1>12
    <3>3. ~t.answer[1].streamed => \A c \in ToSet(t.answer[1].calls) : c.id[1] # ""
      BY <1>2, <1>23, <3>1, <3>2 DEF AllOwn
    <3> QED BY <1>3, <3>3, Zenon DEF Own
  <2>3. \A c, d \in ToSet(a.calls) : c.id = d.id => c.name = d.name BY <2>2 DEF CallsMade, OneNamed
  <2>4. TurnsNamed(h) BY <2>1 DEF Follow
  <2> SUFFICES ASSUME NEW i \in 1..Len(g), NEW j \in 1..Len(g), NEW c, NEW d,
                      TurnCalls(g[i], c), TurnCalls(g[j], d), c.id = d.id
               PROVE  c.name = d.name
    BY DEF TurnsNamed
  <2>5. CASE i \in 1..H /\ TurnCalls(h[i], c) /\ j \in 1..H /\ TurnCalls(h[j], d)
    BY <2>4, <2>5 DEF TurnsNamed
  <2>6. CASE i \in 1..H /\ TurnCalls(h[i], c) /\ d \in ToSet(a.calls)
    <3>1. PICK p \in 1..n : Made(c, p) BY <1>19, <2>6
    <3>2. p # k /\ Made(d, k) BY <1>18, <1>20, <2>6
    <3> QED BY <3>1, <3>2, MadeApart
  <2>7. CASE c \in ToSet(a.calls) /\ j \in 1..H /\ TurnCalls(h[j], d)
    <3>1. PICK p \in 1..n : Made(d, p) BY <1>19, <2>7
    <3>2. p # k /\ Made(c, k) BY <1>18, <1>20, <2>7
    <3> QED BY <3>1, <3>2, MadeApart
  <2>8. CASE c \in ToSet(a.calls) /\ d \in ToSet(a.calls) BY <2>3, <2>8
  <2> QED BY <1>17, <2>5, <2>6, <2>7, <2>8
<1> QED BY <1>11, <1>21, <1>22, <1>23 DEF Follow

\* The question asks for nothing and calls nothing.
LEMMA AskFollows ==
  ASSUME NEW u, u.kind = "user", NEW h, IsList(h), TurnsAnswered(h), TurnsNamed(h),
         NEW w, w = << u >> \o h
  PROVE  TurnsAnswered(w) /\ TurnsNamed(w)
<1> DEFINE H == Len(h)
<1>1. PICK one : one = << u >> OBVIOUS
<1>2. IsList(one) /\ Len(one) = 1 /\ one[1] = u BY <1>1, OneList
<1>3. H \in Nat BY ListElements
<1>4. Concats(one \o h, one, h) BY <1>2, ConcatsAre
<1>5. Concats(w, one, h) BY <1>1, <1>4
<1>6. Len(w) = 1 + H /\ w[1] = u /\ \A i \in 1..H : w[1 + i] = h[i]
  <2>1. 1 \in 1..Len(one) BY <1>2
  <2> QED BY <1>2, <1>5, <2>1 DEF Concats
<1>7. ASSUME NEW j \in 1..Len(w), j # 1
      PROVE  \E i \in 1..H : j = 1 + i /\ w[j] = h[i]
  <2>1. PICK i : i = j - 1 OBVIOUS
  <2>2. i \in 1..H /\ j = 1 + i BY <1>3, <1>6, <1>7, <2>1
  <2> QED BY <1>6, <2>2
<1>8. ASSUME NEW j \in 1..Len(w), w[j].kind = "result"
      PROVE  \E i \in 1..(j - 1) : \E c : TurnCalls(w[i], c) /\ Answers(w[j], c)
  <2>1. j # 1 BY <1>6, <1>8
  <2>2. PICK i \in 1..H : j = 1 + i /\ w[j] = h[i] BY <1>7, <2>1
  <2>3. PICK k \in 1..(i - 1) : \E c : TurnCalls(h[k], c) /\ Answers(h[i], c)
    BY <1>8, <2>2 DEF TurnsAnswered
  <2>4. PICK l : l = 1 + k OBVIOUS
  <2>5. k \in 1..H /\ l \in 1..(j - 1) BY <1>3, <2>2, <2>4
  <2>6. w[l] = h[k] BY <1>6, <2>4, <2>5
  <2> QED BY <2>2, <2>3, <2>5, <2>6
<1>9. ASSUME NEW j \in 1..Len(w), NEW c, TurnCalls(w[j], c)
      PROVE  \E i \in 1..H : TurnCalls(h[i], c)
  <2>1. w[j].kind = "answer" BY <1>9 DEF TurnCalls
  <2>2. j # 1 BY <1>6, <2>1
  <2> QED BY <1>7, <1>9, <2>2
<1>10. TurnsAnswered(w) BY <1>8 DEF TurnsAnswered
<1>11. TurnsNamed(w)
  <2> SUFFICES ASSUME NEW i \in 1..Len(w), NEW j \in 1..Len(w), NEW c, NEW d,
                      TurnCalls(w[i], c), TurnCalls(w[j], d), c.id = d.id
               PROVE  c.name = d.name
    BY DEF TurnsNamed
  <2>1. PICK k \in 1..H : TurnCalls(h[k], c) BY <1>9
  <2>2. PICK l \in 1..H : TurnCalls(h[l], d) BY <1>9
  <2> QED BY <2>1, <2>2 DEF TurnsNamed
<1> QED BY <1>10, <1>11

\* Every call in the history is of a response to date, every result follows its call, and
\* no identifier is that of two tools.
FollowInv ==
  /\ script \in Scripts \cup FollowUps
  /\ Follow(history, IF replied THEN turn ELSE turn - 1)

LEMMA FollowReply == CutInv /\ HistoryInv /\ FollowInv /\ Reply => FollowInv'
<1> SUFFICES ASSUME CutInv, HistoryInv, FollowInv, Reply PROVE FollowInv' OBVIOUS
<1>1. PICK f \in {"openai", "claude", "openai-response"}, o \in Openings :
           \/ streamVerdict(stream) = 0
              /\ \E r \in Reactions(f, streamedAnswer) :
                   history' = history \o << AnswerTurn(streamedAnswer) >> \o r
           \/ accumulatorVerdict(acc) = 0
              /\ \E r \in Reactions(f, collectedAnswer) :
                   history' = history \o << AnswerTurn(collectedAnswer) >> \o r
  BY DEF Reply
<1>2. replied' = TRUE /\ turn' = turn /\ ~replied /\ script' = script BY DEF Reply, vars
<1>3. f \in Formats BY DEF Formats
<1>4. script \in Scripts \cup FollowUps BY DEF FollowInv
<1>5. \E a : IsAnswer(a) /\ CallsMade(a, turn) /\ \E r \in Reactions(f, a) :
               history' = (history \o << AnswerTurn(a) >>) \o r
  BY <1>1, <1>4, StreamedIs, CollectedIs, StreamedCalls, CollectedCalls
<1>6. PICK a : IsAnswer(a) /\ CallsMade(a, turn) /\ \E r \in Reactions(f, a) :
                 history' = (history \o << AnswerTurn(a) >>) \o r
  BY <1>5
<1>7. PICK r \in Reactions(f, a) : history' = (history \o << AnswerTurn(a) >>) \o r BY <1>6
<1>8. IsReaction(f, r) BY <1>3, <1>6, ReactionIs
<1>9. IsList(r) BY <1>8 DEF IsReaction
<1>10. ASSUME NEW x \in ToSet(r) PROVE x.kind # "answer" /\ IsResultOf(x, a)
  <2>1. IsResultOf(x, a) BY <1>3, <1>6, ReactionAnswers
  <2>2. (\E i \in DOMAIN r : x = r[i]) /\ DOMAIN r = 1..Len(r) BY <1>9, ListElements
  <2>3. PICK i \in 1..Len(r) : x = r[i] BY <2>2
  <2>4. r[i].kind # "answer" BY <1>8 DEF IsReaction
  <2> QED BY <2>1, <2>3, <2>4
<1>11. PICK h, g, n : h = history /\ g = history' /\ n = turn - 1 OBVIOUS
<1>12. n \in Nat /\ turn = n + 1 BY <1>11 DEF HistoryInv
<1>13. Follow(h, n) BY <1>2, <1>11 DEF FollowInv
<1>14. Follow(g, turn) BY <1>6, <1>7, <1>9, <1>10, <1>11, <1>12, <1>13, FollowMore
<1>15. Follow(history', IF replied' THEN turn' ELSE turn' - 1) BY <1>2, <1>11, <1>14
<1> QED BY <1>2, <1>4, <1>15 DEF FollowInv

LEMMA FollowStart == Begin => FollowInv
<1> SUFFICES ASSUME Begin PROVE FollowInv OBVIOUS
<1>1. turn = 1 /\ replied = FALSE /\ history = << >> /\ script \in Scripts BY Zenon DEF Begin, Init
<1>2. PICK h : h = << >> OBVIOUS
<1>3. IsList(h) /\ Len(h) = 0 BY <1>2, NoList
<1>4. CallsBy(h, 0) /\ TurnsAnswered(h) /\ TurnsNamed(h)
  BY <1>3 DEF CallsBy, TurnsAnswered, TurnsNamed
<1>5. Follow(h, 0) BY <1>3, <1>4 DEF Follow
<1>6. (IF replied THEN turn ELSE turn - 1) = 0 BY <1>1
<1> QED BY <1>1, <1>2, <1>5, <1>6 DEF FollowInv

\* The client keeps every result after the call it answers, and what the identifiers of a
\* history's calls name is never two tools, unless a collected response had the plugin
\* make several of them from one clock (protocol.go:131-134, 298).
LEMMA FollowHeld == Talk => []FollowInv
<1>1. CutInv /\ HistoryInv /\ FollowInv /\ [TalkNext]_allVars => FollowInv'
  <2> SUFFICES ASSUME CutInv, HistoryInv, FollowInv, [TalkNext]_allVars PROVE FollowInv' OBVIOUS
  <2>1. CASE UNCHANGED talk /\ script' = script BY <2>1 DEF talk, FollowInv
  <2>2. CASE Reply BY <2>2, FollowReply
  <2>3. CASE Respond
    <3>1. replied /\ replied' = FALSE /\ turn' = turn + 1 /\ script' \in FollowUps
          /\ history' = history
      BY <2>3 DEF Respond
    <3>2. turn \in Nat BY DEF HistoryInv
    <3>3. turn' - 1 = turn BY <3>1, <3>2
    <3>4. Follow(history, turn) BY <3>1 DEF FollowInv
    <3>5. Follow(history', IF replied' THEN turn' ELSE turn' - 1) BY <3>1, <3>3, <3>4
    <3> QED BY <3>1, <3>5 DEF FollowInv
  <2>4. CASE UNCHANGED allVars BY <2>1, <2>4 DEF allVars, vars
  <2>5. CASE (chunk \/ close \/ Finished) /\ UNCHANGED talk
    BY <2>1, <2>5 DEF chunk, close, Finished, vars
  <2> QED BY <2>2, <2>3, <2>4, <2>5 DEF TalkNext
<1> QED BY <1>1, FollowStart, TalkCuts, HistoryHeld, PTL DEF Talk

LEMMA BuiltMessages == \A payload : buildCcRequest(payload).messages = chatMessages(payload.messages)
BY DEF buildCcRequest

LEMMA ResultsArrive ==
  ASSUME Conversing, TurnsAnswered(history), TurnsNamed(history)
  PROVE  ResultsOK(Sent.messages)
<1>1. PICK u : u = UserTurn(opening.ask) OBVIOUS
<1>2. PICK turns : turns = << UserTurn(opening.ask) >> \o history OBVIOUS
<1>3. u.kind = "user" BY <1>1, UserTurnFields
<1>4. IsList(history) BY DEF Conversing
<1>5. TurnsAnswered(turns) /\ TurnsNamed(turns)
  <2>1. turns = << u >> \o history BY <1>1, <1>2
  <2> QED BY <1>3, <1>4, <2>1, AskFollows
<1>6. PICK chat, x : chat = ChatOf(format, opening, turns) /\ x = Spoken(turns) OBVIOUS
<1>7. Sent = buildCcRequest(chat)
  <2>1. format \in Formats BY DEF Conversing
  <2>2. SentAs(turns) BY <1>2, <2>1, RequestIs
  <2> QED BY <1>6, <2>2 DEF SentAs
<1>8. AreTurns(format, turns) BY <1>2 DEF Conversing
<1>9. PICK ms : ms = chat.messages OBVIOUS
<1>10. Messages(ms) /\ Meant(ms) = x
  <2>1. Says(chat.messages, x, Joined(opening.system) \o Reminded(turns))
    BY <1>6, <1>8, ChatArrives DEF Conversing
  <2> QED BY <1>9, <2>1 DEF Says
<1>11. Answered(x) /\ OneName(x) BY <1>5, <1>6, <1>8, SpokenAnswered
<1>12. ResultsOK(chatMessages(ms)) BY <1>10, <1>11, ResultsFollow
<1>13. Sent.messages = chatMessages(ms) BY <1>7, <1>9, BuiltMessages
<1> QED BY <1>12, <1>13

\* Through all turns and in every format, each result the upstream is sent follows the call
\* it answers and has the name of that call's tool, where the identifiers tell the calls
\* apart (chatMessages and ccToolMessage, request.go:163-184).
THEOREM ResultsTheorem == Talk => []ResultsNamed
<1>1. HistoryInv /\ FollowInv => ResultsNamed
  <2> SUFFICES ASSUME HistoryInv, FollowInv, replied, AllOwn(history) PROVE ResultsOK(Sent.messages)
    BY Zenon DEF ResultsNamed, AllOwn, ResultsOK, ResultOK
  <2>1. Held(format, opening, history) BY DEF HistoryInv
  <2>2. Conversing BY <2>1 DEF Held, Awaits, Conversing
  <2>3. TurnsAnswered(history) /\ TurnsNamed(history) BY DEF FollowInv, Follow
  <2> QED BY <2>2, <2>3, ResultsArrive
<1> QED BY <1>1, HistoryHeld, FollowHeld, PTL

=============================================================================
