---------------------------- MODULE Conversation ----------------------------
(***************************************************************************)
(* A conversation with tools, as the requests of its turns carry it.  None *)
(* of the APIs keeps it: with every turn the client sends all of it again, *)
(* in the form of its API, and the proxy translates it twice, into chat    *)
(* messages (adapters/responses_to_chat.py, adapters/anthropic.py) and     *)
(* from them into the form of the upstream (adapters/anthropic.py,         *)
(* adapters/gemini.py; OpenAI and Ollama take them as they are).           *)
(*                                                                         *)
(* A text is a sequence of atoms, a tool call is its number, which stands  *)
(* for its name and its arguments, and a result has the number of its      *)
(* call.  Requests do not stream.                                          *)
(***************************************************************************)
EXTENDS Integers, Sequences, SequencesExt, FiniteSets

CONSTANT MaxStory   \* bound: a client starts no turn after so many events

ASSUME ConversationAssumption == MaxStory \in Nat

VARIABLES api,       \* the client's: "responses", "messages" or "chat"
          upstream,  \* "openai", "ollama", "anthropic" or "gemini"
          story,     \* what has happened, in order: who did what, and what was said
          history,   \* the same in the form of the client's API
          system,    \* the system field of /v1/messages, the instructions of /v1/responses
          hinted,    \* /v1/responses: the tools are Codex's and lack apply_patch
          turn,      \* whose it is: "client", "model" or "tools"
          pending    \* the calls that are to be answered, with their ids

vars == <<api, upstream, story, history, system, hinted, turn, pending>>

Event(what, n, id) == [what |-> what, n |-> n, id |-> id]
Told(what, ns)   == [i \in DOMAIN ns |-> Event(what, ns[i], 0)]
ToldOf(what, cs) == [i \in DOMAIN cs |-> Event(what, cs[i].n, cs[i].id)]
Fresh == Len(story) + 1

-----------------------------------------------------------------------------
(* Chat messages.  Other forms use the same fields.                        *)

Message(role, text, calls) == [role |-> role, text |-> text, calls |-> calls]
ToolMessage(id, n) == [role |-> "tool", id |-> id, n |-> n]

TextPart(text) == [type |-> "text", text |-> text]
ResultPart(id, n) == [type |-> "tool_result", id |-> id, n |-> n]

\* A call of Gemini's has no id; the name of its result is the id of the chat
\* message (gemini.py:84).
NoId == -1
UsePart(c, withId) ==
  [type |-> "tool_use", id |-> IF withId THEN c.id ELSE NoId, n |-> c.n]

Each(s, Op(_)) == FlattenSeq([i \in DOMAIN s |-> Op(s[i])])
When(holds, x) == IF holds THEN <<x>> ELSE <<>>

-----------------------------------------------------------------------------
(* Requests of the clients.                                                *)

IsDirection(i) == i.type = "message" /\ i.role = "developer"
DirectionOf(i) == IF IsDirection(i) THEN i.text ELSE <<>>

OfItem(i) ==
  CASE IsDirection(i) -> <<>>
    [] i.type = "message" /\ ~IsDirection(i) -> <<Message(i.role, i.text, <<>>)>>
    [] i.type = "function_call" ->
         <<Message("assistant", <<>>, <<[id |-> i.id, n |-> i.n]>>)>>
    [] i.type = "function_call_output" -> <<ToolMessage(i.id, i.n)>>

\* The instructions and the developer messages become one system message in front.
Merged ==
  When(system # <<>> \/ \E k \in DOMAIN history : IsDirection(history[k]),
       Message("system", system \o Each(history, DirectionOf), <<>>))
    \o Each(history, OfItem)

\* The proxy's own words to a model that has Codex's tools but no apply_patch.
Hint == 0
HintText == When(hinted, Hint)

\* Mutant: only instructions are looked for, no developer messages.
WithHint_ByInstructions(chat) ==
  IF system # <<>> THEN <<[Head(chat) EXCEPT !.text = @ \o HintText]>> \o Tail(chat)
  ELSE <<Message("system", HintText, <<>>)>> \o chat

\* The hint goes to the end of the leading system message, or becomes it.
WithHint(chat) ==
  IF chat # <<>> /\ Head(chat).role = "system"
  THEN <<[Head(chat) EXCEPT !.text = @ \o HintText]>> \o Tail(chat)
  ELSE <<Message("system", HintText, <<>>)>> \o chat

ResponsesToChat == IF hinted THEN WithHint(Merged) ELSE Merged

TextOf(p)   == IF p.type = "text" THEN p.text ELSE <<>>
CallOf(p)   == When(p.type = "tool_use", [id |-> p.id, n |-> p.n])
ResultOf(p) == When(p.type = "tool_result", ToolMessage(p.id, p.n))

\* A message with parts: one of the assistant keeps its text and its calls; of
\* one of the user the text goes in front of the results.
OfMessage(m) ==
  LET calls   == IF m.role = "assistant" THEN Each(m.parts, CallOf) ELSE <<>>
      results == IF m.role = "assistant" THEN <<>> ELSE Each(m.parts, ResultOf)
      hasText == \E k \in DOMAIN m.parts : m.parts[k].type = "text"
  IN  When(hasText \/ calls # <<>>, Message(m.role, Each(m.parts, TextOf), calls)) \o results

AnthropicToChat ==
  When(system # <<>>, Message("system", system, <<>>)) \o Each(history, OfMessage)

ChatRequest ==
  CASE api = "responses" -> ResponsesToChat
    [] api = "messages" -> AnthropicToChat
    [] api = "chat" -> history

-----------------------------------------------------------------------------
(* Requests to the upstreams.                                              *)

\* Mutant: a turn of the assistant without text is left out.
PartsOf_TextOnly(m, withIds) ==
  IF m.text = <<>> THEN <<>>
  ELSE <<TextPart(m.text)>> \o [k \in DOMAIN m.calls |-> UsePart(m.calls[k], withIds)]

\* The parts of a message of the assistant.
PartsOf(m, withIds) ==
  When(m.text # <<>>, TextPart(m.text))
    \o [k \in DOMAIN m.calls |-> UsePart(m.calls[k], withIds)]

SystemOf(m) == IF m.role = "system" THEN m.text ELSE <<>>

NativeOf(m, withIds) ==
  CASE m.role = "system" -> <<>>
    [] m.role = "tool" -> <<[role |-> "user", parts |-> <<ResultPart(m.id, m.n)>>]>>
    [] m.role = "assistant" ->
         LET parts == PartsOf(m, withIds)
         IN  When(parts # <<>>, [role |-> "assistant", parts |-> parts])
    [] m.role = "user" -> <<[role |-> "user", parts |-> <<TextPart(m.text)>>]>>

\* What both translations do: the system texts become one field, a result is a
\* message of the user's, and an assistant's without any parts is left out.
Native(chat, withIds) ==
  LET ofMessage(m) == NativeOf(m, withIds)
  IN  [system |-> Each(chat, SystemOf), messages |-> Each(chat, ofMessage)]

AnthropicRequest(chat) == Native(chat, TRUE)

GeminiRequest(chat) == Native(chat, FALSE)

-----------------------------------------------------------------------------
(* The turns.                                                              *)

Init ==
  /\ api \in {"responses", "messages", "chat"}
  /\ upstream \in {"openai", "ollama", "anthropic", "gemini"}
  /\ hinted \in IF api = "responses" THEN BOOLEAN ELSE {FALSE}
  /\ \E withSystem \in IF api = "chat" THEN {FALSE} ELSE BOOLEAN :
       /\ story = IF withSystem THEN <<Event("system", 1, 0)>> ELSE <<>>
       /\ system = IF withSystem THEN <<1>> ELSE <<>>
  /\ history = <<>> /\ turn = "client" /\ pending = <<>>

\* What the client writes down for a text of its own.
Spoken(role, text) ==
  CASE api = "responses" -> [type |-> "message", role |-> role, text |-> text]
    [] api = "messages" -> [role |-> role, parts |-> <<TextPart(text)>>]
    [] api = "chat" -> Message(IF role = "developer" THEN "system" ELSE role, text, <<>>)

Speak ==
  /\ turn = "client" /\ Len(story) < MaxStory
  /\ story' = Append(story, Event("user", Fresh, 0))
  /\ history' = Append(history, Spoken("user", <<Fresh>>))
  /\ turn' = "model"
  /\ UNCHANGED <<api, upstream, system, hinted, pending>>

\* The client gives the model new directions.
Direct ==
  /\ turn = "client" /\ api # "messages" /\ Len(story) < MaxStory
  /\ story' = Append(story, Event("system", Fresh, 0))
  /\ history' = Append(history, Spoken("developer", <<Fresh>>))
  /\ UNCHANGED <<api, upstream, system, hinted, turn, pending>>

\* Where the calls of an answer stand among its parts.
\* bound: there is one part more than calls.
Places(n) == {p \in [1 .. n -> 0 .. n] : \A j, k \in 1 .. n : j < k => p[j] < p[k]}

\* Mutant: calls without an id of the upstream's are all call_0.
GivenId_Zero(i, place, n) == IF upstream \in {"gemini", "ollama"} THEN 0 ELSE n

\* OpenAI and Anthropic give a call an id of its own; for the others the
\* translation makes one: from its place among all parts of Gemini's answer, and
\* among the calls of Ollama's, when Ollama gave none.
GivenId(i, place, n) ==
  CASE upstream = "gemini" -> place
    [] upstream = "ollama" -> i
    [] OTHER -> n

\* An answer as items of the Responses API, and as a message of /v1/messages.
AnswerItems(text, calls) ==
  When(text # <<>>, Spoken("assistant", text))
    \o [k \in DOMAIN calls |->
          [type |-> "function_call", id |-> calls[k].id, n |-> calls[k].n]]

AnswerMessage(text, calls) ==
  [role |-> "assistant",
   parts |-> IF text = <<>> /\ calls = <<>> THEN <<TextPart(<<>>)>>
             ELSE PartsOf(Message("assistant", text, calls), TRUE)]

\* What the client writes down for an answer.
Answered(text, calls) ==
  CASE api = "responses" -> AnswerItems(text, calls)
    [] api = "messages" -> <<AnswerMessage(text, calls)>>
    [] api = "chat" -> <<Message("assistant", text, calls)>>

\* The model answers with a text, calls, both or nothing.
Reply ==
  /\ turn = "model"
  /\ \E text \in {<<>>, <<Fresh>>}, n \in 0 .. 2 : \E place \in Places(n) :
       LET from  == Len(story) + Len(text)
           calls == [k \in 1 .. n |->
                       [id |-> GivenId(k - 1, place[k], from + k), n |-> from + k]]
       IN  /\ story' = story \o Told("said", text) \o ToldOf("call", calls)
           /\ history' = history \o Answered(text, calls)
           /\ pending' = calls
           /\ turn' = IF n = 0 THEN "client" ELSE "tools"
  /\ UNCHANGED <<api, upstream, system, hinted>>

\* What the client writes down for results, and for a text it sends with them.
Returned(results, text) ==
  CASE api = "responses" ->
         [k \in DOMAIN results |->
            [type |-> "function_call_output", id |-> results[k].id, n |-> results[k].n]]
           \o When(text # <<>>, Spoken("user", text))
    [] api = "messages" ->
         <<[role |-> "user",
            parts |-> [k \in DOMAIN results |-> ResultPart(results[k].id, results[k].n)]
                        \o When(text # <<>>, TextPart(text))]>>
    [] api = "chat" ->
         [k \in DOMAIN results |-> ToolMessage(results[k].id, results[k].n)]
           \o When(text # <<>>, Spoken("user", text))

\* The client has run the tools, which end in any order.
Return ==
  /\ turn = "tools"
  /\ \E results \in {pending, Reverse(pending)}, withText \in BOOLEAN :
       LET text == IF withText THEN <<Fresh + Len(pending)>> ELSE <<>>
       IN  /\ story' = story \o ToldOf("result", results) \o Told("user", text)
           /\ history' = history \o Returned(results, text)
  /\ pending' = <<>>
  /\ turn' = IF Len(story) < MaxStory THEN "model" ELSE "client"
  /\ UNCHANGED <<api, upstream, system, hinted>>

Next == Speak \/ Direct \/ Reply \/ Return

Spec == Init /\ [][Next]_vars

-----------------------------------------------------------------------------
(* What a request says of the story.                                       *)

MessageSays(m) ==
  CASE m.role = "tool" -> <<Event("result", m.n, m.id)>>
    [] m.role = "user" -> Told("user", m.text)
    [] m.role = "system" -> Told("system", m.text)
    [] m.role = "assistant" -> Told("said", m.text) \o ToldOf("call", m.calls)

ChatSays(chat) == Each(chat, MessageSays)

PartSays(role, p) ==
  CASE p.type = "text" -> Told(IF role = "user" THEN "user" ELSE "said", p.text)
    [] p.type = "tool_use" -> <<Event("call", p.n, p.id)>>
    [] p.type = "tool_result" -> <<Event("result", p.n, p.id)>>

PartsSay(m) ==
  LET says(p) == PartSays(m.role, p)
  IN  Each(m.parts, says)

NativeSays(req) == Told("system", req.system) \o Each(req.messages, PartsSay)

RequestSays ==
  CASE upstream = "anthropic" -> NativeSays(AnthropicRequest(ChatRequest))
    [] upstream = "gemini" -> NativeSays(GeminiRequest(ChatRequest))
    [] OTHER -> ChatSays(ChatRequest)

\* The story as far as the upstream's form can tell it, and the proxy's hint.
Tellable ==
  [i \in DOMAIN story |->
     IF upstream = "gemini" /\ story[i].what = "call" THEN [story[i] EXCEPT !.id = NoId]
     ELSE story[i]]
    \o Told("system", HintText)

Of(events, kinds) ==
  LET ofKind(e) == When(e.what \in kinds, e)
  IN  Each(events, ofKind)

-----------------------------------------------------------------------------
\* Whichever two APIs are joined, no turn loses, doubles or reorders what the
\* model has to go by: the calls and results with their ids (Gemini's calls have
\* none), what the user and the model said, and the directions, each in the order
\* it came; the proxy adds its own hint last (responses_to_chat.py:155-244,
\* 305-310, anthropic.py:72-118, 336-400, gemini.py:64-123).
StorySurvives ==
  \A kinds \in {{"call", "result"}, {"user", "said"}, {"system"}} :
    Of(RequestSays, kinds) = Of(Tellable, kinds)

\* Ids made from places come back in every answer (gemini.py:202,
\* ollama_native.py:261); all the same the last call with the id of a result is
\* the call it answers.
LatestCallAnswered ==
  LET tools == Of(ChatSays(ChatRequest), {"call", "result"})
      before(i) == {j \in 1 .. i - 1 : tools[j].what = "call" /\ tools[j].id = tools[i].id}
  IN  \A i \in DOMAIN tools :
        tools[i].what = "result" =>
          \E j \in before(i) : tools[j].n = tools[i].n /\ \A k \in before(i) : k <= j

\* Chat upstreams get one system message, in front, from a client whose API is
\* translated (responses_to_chat.py:202-244, anthropic.py:61-70), also when it has
\* instructions, gives directions later and the proxy adds its hint (:305-310).
OneSystemInFront ==
  LET chat == ChatRequest
  IN  api # "chat" => \A i \in DOMAIN chat : chat[i].role = "system" => i = 1
=============================================================================
