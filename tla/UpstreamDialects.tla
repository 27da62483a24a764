-------------------------- MODULE UpstreamDialects --------------------------
(***************************************************************************)
(* The answer of an upstream that does not speak Chat Completions, as it   *)
(* is streamed: the events of the Anthropic Messages API, the chunks of    *)
(* Gemini or the lines of Ollama, which the backends translate into chat   *)
(* chunks (adapters/anthropic.py, adapters/gemini.py,                      *)
(* backends/ollama_native.py), and what a client of /v1/messages is told   *)
(* of them (ChatToAnthropicStreamAdapter).                                 *)
(*                                                                         *)
(* A reply is a sequence of blocks, texts and tool calls.  A unit is what  *)
(* is sent in one piece: a text comes in two, the arguments of a call in   *)
(* two from Anthropic and whole from the others.  Ollama sends its calls   *)
(* with the last line (ollama_native.py:304), Anthropic at least one piece *)
(* of arguments for each call, Gemini its finishReason last.               *)
(***************************************************************************)
EXTENDS Integers, Sequences, SequencesExt, FiniteSets

CONSTANT MaxBlocks   \* bound: blocks of a reply

ASSUME DialectsAssumption == MaxBlocks \in Nat

VARIABLES dialect,  \* "anthropic", "gemini" or "ollama"
          reply,    \* the blocks, "text" or "call"
          reason,   \* why the model stopped, in the dialect's words
          sent,     \* how many units the upstream has sent
          stage,    \* of its stream: "start", "body", "ending" (after message_delta),
                    \* "sent", or "broken" off: it has ended early, or raised
          open,     \* Anthropic: the block between its start and its stop, or 0
          tool,     \* the translator's state: the calls it knows, and whether it
                    \* has passed their opening on (Anthropic) or how many (Gemini)
          outbox,   \* chunks the translator has made and the consumer not had
          role, text, calls, finish,   \* the answer as the consumer has it
          told      \* the events the client of /v1/messages has got

consumer   == <<role, text, calls, finish>>
translator == <<open, tool>>
vars == <<dialect, reply, reason, sent, stage, translator, outbox, consumer, told>>

Reasons == [anthropic |-> {"end_turn", "tool_use", "max_tokens", "stop_sequence"},
            gemini    |-> {"STOP", "MAX_TOKENS", "SAFETY"},
            ollama    |-> {"stop", "length"}]

Replies == UNION {[1 .. n -> {"text", "call"}] : n \in 0 .. MaxBlocks}

\* The elements of s that are in S.
Only(s, S) == FlattenSeq([i \in DOMAIN s |-> IF s[i] \in S THEN <<s[i]>> ELSE <<>>])

Blocks(what)  == {k \in DOMAIN reply : reply[k] = what}
UnitsIn(what) == Blocks(what) \X (0 .. 2)

UnitsOf(k) ==
  IF dialect # "anthropic" /\ reply[k] = "call" THEN <<<<k, 0>>>>
  ELSE <<<<k, 1>>, <<k, 2>>>>

UnitsOfAll(blocks) == FlattenSeq([i \in DOMAIN blocks |-> UnitsOf(blocks[i])])

\* The blocks in the order of the reply, and in the order they are sent.
InOrder == [k \in DOMAIN reply |-> k]

Order ==
  IF dialect = "ollama" THEN Only(InOrder, Blocks("text")) \o Only(InOrder, Blocks("call"))
  ELSE InOrder

Units == UnitsOfAll(Order)

Init ==
  /\ dialect \in DOMAIN Reasons
  /\ reply \in Replies
  /\ reason \in Reasons[dialect]
  /\ reason = "tool_use" => Blocks("call") # {}
  /\ sent = 0 /\ stage = "start" /\ open = 0
  /\ tool = [k \in {} |-> FALSE]
  /\ outbox = <<>> /\ told = <<>>
  /\ role = FALSE /\ text = <<>> /\ calls = <<>> /\ finish = "none"

-----------------------------------------------------------------------------
(* Chunks and finish reasons.                                              *)

RoleChunk == [kind |-> "role"]
TextChunk(us) == [kind |-> "content", units |-> us]
OpenChunk(i, id, u) == [kind |-> "call", index |-> i, id |-> <<id>>, unit |-> u]
MoreChunk(i, u) == [kind |-> "call", index |-> i, id |-> <<>>, unit |-> u]
FinishChunk(f) == [kind |-> "finish", why |-> f]

\* _REVERSE_STOP_MAP and _FINISH_MAP.
Mapped(r) ==
  CASE r \in {"max_tokens", "MAX_TOKENS"} -> "length"
    [] r = "tool_use" -> "tool_calls"
    [] r \in {"stop_sequence", "SAFETY"} -> "content_filter"
    [] OTHER -> "stop"

FinishOf(hadCalls) ==
  IF hadCalls /\ Mapped(reason) = "stop" THEN "tool_calls" ELSE Mapped(reason)

-----------------------------------------------------------------------------
(* The three upstreams and their translators.  The consumer has had every  *)
(* chunk of an event before the next one is read.                          *)

Reading(d) == dialect = d /\ outbox = <<>> /\ stage \notin {"sent", "broken"}

Unit == Units[sent + 1]

UnitLeft == sent < Len(Units) /\ Unit[1] = open   \* in the open block

MessageStart ==
  /\ Reading("anthropic") /\ stage = "start"
  /\ stage' = "body" /\ outbox' = <<RoleChunk>>
  /\ UNCHANGED <<dialect, reply, reason, sent, translator, consumer, told>>

BlockStart ==
  /\ Reading("anthropic") /\ stage = "body" /\ open = 0 /\ sent < Len(Units)
  /\ open' = Unit[1]
  /\ tool' = IF reply[open'] = "call"
             THEN [k \in DOMAIN tool \cup {open'} |-> k # open' /\ tool[k]]
             ELSE tool
  /\ UNCHANGED <<dialect, reply, reason, sent, stage, outbox, consumer, told>>

\* Mutant: that the call has been opened is not remembered.
BlockDelta_Reopens ==
  /\ Reading("anthropic") /\ open # 0 /\ UnitLeft
  /\ sent' = sent + 1
  /\ outbox' = IF reply[open] = "text" THEN <<TextChunk(<<Unit>>)>>
               ELSE <<OpenChunk(open - 1, open, Unit)>>
  /\ UNCHANGED <<dialect, reply, reason, stage, translator, consumer, told>>

BlockDelta ==
  /\ Reading("anthropic") /\ open # 0 /\ UnitLeft
  /\ sent' = sent + 1
  /\ IF reply[open] = "text"
     THEN outbox' = <<TextChunk(<<Unit>>)>> /\ UNCHANGED tool
     ELSE /\ tool' = [tool EXCEPT ![open] = TRUE]
          /\ outbox' = IF tool[open] THEN <<MoreChunk(open - 1, Unit)>>
                       ELSE <<OpenChunk(open - 1, open, Unit)>>
  /\ UNCHANGED <<dialect, reply, reason, stage, open, consumer, told>>

BlockStop ==
  /\ Reading("anthropic") /\ open # 0 /\ ~UnitLeft
  /\ open' = 0
  /\ UNCHANGED <<dialect, reply, reason, sent, stage, tool, outbox, consumer, told>>

MessageDelta ==
  /\ Reading("anthropic") /\ stage = "body" /\ open = 0 /\ sent = Len(Units)
  /\ stage' = "ending"
  /\ UNCHANGED <<dialect, reply, reason, sent, translator, outbox, consumer, told>>

MessageStop ==
  /\ Reading("anthropic") /\ stage = "ending"
  /\ stage' = "sent"
  /\ outbox' = <<FinishChunk(FinishOf(DOMAIN tool # {}))>>
  /\ UNCHANGED <<dialect, reply, reason, sent, translator, consumer, told>>

\* What a chunk of Gemini or a line of Ollama with the next n units says: its
\* text first, then its calls, numbered on from first.
DeltaChunks(n, first) ==
  LET us == SubSeq(Units, sent + 1, sent + n)
      ts == Only(us, UnitsIn("text"))
      cs == Only(us, UnitsIn("call"))
  IN  (IF ts = <<>> THEN <<>> ELSE <<TextChunk(ts)>>)
        \o [i \in DOMAIN cs |-> OpenChunk(first + i - 1, first + i - 1, cs[i])]

CallsAmong(n) == Len(Only(SubSeq(Units, sent + 1, sent + n), UnitsIn("call")))

\* Mutant: the finish looks at the calls of the last chunk only.
GeminiChunk_ForgetsCalls ==
  /\ Reading("gemini")
  /\ \E n \in 0 .. 2, last \in BOOLEAN :
       /\ sent + n <= Len(Units)
       /\ n = 0 => last
       /\ last => sent + n = Len(Units)
       /\ sent' = sent + n
       /\ stage' = IF last THEN "sent" ELSE "body"
       /\ outbox' = (IF stage = "start" THEN <<RoleChunk>> ELSE <<>>)
                      \o DeltaChunks(n, Cardinality(DOMAIN tool))
                      \o (IF last THEN <<FinishChunk(FinishOf(CallsAmong(n) > 0))>> ELSE <<>>)
       /\ tool' = [k \in 1 .. Cardinality(DOMAIN tool) + CallsAmong(n) |-> TRUE]
  /\ UNCHANGED <<dialect, reply, reason, open, consumer, told>>

\* A chunk with up to two parts, the last with the finishReason.
GeminiChunk ==
  /\ Reading("gemini")
  /\ \E n \in 0 .. 2, last \in BOOLEAN :
       /\ sent + n <= Len(Units)
       /\ n = 0 => last
       /\ last => sent + n = Len(Units)
       /\ sent' = sent + n
       /\ stage' = IF last THEN "sent" ELSE "body"
       /\ tool' = [k \in 1 .. Cardinality(DOMAIN tool) + CallsAmong(n) |-> TRUE]
       /\ outbox' = (IF stage = "start" THEN <<RoleChunk>> ELSE <<>>)
                      \o DeltaChunks(n, Cardinality(DOMAIN tool))
                      \o (IF last THEN <<FinishChunk(FinishOf(DOMAIN tool' # {}))>> ELSE <<>>)
  /\ UNCHANGED <<dialect, reply, reason, open, consumer, told>>

\* Ollama has answered 200: the role goes out before any line.
OllamaStart ==
  /\ Reading("ollama") /\ stage = "start"
  /\ stage' = "body" /\ outbox' = <<RoleChunk>>
  /\ UNCHANGED <<dialect, reply, reason, sent, translator, consumer, told>>

OllamaFinish(hasCalls) ==
  IF hasCalls THEN "tool_calls" ELSE IF reason = "length" THEN "length" ELSE "stop"

\* A line with a text unit, or the done line with the calls.
OllamaLine ==
  /\ Reading("ollama") /\ stage = "body"
  /\ LET left == Len(Units) - sent
     IN \/ /\ left > 0 /\ Unit \in UnitsIn("text")
           /\ sent' = sent + 1 /\ stage' = "body"
           /\ outbox' = DeltaChunks(1, 0)
        \/ /\ CallsAmong(left) >= left - 1
           /\ sent' = Len(Units) /\ stage' = "sent"
           /\ outbox' = DeltaChunks(left, 0)
                          \o <<FinishChunk(OllamaFinish(CallsAmong(left) > 0))>>
  /\ UNCHANGED <<dialect, reply, reason, translator, consumer, told>>

\* The upstream's stream ends before its last event, without an error
\* (retry.py:168 lets an empty one pass), or the connection breaks.
BreakOff ==
  /\ stage \notin {"sent", "broken"}
  /\ stage' = "broken"
  /\ UNCHANGED <<dialect, reply, reason, sent, translator, outbox, consumer, told>>

-----------------------------------------------------------------------------
(* The consumer, and the events of /v1/messages.                           *)

Hear(c) ==
  LET at == {k \in DOMAIN calls : calls[k].index = c.index}
  IN  CASE c.kind = "role" -> role' = TRUE /\ UNCHANGED <<text, calls, finish>>
        [] c.kind = "content" -> text' = text \o c.units /\ UNCHANGED <<role, calls, finish>>
        [] c.kind = "finish" -> finish' = c.why /\ UNCHANGED <<role, text, calls>>
        [] c.kind = "call" /\ c.id # <<>> ->
             /\ calls' = Append(calls, [index |-> c.index, id |-> c.id[1], args |-> <<c.unit>>])
             /\ UNCHANGED <<role, text, finish>>
        [] OTHER ->
             /\ calls' = [k \in DOMAIN calls |->
                            IF k \in at THEN [calls[k] EXCEPT !.args = Append(@, c.unit)]
                                        ELSE calls[k]]
             /\ UNCHANGED <<role, text, finish>>

Began == told # <<>>
TextOpen == \E i \in DOMAIN told : told[i] = "content_block_start"

\* Mutant: every delta starts a text block.
MessageEvents_Restart(c) ==
  (IF Began THEN <<>> ELSE <<"message_start">>)
    \o (IF c.kind = "content" THEN <<"content_block_start", "content_block_delta">> ELSE <<>>)

\* What ChatToAnthropicStreamAdapter makes of a chunk: text only.
MessageEvents(c) ==
  (IF Began THEN <<>> ELSE <<"message_start">>)
    \o (IF c.kind # "content" THEN <<>>
        ELSE IF TextOpen THEN <<"content_block_delta">>
        ELSE <<"content_block_start", "content_block_delta">>)

Deliver ==
  /\ outbox # <<>>
  /\ Hear(Head(outbox))
  /\ told' = told \o MessageEvents(Head(outbox))
  /\ outbox' = Tail(outbox)
  /\ UNCHANGED <<dialect, reply, reason, sent, stage, translator>>

\* The chunks end, early or not: the adapter closes what it opened and tells why.
\* After a broken connection they raise instead, and it never does.
EndMessage ==
  /\ stage \in {"sent", "broken"} /\ outbox = <<>>
  /\ "message_stop" \notin {told[i] : i \in DOMAIN told}
  /\ told' = told \o (IF TextOpen THEN <<"content_block_stop">> ELSE <<>>)
                  \o <<"message_delta", "message_stop">>
  /\ UNCHANGED <<dialect, reply, reason, sent, stage, translator, outbox, consumer>>

Next ==
  \/ MessageStart \/ BlockStart \/ BlockDelta \/ BlockStop \/ MessageDelta \/ MessageStop
  \/ GeminiChunk
  \/ OllamaStart \/ OllamaLine
  \/ BreakOff
  \/ Deliver \/ EndMessage

Spec == Init /\ [][Next]_vars

-----------------------------------------------------------------------------
(* The translations of a whole answer, for a request that does not stream. *)

FullText == Only(UnitsOfAll(InOrder), UnitsIn("text"))

FullCalls ==
  LET cs == Only(InOrder, Blocks("call"))
  IN  [i \in DOMAIN cs |-> UnitsOf(cs[i])]

FullFinish ==
  IF dialect = "ollama" THEN OllamaFinish(FullCalls # <<>>)
  ELSE FinishOf(FullCalls # <<>>)

-----------------------------------------------------------------------------
\* However the upstream cuts its answer into events, the chunks are a chat
\* stream (anthropic.py:495-581, gemini.py:235-306, ollama_native.py:292-341).
Chat == INSTANCE ChatStream
          WITH Fragments <- (1 .. MaxBlocks) \X (0 .. 2), Places <- 0 .. MaxBlocks

ChatProtocol == Chat!Spec

\* However the upstream cuts its answer into events, a client that streams gets
\* the same answer as one that does not: the same text, calls in the same order
\* with the same arguments, and the same finish_reason.
StreamMatchesFull ==
  stage = "sent" /\ outbox = <<>> =>
    /\ text = FullText
    /\ [k \in DOMAIN calls |-> calls[k].args] = FullCalls
    /\ finish = FullFinish

\* What the consumer has when the upstream's stream ended before its first chunk.
NothingHeard == ~role /\ text = <<>> /\ calls = <<>> /\ finish = "none"

\* The events of /v1/messages come in the order of the docstring at
\* anthropic.py:234-240, wherever the upstream's stream ends: every event but the
\* deltas once, message_start first, deltas in the block, and the block closed
\* before message_delta and message_stop end it all.  The one exception is a
\* stream that ends before its first chunk: its message has an end and no start.
MessageProtocol ==
  LET at(e)   == {i \in DOMAIN told : told[i] = e}
      ends(i) == told[i] \in {"content_block_stop", "message_delta", "message_stop"}
  IN  \/ NothingHeard /\ told = <<"message_delta", "message_stop">>
      \/ /\ \A i, j \in DOMAIN told : told[i] = told[j] => i = j \/ told[i] = "content_block_delta"
         /\ \A i \in DOMAIN told : told[i] = "message_start" <=> i = 1
         /\ \A i \in DOMAIN told :
              told[i] \in {"content_block_delta", "content_block_stop"} =>
                \E j \in at("content_block_start") : j < i
         /\ \A i, j \in DOMAIN told : i < j /\ ends(i) => ends(j)
         /\ at("message_stop") # {} =>
              /\ told[Len(told)] = "message_stop" /\ told[Len(told) - 1] = "message_delta"
              /\ at("content_block_start") # {} => told[Len(told) - 2] = "content_block_stop"

\* "State machine produces, in order: message_start ..." (anthropic.py:234-240):
\* whatever the client of /v1/messages is told, message_start comes first.
MessageStartsFirst == told # <<>> => told[1] = "message_start"
=============================================================================
