-------------------------- MODULE ResponsesStream ---------------------------
(***************************************************************************)
(* One streamed answer of /v1/responses: the chunks of an upstream chat    *)
(* completion become Responses events (adapters/chat_to_responses.py), in  *)
(* the plain handler or in the one that nudges a model which announces an  *)
(* action and stops (api/openai_responses.py).                             *)
(*                                                                         *)
(* A chunk of the model carries one delta.  The code takes the deltas of a *)
(* chunk in a fixed order (reasoning, content, tool calls, finish) and one *)
(* by one, so a chunk with several is several chunks here.                 *)
(*                                                                         *)
(* Upstreams keep to the Chat protocol in this: a chunk with a             *)
(* finish_reason is the last one with choices.                             *)
(***************************************************************************)
EXTENDS ResponseEvents

CONSTANTS Calls,      \* the tool calls the model may make
          IndexOf,    \* IndexOf[c]: the index its fragments carry, or ...
          NoIndex,    \* ... the upstream sends none
          FirstAnon,  \* first key for a call without index (1_000_000)
          NoKey,
          Nudging,    \* the values of BACKEND_PROXY_AUTO_NUDGE to consider
          MaxItems    \* bound: tool fragments come until so many items exist

ASSUME StreamAssumption ==
  /\ FirstAnon \in Nat
  /\ NoIndex \notin Nat
  /\ NoKey \notin Nat
  /\ IndexOf \in [Calls -> 0 .. FirstAnon - 1 \cup {NoIndex}]
  /\ \A c, d \in Calls : c # d => IndexOf[c] # IndexOf[d] \/ IndexOf[c] = NoIndex
  /\ Nudging \subseteq BOOLEAN
  /\ MaxItems \in Nat

VARIABLES nudge,     \* which handler serves the request
          stage,     \* "reading"; "starting" the rescue, "rescuing"; "ended", or
                     \* "raised" by an exception nobody catches
          upstream,  \* "open" or, after a finish_reason, "finished"
          st,        \* the adapter's state; st.heard is what the client heard
          finish,    \* telemetry_finish_reason, as far as looks_stuck tells
          spoke,     \* telemetry_n_text_chars > 0
          clean,     \* history: every stream so far ended after a finish_reason
          idless     \* history: calls of which a fragment had no index and no id

vars == <<nudge, stage, upstream, st, finish, spoke, clean, idless>>

Slot == [index : Nat, call : Calls, opened : BOOLEAN, closed : BOOLEAN]

NewState ==
  [started |-> FALSE, completed |-> FALSE, phase |-> "none",
   msgOpened |-> FALSE, msgClosed |-> FALSE, msgIndex |-> 0, nextIndex |-> 0,
   calls |-> [k \in {} |-> 0],
   anonNext |-> FirstAnon, byId |-> [c \in Calls |-> NoKey],
   heard |-> Silence]

-----------------------------------------------------------------------------
(* The pieces of chat_chunk_to_responses_events.  Each changes the state   *)
(* and tells the client.                                                   *)

Begin(s) ==
  IF s.started THEN s
  ELSE [s EXCEPT !.started = TRUE, !.heard = HearCreated(@)]

OpenText(s) ==
  IF s.msgOpened THEN s
  ELSE [s EXCEPT !.msgOpened = TRUE, !.msgIndex = s.nextIndex, !.nextIndex = @ + 1,
                 !.heard = HearAdded(@, s.nextIndex)]

Say(s) == [s EXCEPT !.heard = HearDelta(@, s.msgIndex)]

\* <think> comes before the first reasoning, and only before the first content.
Reason(s) ==
  LET o == OpenText(s)
  IN  IF s.phase = "none"
      THEN Say([o EXCEPT !.phase = "thinking", !.heard = HearThink(@, o.msgIndex)])
      ELSE Say(o)

\* Mutant: the end of the answer does not close <think>.
CloseThink_Forgotten(s) == s

CloseThink(s) ==
  IF s.phase = "thinking"
  THEN LET o == OpenText(s)
       IN  [o EXCEPT !.phase = "content", !.heard = HearUnthink(@, o.msgIndex)]
  ELSE s

Content(s) == Say([CloseThink(OpenText(s)) EXCEPT !.phase = "content"])

CloseText(s) ==
  IF s.msgOpened /\ ~s.msgClosed
  THEN [s EXCEPT !.msgClosed = TRUE, !.heard = HearDone(@, s.msgIndex)]
  ELSE s

\* Mutant: an id that has not been seen is looked up all the same.
KeyOf_Unseen(s, c, withId) ==
  IF IndexOf[c] # NoIndex THEN IndexOf[c]
  ELSE IF withId THEN s.byId[c]
  ELSE s.anonNext

\* The key of a fragment's call in state["tool_calls"].
KeyOf(s, c, withId) ==
  IF IndexOf[c] # NoIndex THEN IndexOf[c]
  ELSE IF withId /\ s.byId[c] # NoKey THEN s.byId[c]
  ELSE s.anonNext

\* Mutant: the id of a call without index is not remembered.
Allocate_Forgets(s, c, withId) ==
  IF KeyOf(s, c, withId) = s.anonNext
  THEN [s EXCEPT !.anonNext = @ + 1]
  ELSE s

Allocate(s, c, withId) ==
  LET k == KeyOf(s, c, withId)
  IN  IF k = s.anonNext
      THEN [s EXCEPT !.anonNext = @ + 1,
                     !.byId = IF withId THEN [@ EXCEPT ![c] = k] ELSE @]
      ELSE s

NewSlot(s, c) ==
  [index |-> s.nextIndex, call |-> c, opened |-> FALSE, closed |-> FALSE]

\* Mutant: a new call does not use up its output index.
Enlist_SameIndex(s, k, c) ==
  IF k \in DOMAIN s.calls THEN s
  ELSE [s EXCEPT !.calls = [l \in DOMAIN @ \cup {k} |-> IF l = k THEN NewSlot(s, c) ELSE @[l]]]

Enlist(s, k, c) ==
  IF k \in DOMAIN s.calls THEN s
  ELSE [s EXCEPT !.calls = [l \in DOMAIN @ \cup {k} |-> IF l = k THEN NewSlot(s, c) ELSE @[l]],
                 !.nextIndex = @ + 1]

\* The shell is sent once the name is known.
Name(s, k, withName) ==
  IF withName /\ ~s.calls[k].opened
  THEN [s EXCEPT !.calls[k].opened = TRUE, !.heard = HearAdded(@, s.calls[k].index)]
  ELSE s

Arguments(s, k, withArguments) ==
  IF withArguments /\ s.calls[k].opened
  THEN [s EXCEPT !.heard = HearDelta(@, s.calls[k].index)]
  ELSE s

\* One element of delta.tool_calls.
ToolFragment(s, c, withId, withName, withArguments) ==
  LET k == KeyOf(s, c, withId)
  IN  Arguments(Name(Enlist(Allocate(s, c, withId), k, c), k, withName), k, withArguments)

\* Calls that were never named are opened on the way.
CloseTools(s) ==
  LET unclosed == {k \in DOMAIN s.calls : ~s.calls[k].closed}
      unopened == {k \in unclosed : ~s.calls[k].opened}
  IN  [s EXCEPT !.calls = [k \in DOMAIN @ |-> [@[k] EXCEPT !.opened = TRUE, !.closed = TRUE]],
                !.heard = HearAllDone(@, {s.calls[k].index : k \in unopened},
                                         {s.calls[k].index : k \in unclosed})]

\* Mutant: the text is left out of an answer that has calls.
FinalOutput_CallsOrText(s) ==
  IF s.msgOpened /\ DOMAIN s.calls = {} THEN {s.msgIndex}
  ELSE {s.calls[k].index : k \in DOMAIN s.calls}

FinalOutput(s) ==
  (IF s.msgOpened THEN {s.msgIndex} ELSE {}) \cup {s.calls[k].index : k \in DOMAIN s.calls}

CloseItems(s) == CloseTools(CloseText(CloseThink(Begin(s))))

Complete(s, status) ==
  [s EXCEPT !.completed = TRUE, !.heard = HearFinal(@, status, FinalOutput(s))]

\* Mutant: a salvaged answer is reported as complete.
ForceClose_AsComplete(s) ==
  IF s.completed THEN s ELSE Complete(CloseItems(s), "completed")

ForceClose(s) == IF s.completed THEN s ELSE Complete(CloseItems(s), "incomplete")

-----------------------------------------------------------------------------
(* The rescue's own pieces                                                 *)

\* The rescue may open a message item of its own.
ResetForRescue(s) ==
  [s EXCEPT !.phase = "none", !.msgOpened = FALSE, !.msgClosed = FALSE, !.completed = FALSE]

\* response.completed as the rescue handler sends it by itself.
TellFinal(s, status) == [s EXCEPT !.heard = HearFinal(@, status, FinalOutput(s))]

\* Mutant: the handler leaves the last word to the stream.
Finalise_LeftToStream(s) == s

Finalise(s) == IF s.completed THEN s ELSE TellFinal(s, "completed")

\* Phase one is held back by one event.
Suppressing == nudge /\ stage = "reading"

-----------------------------------------------------------------------------

Init ==
  /\ nudge \in Nudging
  /\ stage = "reading"
  /\ upstream = "open"
  /\ st = NewState
  /\ finish = "none"
  /\ spoke = FALSE
  /\ clean = TRUE
  /\ idless = {}

Streaming == stage \in {"reading", "rescuing"}

Chunk == /\ Streaming
         /\ upstream = "open"
         /\ UNCHANGED <<nudge, stage, clean>>

\* A chunk with a choice but nothing in it (the role, for one).
EmptyChunk == /\ Chunk
              /\ st' = Begin(st)
              /\ UNCHANGED <<upstream, finish, spoke, idless>>

ReasoningChunk == /\ Chunk
                  /\ st' = Reason(Begin(st))
                  /\ UNCHANGED <<upstream, finish, spoke, idless>>

ContentChunk == /\ Chunk
                /\ st' = Content(Begin(st))
                /\ spoke' = TRUE
                /\ UNCHANGED <<upstream, finish, idless>>

ToolChunk(c, withId, withName, withArguments) ==
  /\ Chunk
  /\ st.nextIndex < MaxItems
  /\ st' = ToolFragment(Begin(st), c, withId, withName, withArguments)
  /\ idless' = IF IndexOf[c] = NoIndex /\ ~withId THEN idless \cup {c} ELSE idless
  /\ UNCHANGED <<upstream, finish, spoke>>

FinishChunk(reason) ==
  /\ Chunk
  /\ upstream' = "finished"
  /\ finish' = reason
  /\ st' = LET s == CloseItems(st) IN IF Suppressing THEN s ELSE Complete(s, "completed")
  /\ UNCHANGED <<spoke, idless>>

LooksStuck == finish = "stop" /\ DOMAIN st.calls = {} /\ spoke

\* The upstream closes the stream.  Whether a text announces an action is
\* for the patterns of stuck_rescue.py to say.
UpstreamEnds ==
  /\ Streaming
  /\ clean' = (clean /\ upstream = "finished")
  /\ \/ /\ ~nudge
        /\ st' = ForceClose(st)
        /\ stage' = "ended"
        /\ UNCHANGED finish
     \/ /\ nudge
        /\ st' = Finalise(st)
        /\ stage' = "ended"
        /\ UNCHANGED finish
     \/ /\ Suppressing
        /\ LooksStuck
        /\ st' = ResetForRescue(st)
        /\ finish' = "none"
        /\ stage' = "starting"
  /\ UNCHANGED <<nudge, upstream, spoke, idless>>

\* A broken connection, a timeout: an exception in the middle of the stream.
UpstreamBreaks ==
  /\ Streaming
  /\ clean' = FALSE
  /\ st' = IF ~nudge THEN ForceClose(st)
           ELSE IF stage = "reading" THEN TellFinal(st, "incomplete")
           ELSE Finalise(st)
  /\ stage' = "ended"
  /\ UNCHANGED <<nudge, upstream, finish, spoke, idless>>

RescueStarts ==
  /\ stage = "starting"
  /\ stage' = "rescuing"
  /\ upstream' = "open"
  /\ UNCHANGED <<nudge, st, finish, spoke, clean, idless>>

\* retry_stream_start raises one of the proxy's own errors.
RescueRefused ==
  /\ stage = "starting"
  /\ stage' = "ended"
  /\ st' = Finalise(st)
  /\ UNCHANGED <<nudge, upstream, finish, spoke, clean, idless>>

\* It raises another one: stream() lets those of httpx through.
RescueRaises ==
  /\ stage = "starting"
  /\ stage' = "raised"
  /\ UNCHANGED <<nudge, upstream, st, finish, spoke, clean, idless>>

Next ==
  \/ EmptyChunk
  \/ ReasoningChunk
  \/ ContentChunk
  \/ \E c \in Calls, withId, withName, withArguments \in BOOLEAN :
       ToolChunk(c, withId, withName, withArguments)
  \/ \E reason \in {"stop", "other"} : FinishChunk(reason)
  \/ UpstreamEnds
  \/ UpstreamBreaks
  \/ RescueStarts
  \/ RescueRefused
  \/ RescueRaises

Spec == Init /\ [][Next]_vars

-----------------------------------------------------------------------------

\* The type invariant.
TypeOK ==
  /\ nudge \in BOOLEAN
  /\ stage \in {"reading", "starting", "rescuing", "ended", "raised"}
  /\ upstream \in {"open", "finished"}
  /\ finish \in {"none", "stop", "other"}
  /\ spoke \in BOOLEAN /\ clean \in BOOLEAN
  /\ idless \in SUBSET Calls
  /\ st.started \in BOOLEAN /\ st.completed \in BOOLEAN
  /\ st.phase \in {"none", "thinking", "content"}
  /\ st.msgOpened \in BOOLEAN /\ st.msgClosed \in BOOLEAN
  /\ st.msgIndex \in Nat /\ st.nextIndex \in Nat
  /\ DOMAIN st.calls \subseteq Nat
  /\ \A k \in DOMAIN st.calls : st.calls[k] \in Slot
  /\ st.anonNext \in Nat
  /\ st.byId \in [Calls -> Nat \cup {NoKey}]
  /\ st.heard \in Heard

\* The client can follow the answer: response.created once and before
\* anything else, every item added once under an index of its own, deltas and
\* the done only while it is open, response.completed once and last; over all
\* orders of text, reasoning and fragments of several calls, and across a
\* rescue whose streams both run to their end.
EventsInOrder == ~nudge \/ clean => ~st.heard.disorder

\* When an answer is over, every item it added is done and no <think> is left
\* open ("the client never sees a half-open think block"), in the plain handler
\* however the upstream ended.
NothingLeftOpen ==
  stage = "ended" /\ (~nudge \/ clean)
    => st.heard.added = st.heard.done /\ st.heard.thinking = {}

\* Every answer that comes to its end has its response.completed: the adapter
\* "GUARANTEES a terminal response.completed event", and the rescue handler
\* makes up for the one it held back.
AnswerEnds == stage = "ended" => st.heard.final # "none"

\* The output[] of response.completed has the items the stream had.
FullOutput == stage = "ended" /\ ~nudge => st.heard.listed = st.heard.added

\* "the caller can distinguish a clean finish from a salvaged one".
HonestStatus ==
  stage = "ended" /\ ~nudge => (st.heard.final = "completed" <=> upstream = "finished")

\* A call of the model is one item, if each of its fragments says which call it
\* belongs to, by index or by id.
OneItemPerCall ==
  \A k, l \in DOMAIN st.calls :
    st.calls[k].call = st.calls[l].call /\ st.calls[k].call \notin idless => k = l
=============================================================================
