----------------------- MODULE ResponsesStream_proofs -----------------------
(***************************************************************************)
(* Proofs about the streamed answers: for any calls and any order of the   *)
(* chunks, the client can follow the events, nothing is left open, the     *)
(* plain handler tells of a salvaged answer that it is one, and a call is  *)
(* one item.                                                               *)
(*                                                                         *)
(* Coherent says that the adapter's state agrees with what the client has  *)
(* heard, Live that its items are still open.  Every piece of the adapter  *)
(* keeps Live until the closing pieces lead to Shut (one lemma per piece); *)
(* StreamInv says which of them holds in which stage.  Keyed, on top of    *)
(* it, says whose item is under which key.                                 *)
(***************************************************************************)
EXTENDS ResponsesStream, TLAPS

\* Nothing was out of order so far.
Calm(h) == h \in Heard /\ ~h.disorder

\* state["tool_calls"], by key.
Dicts == UNION {[D -> Slot] : D \in SUBSET Nat}

State ==
  [started : BOOLEAN, completed : BOOLEAN, phase : {"none", "thinking", "content"},
   msgOpened : BOOLEAN, msgClosed : BOOLEAN, msgIndex : Nat, nextIndex : Nat,
   calls : Dicts, anonNext : Nat, byId : [Calls -> Nat \cup {NoKey}], heard : Heard]

Indexes(s) == {s.calls[k].index : k \in DOMAIN s.calls}

\* The message item that is being written, as a set.
Message(s) == IF s.msgOpened THEN {s.msgIndex} ELSE {}

\* The client has heard of the started answer, and nothing out of order.
Begun(s) ==
  /\ s.heard.created = s.started
  /\ Calm(s.heard)
  /\ s.heard.final = "none"
  /\ s.msgOpened \/ DOMAIN s.calls # {} => s.started

\* Indices are below the next one, and no two items share one.
Indexed(s) ==
  /\ \A i \in s.heard.added : i < s.nextIndex
  /\ \A k \in DOMAIN s.calls : s.calls[k].index < s.nextIndex
  /\ \A k, l \in DOMAIN s.calls : s.calls[k].index = s.calls[l].index => k = l
  /\ Message(s) \cap Indexes(s) = {}

\* The client knows the items it was shown, and has no other open.
Announced(s) ==
  /\ s.heard.done \subseteq s.heard.added
  /\ Message(s) \subseteq s.heard.added
  /\ \A k \in DOMAIN s.calls : s.calls[k].opened <=> s.calls[k].index \in s.heard.added
  /\ s.heard.added \ s.heard.done \subseteq Message(s) \cup Indexes(s)

\* <think> is open in the text exactly in the phase "thinking".
Thinks(s) ==
  /\ s.heard.thinking = IF s.phase = "thinking" THEN {s.msgIndex} ELSE {}
  /\ s.phase = "thinking" => s.msgOpened

Coherent(s) == s \in State /\ Begun(s) /\ Indexed(s) /\ Announced(s) /\ Thinks(s)

\* Items are open: neither the message nor a call is done.
Live(s) ==
  /\ Coherent(s)
  /\ ~s.completed /\ ~s.msgClosed
  /\ (Message(s) \cup Indexes(s)) \cap s.heard.done = {}
  /\ \A k \in DOMAIN s.calls : ~s.calls[k].closed

\* The message is done, the calls are not.
TextShut(s) ==
  /\ Coherent(s) /\ s.started
  /\ ~s.completed /\ s.phase # "thinking"
  /\ Message(s) \subseteq s.heard.done
  /\ Indexes(s) \cap s.heard.done = {}
  /\ \A k \in DOMAIN s.calls : ~s.calls[k].closed

\* Everything is done, but for the last word.
Shut(s) ==
  /\ s \in State /\ s.started /\ Calm(s.heard)
  /\ s.heard.created
  /\ s.heard.added = s.heard.done /\ s.heard.thinking = {}
  /\ Message(s) \cup Indexes(s) \subseteq s.heard.added
  /\ \A i \in s.heard.added : i < s.nextIndex

\* Nothing is under way in a started answer.
Ready(s) ==
  s.started /\ ~s.msgOpened /\ s.phase = "none" /\ DOMAIN s.calls = {}

\* No item was dropped from the state.
Whole(s) == s.heard.added \subseteq Message(s) \cup Indexes(s)

-----------------------------------------------------------------------------
(* Dictionaries                                                            *)

\* What a dictionary of calls is made of, and how one is made.
LEMMA DictShape ==
  ASSUME NEW d \in Dicts
  PROVE  /\ DOMAIN d \subseteq Nat
         /\ d = [k \in DOMAIN d |-> d[k]]
         /\ \A k \in DOMAIN d : d[k] \in Slot
BY DEF Dicts

LEMMA MakeDict ==
  ASSUME NEW D \in SUBSET Nat, NEW d, d = [k \in D |-> d[k]],
         \A k \in D : d[k] \in Slot
  PROVE  d \in Dicts
<1>1. d \in [D -> Slot]  OBVIOUS
<1> QED  BY <1>1 DEF Dicts

-----------------------------------------------------------------------------
(* The events, each where it is in order                                   *)

\* The first response.created.
LEMMA CreatedInOrder ==
  ASSUME NEW h, Calm(h), ~h.created
  PROVE  LET g == HearCreated(h)
         IN  /\ Calm(g) /\ g.created
             /\ g.final = h.final /\ g.added = h.added
             /\ g.done = h.done /\ g.thinking = h.thinking
BY DEF Calm, Heard, HearCreated, Note

\* An item that was not added before.
LEMMA AddedInOrder ==
  ASSUME NEW h, Calm(h), Under(h), NEW i \in Nat, i \notin h.added
  PROVE  LET g == HearAdded(h, i)
         IN  /\ Calm(g) /\ Under(g)
             /\ g.added = h.added \cup {i}
             /\ g.done = h.done /\ g.thinking = h.thinking
BY DEF Calm, Heard, HearAdded, Note, Under

\* A delta of an open item leaves no trace.
LEMMA DeltaInOrder ==
  ASSUME NEW h, Calm(h), NEW i, IsOpen(h, i)
  PROVE  HearDelta(h, i) = h
BY DEF Calm, Heard, HearDelta, Note

\* <think> and </think> in an open item.
LEMMA ThinkInOrder ==
  ASSUME NEW h, Calm(h), NEW i \in Nat, IsOpen(h, i)
  PROVE  LET g == HearThink(h, i)
             u == HearUnthink(h, i)
         IN  /\ Calm(g) /\ Under(g)
             /\ g.thinking = h.thinking \cup {i}
             /\ g.added = h.added /\ g.done = h.done
             /\ Calm(u) /\ Under(u)
             /\ u.thinking = h.thinking \ {i}
             /\ u.added = h.added /\ u.done = h.done
<1>1. HearDelta(h, i) = h  BY DeltaInOrder
<1> QED  BY <1>1 DEF Calm, Heard, HearThink, HearUnthink, Under, IsOpen

\* The done of an open item.
LEMMA DoneInOrder ==
  ASSUME NEW h, Calm(h), NEW i \in Nat, IsOpen(h, i)
  PROVE  LET g == HearDone(h, i)
         IN  /\ Calm(g) /\ Under(g)
             /\ g.done = h.done \cup {i}
             /\ g.added = h.added /\ g.thinking = h.thinking
BY DEF Calm, Heard, HearDone, Note, Under, IsOpen

\* The last word.
LEMMA FinalInOrder ==
  ASSUME NEW h \in Heard, NEW status \in {"completed", "incomplete"},
         NEW output \in SUBSET Nat
  PROVE  LET g == HearFinal(h, status, output)
         IN  /\ g \in Heard /\ g.final = status /\ g.listed = output
             /\ g.added = h.added /\ g.done = h.done /\ g.thinking = h.thinking
             /\ Calm(h) /\ Under(h) => Calm(g)
BY DEF Calm, Heard, HearFinal, Note

-----------------------------------------------------------------------------
(* The pieces                                                              *)

\* response.created before the first chunk's own events.
LEMMA BeginKeeps ==
  ASSUME NEW s, Live(s)
  PROVE  /\ Live(Begin(s)) /\ Begin(s).started
         /\ Whole(s) => Whole(Begin(s))
<1> DEFINE t == Begin(s)
<1>1. CASE s.started  BY <1>1 DEF Begin
<1>2. CASE ~s.started
  <2>1. s \in State /\ Calm(s.heard) /\ ~s.heard.created
    BY <1>2 DEF Live, Coherent, Begun
  <2>2. /\ Calm(t.heard) /\ t.heard.created
        /\ t.heard.final = s.heard.final /\ t.heard.added = s.heard.added
        /\ t.heard.done = s.heard.done /\ t.heard.thinking = s.heard.thinking
    BY <1>2, <2>1, CreatedInOrder DEF Begin, State
  <2>3. /\ t \in State /\ t.started
        /\ t.completed = s.completed /\ t.phase = s.phase
        /\ t.msgOpened = s.msgOpened /\ t.msgClosed = s.msgClosed
        /\ t.msgIndex = s.msgIndex /\ t.nextIndex = s.nextIndex /\ t.calls = s.calls
    BY <1>2, <2>1, <2>2 DEF Begin, State, Calm
  <2> QED
    BY <2>2, <2>3 DEF Live, Coherent, Begun, Indexed, Announced, Thinks, Message, Indexes, Whole
<1> QED  BY <1>1, <1>2

\* _open_text_item takes an index nobody has, and leaves the message open.
LEMMA OpenTextKeeps ==
  ASSUME NEW s, Live(s), s.started
  PROVE  LET t == OpenText(s)
         IN  /\ Live(t) /\ t.started /\ t.msgOpened /\ t.phase = s.phase
             /\ Whole(s) => Whole(t)
             /\ IsOpen(t.heard, t.msgIndex)
<1> DEFINE t == OpenText(s)
<1>0. s \in State /\ Calm(s.heard) /\ Under(s.heard)
  BY DEF Live, Coherent, Begun, Under
<1>1. CASE s.msgOpened
  BY <1>0, <1>1 DEF OpenText, IsOpen, Live, Coherent, Announced, Message
<1>2. CASE ~s.msgOpened
  <2>1. s.nextIndex \notin s.heard.added /\ s.nextIndex \in Nat
    BY <1>0 DEF Live, Coherent, Indexed, State
  <2>2. /\ Calm(t.heard) /\ Under(t.heard)
        /\ t.heard.added = s.heard.added \cup {s.nextIndex}
        /\ t.heard.done = s.heard.done /\ t.heard.thinking = s.heard.thinking
    BY <1>0, <1>2, <2>1, AddedInOrder DEF OpenText, State
  <2>3. /\ t \in State /\ t.msgOpened /\ t.msgIndex = s.nextIndex
        /\ t.nextIndex = s.nextIndex + 1
        /\ t.started = s.started /\ t.completed = s.completed /\ t.phase = s.phase
        /\ t.msgClosed = s.msgClosed /\ t.calls = s.calls
    <3>1. /\ s.nextIndex + 1 \in Nat
          /\ HearAdded(s.heard, s.nextIndex) \in Heard
      BY <1>2, <2>1, <1>0, AddedInOrder DEF Calm
    <3>2. t = [s EXCEPT !.msgOpened = TRUE, !.msgIndex = s.nextIndex,
                        !.nextIndex = s.nextIndex + 1,
                        !.heard = HearAdded(s.heard, s.nextIndex)]
      BY <1>0, <1>2 DEF OpenText, State
    <3> QED  BY <1>0, <2>1, <3>1, <3>2 DEF State
  <2>4. Message(s) = {} /\ Message(t) = {s.nextIndex} /\ Indexes(t) = Indexes(s)
    BY <1>2, <2>3 DEF Message, Indexes
  <2>5. /\ \A i \in s.heard.added : i \in Nat /\ i < s.nextIndex
        /\ \A k \in DOMAIN s.calls : s.calls[k].index \in Nat /\ s.calls[k].index < s.nextIndex
    BY <1>0, DictShape DEF Live, Coherent, Indexed, State, Heard, Slot
  <2>6. s.nextIndex \notin s.heard.done /\ s.nextIndex \notin Indexes(s)
    BY <2>1, <2>5 DEF Live, Coherent, Announced, Indexes
  <2>7. Begun(t)
    BY <1>0, <2>2, <2>3 DEF Live, Coherent, Begun, Under
  <2>8. Indexed(t)
    BY <2>1, <2>2, <2>3, <2>4, <2>5, <2>6 DEF Live, Coherent, Indexed
  <2>9. Announced(t)
    <3>1. \A k \in DOMAIN s.calls : s.calls[k].index # s.nextIndex
      BY <2>1, <2>5
    <3> QED
      BY <2>2, <2>3, <2>4, <3>1 DEF Live, Coherent, Announced
  <2>10. Thinks(t)
    BY <1>2, <2>2, <2>3 DEF Live, Coherent, Thinks
  <2>11. Live(t)
    BY <2>2, <2>3, <2>4, <2>6, <2>7, <2>8, <2>9, <2>10 DEF Live, Coherent
  <2>12. Whole(s) => Whole(t)
    BY <2>2, <2>4 DEF Whole
  <2> QED
    BY <2>2, <2>3, <2>6, <2>11, <2>12 DEF IsOpen
<1> QED  BY <1>1, <1>2

\* A delta of the open message is in order, and so changes nothing.
LEMMA SayKeeps ==
  ASSUME NEW s \in State, Calm(s.heard), IsOpen(s.heard, s.msgIndex)
  PROVE  Say(s) = s
<1>1. HearDelta(s.heard, s.msgIndex) = s.heard  BY DeltaInOrder
<1> QED  BY <1>1 DEF Say, State

\* t is s, but for the phase and what was heard of <think>.
Rephased(s, t) ==
  /\ t \in State /\ Calm(t.heard) /\ Under(t.heard)
  /\ t.started = s.started /\ t.completed = s.completed
  /\ t.msgOpened = s.msgOpened /\ t.msgClosed = s.msgClosed
  /\ t.msgIndex = s.msgIndex /\ t.nextIndex = s.nextIndex /\ t.calls = s.calls
  /\ t.heard.added = s.heard.added /\ t.heard.done = s.heard.done
  /\ Thinks(t)

\* Such a change keeps the answer live.
LEMMA RephasedKeeps ==
  ASSUME NEW s, Live(s), s.started, NEW t, Rephased(s, t)
  PROVE  Live(t) /\ t.started /\ (Whole(s) => Whole(t))
<1>1. Message(t) = Message(s) /\ Indexes(t) = Indexes(s)
  BY DEF Rephased, Message, Indexes
<1> QED
  BY <1>1 DEF Rephased, Live, Coherent, Begun, Indexed, Announced, Whole, Under

\* Setting the phase is such a change if <think> is told along with it.
LEMMA SetPhase ==
  ASSUME NEW s \in State, NEW t, t = [s EXCEPT !.phase = t.phase, !.heard = t.heard],
         t.phase \in {"thinking", "content"}, Calm(t.heard), Under(t.heard),
         t.heard.added = s.heard.added, t.heard.done = s.heard.done,
         t.phase = "thinking" => t.heard.thinking = {s.msgIndex} /\ s.msgOpened,
         t.phase = "content" => t.heard.thinking = {}
  PROVE  Rephased(s, t)
<1>1. /\ t \in State
      /\ t.started = s.started /\ t.completed = s.completed
      /\ t.msgOpened = s.msgOpened /\ t.msgClosed = s.msgClosed
      /\ t.msgIndex = s.msgIndex /\ t.nextIndex = s.nextIndex /\ t.calls = s.calls
  BY DEF State, Calm
<1>2. Thinks(t)  BY <1>1 DEF Thinks
<1> QED  BY <1>1, <1>2 DEF Rephased

\* A reasoning delta, with the <think> before the first.
LEMMA ReasonKeeps ==
  ASSUME NEW s, Live(s), s.started
  PROVE  Live(Reason(s)) /\ (Whole(s) => Whole(Reason(s)))
<1> DEFINE o == OpenText(s)
           h == HearThink(o.heard, o.msgIndex)
           t == [o EXCEPT !.phase = "thinking", !.heard = h]
<1>1. /\ Live(o) /\ o.started /\ o.msgOpened /\ o.phase = s.phase
      /\ Whole(s) => Whole(o)
      /\ IsOpen(o.heard, o.msgIndex)
  BY OpenTextKeeps
<1>2. /\ o \in State /\ Calm(o.heard) /\ Under(o.heard) /\ o.msgIndex \in Nat
      /\ o.phase # "thinking" => o.heard.thinking = {}
  BY <1>1 DEF Live, Coherent, Begun, Thinks, State, IsOpen
<1>3. CASE s.phase = "none"
  <2>1. /\ Calm(h) /\ Under(h) /\ h.thinking = {o.msgIndex}
        /\ h.added = o.heard.added /\ h.done = o.heard.done
    BY <1>1, <1>2, <1>3, ThinkInOrder
  <2>2. /\ Live(t) /\ t.msgIndex = o.msgIndex /\ t.heard = h
        /\ Whole(o) => Whole(t)
    <3> HIDE DEF h
    <3>1. /\ t.phase = "thinking" /\ t.heard = h
          /\ t = [o EXCEPT !.phase = t.phase, !.heard = t.heard]
      BY <1>2 DEF State
    <3> HIDE DEF t
    <3>2. Rephased(o, t)
      BY <1>1, <1>2, <2>1, <3>1, SetPhase
    <3> QED  BY <1>1, <3>1, <3>2, RephasedKeeps DEF Rephased
  <2>3. t \in State /\ Calm(t.heard) /\ IsOpen(t.heard, t.msgIndex)
    BY <1>1, <2>1, <2>2 DEF Live, Coherent, IsOpen
  <2>4. Say(t) = t
    BY <2>3, SayKeeps
  <2>5. Reason(s) = t
    BY <1>2, <1>3, <2>4 DEF Reason, State
  <2> QED  BY <1>1, <2>2, <2>5
<1>4. CASE s.phase # "none"
  <2>1. Reason(s) = o
    BY <1>1, <1>2, <1>4, SayKeeps DEF Reason
  <2> QED  BY <1>1, <2>1
<1> QED  BY <1>3, <1>4

\* </think>, if <think> is open; the message is open then.
LEMMA CloseThinkKeeps ==
  ASSUME NEW s, Live(s), s.started
  PROVE  LET t == CloseThink(s)
         IN  /\ Live(t) /\ t.started /\ t.phase # "thinking"
             /\ t.msgOpened = s.msgOpened /\ t.msgIndex = s.msgIndex
             /\ t.calls = s.calls
             /\ Whole(s) => Whole(t)
<1>1. CASE s.phase # "thinking"  BY <1>1 DEF CloseThink
<1>2. CASE s.phase = "thinking"
  <2>1. /\ s \in State /\ Calm(s.heard) /\ Under(s.heard)
        /\ s.msgOpened /\ s.msgIndex \in Nat /\ s.heard.thinking = {s.msgIndex}
    BY <1>2 DEF Live, Coherent, Begun, Thinks, State, Under
  <2>2. OpenText(s) = s  BY <2>1 DEF OpenText
  <2>3. IsOpen(s.heard, s.msgIndex)
    BY <2>1, <2>2, OpenTextKeeps
  <2> DEFINE h == HearUnthink(s.heard, s.msgIndex)
  <2>4. /\ Calm(h) /\ Under(h) /\ h.thinking = {}
        /\ h.added = s.heard.added /\ h.done = s.heard.done
    BY <2>1, <2>3, ThinkInOrder
  <2> DEFINE t == [s EXCEPT !.phase = "content", !.heard = h]
  <2>5. CloseThink(s) = t
    BY <1>2, <2>1, <2>2 DEF CloseThink, State
  <2>6. Rephased(s, t) /\ t.phase = "content"
    <3> HIDE DEF h
    <3>1. /\ t.phase = "content" /\ t.heard = h
          /\ t = [s EXCEPT !.phase = t.phase, !.heard = t.heard]
      BY <2>1 DEF State
    <3> HIDE DEF t
    <3> QED  BY <2>1, <2>4, <3>1, SetPhase
  <2> HIDE DEF t
  <2> QED  BY <2>5, <2>6, RephasedKeeps DEF Rephased
<1> QED  BY <1>1, <1>2

\* A content delta, with the </think> before the first.
LEMMA ContentKeeps ==
  ASSUME NEW s, Live(s), s.started
  PROVE  Live(Content(s)) /\ (Whole(s) => Whole(Content(s)))
<1> DEFINE o == OpenText(s)
           c == CloseThink(o)
           t == [c EXCEPT !.phase = "content"]
<1>1. Live(o) /\ o.started /\ o.msgOpened /\ (Whole(s) => Whole(o))
  BY OpenTextKeeps
<1>2. /\ Live(c) /\ c.started /\ c.phase # "thinking" /\ c.msgOpened
      /\ Whole(o) => Whole(c)
  BY <1>1, CloseThinkKeeps
<1>3. /\ c \in State /\ Calm(c.heard) /\ Under(c.heard) /\ c.heard.thinking = {}
  BY <1>2 DEF Live, Coherent, Begun, Thinks, Under
<1> HIDE DEF c
<1>4. /\ t.phase = "content" /\ t.heard = c.heard
      /\ t = [c EXCEPT !.phase = t.phase, !.heard = t.heard]
  BY <1>3 DEF State
<1> HIDE DEF t
<1>5. Live(t) /\ t.started /\ t.msgOpened /\ (Whole(c) => Whole(t))
  <2>1. Rephased(c, t)  BY <1>3, <1>4, SetPhase
  <2> QED  BY <1>2, <2>1, RephasedKeeps DEF Rephased
<1>6. OpenText(t) = t  BY <1>5 DEF OpenText
<1>7. IsOpen(t.heard, t.msgIndex)
  BY <1>5, <1>6, OpenTextKeeps
<1>8. Say(t) = t
  BY <1>5, <1>7, SayKeeps DEF Live, Coherent, Begun
<1> QED  BY <1>1, <1>2, <1>5, <1>8 DEF Content, c, t

\* Indices, remembered keys and the counter are all numbers.
LEMMA KeyIsNat ==
  ASSUME NEW s \in State, NEW c \in Calls, NEW withId \in BOOLEAN
  PROVE  KeyOf(s, c, withId) \in Nat
BY StreamAssumption DEF KeyOf, State

\* Choosing a key tells the client nothing.
LEMMA AllocateKeeps ==
  ASSUME NEW s, Live(s), s.started, NEW c \in Calls, NEW withId \in BOOLEAN
  PROVE  LET t == Allocate(s, c, withId)
         IN  Live(t) /\ t.started /\ (Whole(s) => Whole(t))
<1> DEFINE t == Allocate(s, c, withId)
           k == KeyOf(s, c, withId)
<1>1. s \in State /\ k \in Nat
  BY KeyIsNat DEF Live, Coherent
<1>2. CASE k # s.anonNext  BY <1>2 DEF Allocate
<1>3. CASE k = s.anonNext
  <2> DEFINE b == IF withId THEN [s.byId EXCEPT ![c] = k] ELSE s.byId
  <2>1. t = [s EXCEPT !.anonNext = s.anonNext + 1, !.byId = b]
    BY <1>1, <1>3 DEF Allocate, State
  <2>2. b \in [Calls -> Nat \cup {NoKey}] /\ s.anonNext + 1 \in Nat
    BY <1>1 DEF State
  <2> HIDE DEF b, k
  <2>3. /\ t \in State
        /\ t.started = s.started /\ t.completed = s.completed /\ t.phase = s.phase
        /\ t.msgOpened = s.msgOpened /\ t.msgClosed = s.msgClosed
        /\ t.msgIndex = s.msgIndex /\ t.nextIndex = s.nextIndex
        /\ t.calls = s.calls /\ t.heard = s.heard
    BY <1>1, <2>1, <2>2 DEF State
  <2> HIDE DEF t
  <2>4. Live(t) /\ t.started /\ (Whole(s) => Whole(t))
    <3>1. Message(t) = Message(s) /\ Indexes(t) = Indexes(s)
      BY <2>3 DEF Message, Indexes
    <3>2. Begun(t) /\ Thinks(t)
      BY <2>3 DEF Live, Coherent, Begun, Thinks
    <3>3. Indexed(t) /\ Announced(t)
      BY <2>3, <3>1 DEF Live, Coherent, Indexed, Announced
    <3> QED
      BY <2>3, <3>1, <3>2, <3>3 DEF Live, Coherent, Whole
  <2> QED  BY <2>4 DEF t
<1> QED  BY <1>2, <1>3

\* A new call takes an index nobody has.
LEMMA EnlistKeeps ==
  ASSUME NEW s, Live(s), s.started, NEW k \in Nat, NEW c \in Calls
  PROVE  LET t == Enlist(s, k, c)
         IN  Live(t) /\ t.started /\ k \in DOMAIN t.calls /\ (Whole(s) => Whole(t))
<1> DEFINE t == Enlist(s, k, c)
           D == DOMAIN s.calls \cup {k}
           d == [l \in D |-> IF l = k THEN NewSlot(s, c) ELSE s.calls[l]]
<1>0. s \in State /\ s.calls \in Dicts /\ s.nextIndex \in Nat
  BY DEF Live, Coherent, State
<1>1. CASE k \in DOMAIN s.calls  BY <1>1 DEF Enlist
<1>2. CASE k \notin DOMAIN s.calls
  <2>1. d \in Dicts
    <3>1. NewSlot(s, c) \in Slot  BY <1>0 DEF NewSlot, Slot
    <3>2. D \in SUBSET Nat  BY <1>0, DictShape
    <3>3. \A l \in D : d[l] \in Slot  BY <1>0, <3>1, DictShape
    <3>4. d = [l \in D |-> d[l]]  OBVIOUS
    <3> HIDE DEF d, D
    <3> QED  BY <3>2, <3>3, <3>4, MakeDict
  <2>2. t = [s EXCEPT !.calls = d, !.nextIndex = s.nextIndex + 1]
    BY <1>0, <1>2 DEF Enlist, State
  <2>3. /\ DOMAIN d = D /\ d[k] = NewSlot(s, c)
        /\ \A l \in DOMAIN s.calls : d[l] = s.calls[l]
    BY <1>2
  <2> HIDE DEF d
  <2>4. /\ t \in State /\ t.calls = d /\ t.nextIndex = s.nextIndex + 1
        /\ t.started = s.started /\ t.completed = s.completed /\ t.phase = s.phase
        /\ t.msgOpened = s.msgOpened /\ t.msgClosed = s.msgClosed
        /\ t.msgIndex = s.msgIndex /\ t.heard = s.heard
    <3>1. s.nextIndex + 1 \in Nat  BY <1>0
    <3> HIDE DEF t
    <3> QED  BY <1>0, <2>1, <2>2, <3>1 DEF State
  <2> HIDE DEF t
  <2>5. /\ d[k].index = s.nextIndex /\ ~d[k].opened /\ ~d[k].closed
    BY <2>3 DEF NewSlot
  <2>6. /\ \A i \in s.heard.added : i \in Nat /\ i < s.nextIndex
        /\ \A l \in DOMAIN s.calls : s.calls[l].index \in Nat /\ s.calls[l].index < s.nextIndex
        /\ s.heard.done \subseteq s.heard.added /\ Message(s) \subseteq s.heard.added
    BY <1>0, DictShape DEF Live, Coherent, Indexed, Announced, State, Heard, Slot
  <2>7. s.nextIndex \notin s.heard.added \cup s.heard.done \cup Message(s) \cup Indexes(s)
    BY <1>0, <2>6 DEF Indexes
  <2>8. Message(t) = Message(s) /\ Indexes(t) = Indexes(s) \cup {s.nextIndex}
    BY <2>3, <2>4, <2>5 DEF Message, Indexes
  <2>9. Begun(t)
    BY <2>4 DEF Live, Coherent, Begun
  <2>10. Indexed(t)
    <3>1. \A i \in t.heard.added : i < t.nextIndex
      BY <1>0, <2>4, <2>6
    <3>2. \A l \in DOMAIN t.calls : t.calls[l].index < t.nextIndex
      BY <1>0, <2>3, <2>4, <2>5, <2>6
    <3>3. \A l, m \in DOMAIN t.calls : t.calls[l].index = t.calls[m].index => l = m
      <4>1. \A l \in DOMAIN s.calls : s.calls[l].index # s.nextIndex
        BY <1>0, <2>6
      <4> QED  BY <2>3, <2>4, <2>5, <4>1 DEF Live, Coherent, Indexed
    <3>4. Message(t) \cap Indexes(t) = {}
      BY <2>7, <2>8 DEF Live, Coherent, Indexed
    <3> QED  BY <3>1, <3>2, <3>3, <3>4 DEF Indexed
  <2>11. Announced(t)
    <3>1. \A l \in DOMAIN t.calls : t.calls[l].opened <=> t.calls[l].index \in t.heard.added
      BY <2>3, <2>4, <2>5, <2>7 DEF Live, Coherent, Announced
    <3> QED  BY <2>4, <2>8, <3>1 DEF Live, Coherent, Announced
  <2>12. Thinks(t)
    BY <2>4 DEF Live, Coherent, Thinks
  <2>13. Live(t)
    <3>1. (Message(t) \cup Indexes(t)) \cap t.heard.done = {}
      BY <2>4, <2>7, <2>8 DEF Live
    <3>2. \A l \in DOMAIN t.calls : ~t.calls[l].closed
      BY <2>3, <2>4, <2>5 DEF Live
    <3> QED
      BY <2>4, <2>9, <2>10, <2>11, <2>12, <3>1, <3>2 DEF Live, Coherent
  <2>14. Whole(s) => Whole(t)
    BY <2>4, <2>8 DEF Whole
  <2>15. Live(t) /\ t.started /\ k \in DOMAIN t.calls /\ (Whole(s) => Whole(t))
    BY <2>3, <2>4, <2>13, <2>14
  <2> QED  BY <2>15 DEF t
<1> QED  BY <1>1, <1>2

\* The shell of a call is sent once: its index was not added before.
LEMMA NameKeeps ==
  ASSUME NEW s, Live(s), s.started, NEW k \in DOMAIN s.calls, NEW withName \in BOOLEAN
  PROVE  LET t == Name(s, k, withName)
         IN  Live(t) /\ t.started /\ k \in DOMAIN t.calls /\ (Whole(s) => Whole(t))
<1> DEFINE t == Name(s, k, withName)
           i == s.calls[k].index
           h == HearAdded(s.heard, i)
           d == [s.calls EXCEPT ![k] = [s.calls[k] EXCEPT !.opened = TRUE]]
<1>0. /\ s \in State /\ s.calls \in Dicts /\ k \in Nat /\ s.calls[k] \in Slot
      /\ Calm(s.heard) /\ Under(s.heard) /\ i \in Nat
  <2>1. s \in State /\ s.calls \in Dicts /\ Calm(s.heard) /\ Under(s.heard)
    BY DEF Live, Coherent, Begun, State, Under
  <2> QED  BY <2>1, DictShape DEF Slot
<1>1. CASE ~(withName /\ ~s.calls[k].opened)  BY <1>1 DEF Name
<1>2. CASE withName /\ ~s.calls[k].opened
  <2>1. i \notin s.heard.added
    BY <1>2 DEF Live, Coherent, Announced
  <2>2. /\ Calm(h) /\ Under(h) /\ h.added = s.heard.added \cup {i}
        /\ h.done = s.heard.done /\ h.thinking = s.heard.thinking
    BY <1>0, <2>1, AddedInOrder
  <2>3. /\ DOMAIN d = DOMAIN s.calls
        /\ \A l \in DOMAIN s.calls :
             /\ d[l] \in Slot
             /\ d[l].index = s.calls[l].index /\ d[l].closed = s.calls[l].closed
             /\ d[l].opened <=> s.calls[l].opened \/ l = k
    BY <1>0, DictShape DEF Slot
  <2>4. d \in Dicts
    <3>1. d = [l \in DOMAIN s.calls |-> d[l]]  BY <1>0, DictShape
    <3>2. DOMAIN s.calls \in SUBSET Nat  BY <1>0, DictShape
    <3> HIDE DEF d
    <3> QED  BY <2>3, <3>1, <3>2, MakeDict
  <2>5. t = [s EXCEPT !.calls = d, !.heard = h]
    BY <1>0, <1>2 DEF Name, State
  <2> HIDE DEF d, h, t
  <2>6. /\ t \in State /\ t.calls = d /\ t.heard = h
        /\ t.started = s.started /\ t.completed = s.completed /\ t.phase = s.phase
        /\ t.msgOpened = s.msgOpened /\ t.msgClosed = s.msgClosed
        /\ t.msgIndex = s.msgIndex /\ t.nextIndex = s.nextIndex
    BY <1>0, <2>2, <2>4, <2>5 DEF State, Calm
  <2>7. Message(t) = Message(s) /\ Indexes(t) = Indexes(s)
    BY <2>3, <2>6 DEF Message, Indexes
  <2>8. i \in Indexes(s) /\ i < s.nextIndex
    BY DEF Live, Coherent, Indexed, Indexes
  <2>9. Begun(t) /\ Thinks(t)
    BY <2>2, <2>3, <2>6 DEF Live, Coherent, Begun, Thinks, Under
  <2>10. Indexed(t)
    BY <2>2, <2>3, <2>6, <2>7, <2>8 DEF Live, Coherent, Indexed
  <2>11. Announced(t)
    <3>1. \A l \in DOMAIN s.calls : s.calls[l].index = i => l = k
      BY DEF Live, Coherent, Indexed
    <3> QED
      BY <2>2, <2>3, <2>6, <2>7, <2>8, <3>1 DEF Live, Coherent, Announced
  <2>12. /\ Live(t) /\ t.started /\ k \in DOMAIN t.calls /\ (Whole(s) => Whole(t))
    BY <2>2, <2>3, <2>6, <2>7, <2>8, <2>9, <2>10, <2>11 DEF Live, Coherent, Whole
  <2> QED  BY <2>12 DEF t
<1> QED  BY <1>1, <1>2

\* Arguments are sent for calls whose shell was sent.
LEMMA ArgumentsKeep ==
  ASSUME NEW s, Live(s), s.started, NEW k \in DOMAIN s.calls, NEW withArguments
  PROVE  Arguments(s, k, withArguments) = s
<1>1. CASE ~(withArguments /\ s.calls[k].opened)  BY <1>1 DEF Arguments
<1>2. CASE withArguments /\ s.calls[k].opened
  <2>1. s \in State /\ Calm(s.heard) /\ Under(s.heard)
    BY DEF Live, Coherent, Begun, Under
  <2>2. IsOpen(s.heard, s.calls[k].index)
    BY <1>2, <2>1 DEF Live, Coherent, Announced, Indexes, IsOpen
  <2>3. HearDelta(s.heard, s.calls[k].index) = s.heard
    BY <2>1, <2>2, DeltaInOrder
  <2> QED  BY <2>1, <2>3 DEF Arguments, State
<1> QED  BY <1>1, <1>2

\* One element of delta.tool_calls, as a whole.
LEMMA ToolFragmentKeeps ==
  ASSUME NEW s, Live(s), s.started, NEW c \in Calls,
         NEW withId \in BOOLEAN, NEW withName \in BOOLEAN, NEW withArguments
  PROVE  LET t == ToolFragment(s, c, withId, withName, withArguments)
         IN  Live(t) /\ (Whole(s) => Whole(t))
<1> DEFINE k == KeyOf(s, c, withId)
           a == Allocate(s, c, withId)
           e == Enlist(a, k, c)
           n == Name(e, k, withName)
<1>1. k \in Nat  BY KeyIsNat DEF Live, Coherent
<1>2. Live(a) /\ a.started /\ (Whole(s) => Whole(a))  BY AllocateKeeps
<1> HIDE DEF a, k
<1>3. Live(e) /\ e.started /\ k \in DOMAIN e.calls /\ (Whole(a) => Whole(e))
  BY <1>1, <1>2, EnlistKeeps
<1> HIDE DEF e
<1>4. Live(n) /\ n.started /\ k \in DOMAIN n.calls /\ (Whole(e) => Whole(n))
  BY <1>3, NameKeeps
<1> HIDE DEF n
<1>5. Arguments(n, k, withArguments) = n
  BY <1>4, ArgumentsKeep
<1> QED  BY <1>2, <1>3, <1>4, <1>5 DEF ToolFragment, n, e, a, k

\* _close_text_item: the message is done.
LEMMA CloseTextKeeps ==
  ASSUME NEW s, Live(s), s.started, s.phase # "thinking"
  PROVE  LET t == CloseText(s)
         IN  TextShut(t) /\ t.calls = s.calls /\ (Whole(s) => Whole(t))
<1> DEFINE t == CloseText(s)
           h == HearDone(s.heard, s.msgIndex)
<1>0. /\ s \in State /\ Calm(s.heard) /\ Under(s.heard) /\ s.msgIndex \in Nat
      /\ ~s.msgClosed
  BY DEF Live, Coherent, Begun, State, Under
<1>1. CASE ~s.msgOpened
  <2>1. t = s  BY <1>1 DEF CloseText
  <2> QED  BY <1>1, <2>1 DEF Live, TextShut, Message
<1>2. CASE s.msgOpened
  <2>1. IsOpen(s.heard, s.msgIndex)
    BY <1>0, <1>2 DEF Live, Coherent, Announced, Message, IsOpen
  <2>2. /\ Calm(h) /\ Under(h) /\ h.done = s.heard.done \cup {s.msgIndex}
        /\ h.added = s.heard.added /\ h.thinking = s.heard.thinking
    BY <1>0, <2>1, DoneInOrder
  <2>3. t = [s EXCEPT !.msgClosed = TRUE, !.heard = h]
    BY <1>0, <1>2 DEF CloseText, State
  <2> HIDE DEF h, t
  <2>4. /\ t \in State /\ t.heard = h /\ t.calls = s.calls
        /\ t.started = s.started /\ t.completed = s.completed /\ t.phase = s.phase
        /\ t.msgOpened = s.msgOpened
        /\ t.msgIndex = s.msgIndex /\ t.nextIndex = s.nextIndex
    BY <1>0, <2>2, <2>3 DEF State, Calm
  <2>5. Message(s) = {s.msgIndex} /\ Message(t) = Message(s) /\ Indexes(t) = Indexes(s)
    BY <1>2, <2>4 DEF Message, Indexes
  <2>6. Begun(t) /\ Thinks(t)
    BY <2>2, <2>4 DEF Live, Coherent, Begun, Thinks, Under
  <2>7. Indexed(t) /\ Announced(t)
    BY <2>2, <2>4, <2>5 DEF Live, Coherent, Indexed, Announced
  <2>8. Indexes(t) \cap t.heard.done = {}
    BY <2>2, <2>4, <2>5 DEF Live, Coherent, Indexed
  <2>9. TextShut(t) /\ t.calls = s.calls /\ (Whole(s) => Whole(t))
    BY <2>2, <2>4, <2>5, <2>6, <2>7, <2>8 DEF Live, Coherent, TextShut, Whole
  <2> QED  BY <2>9 DEF t
<1> QED  BY <1>1, <1>2

\* _close_tool_calls: the calls are done too, and so is every item.
LEMMA CloseToolsKeeps ==
  ASSUME NEW s, TextShut(s)
  PROVE  LET t == CloseTools(s)
         IN  /\ Shut(t) /\ ~t.completed /\ t.heard.final = "none"
             /\ DOMAIN t.calls = DOMAIN s.calls /\ (Whole(s) => Whole(t))
<1> DEFINE t == CloseTools(s)
           new == {s.calls[k].index : k \in {l \in DOMAIN s.calls : ~s.calls[l].opened}}
           h == HearAllDone(s.heard, new, Indexes(s))
           d == [k \in DOMAIN s.calls |-> [s.calls[k] EXCEPT !.opened = TRUE, !.closed = TRUE]]
<1>1. /\ s \in State /\ s.calls \in Dicts /\ Calm(s.heard) /\ Under(s.heard)
  BY DEF TextShut, Coherent, Begun, State, Under
<1>2. /\ DOMAIN s.calls \in SUBSET Nat
      /\ \A k \in DOMAIN s.calls : s.calls[k] \in Slot /\ s.calls[k].index \in Nat
  BY <1>1, DictShape DEF Slot
<1>3. /\ DOMAIN d = DOMAIN s.calls
      /\ \A k \in DOMAIN s.calls : d[k] \in Slot /\ d[k].index = s.calls[k].index
  BY <1>2 DEF Slot
<1>4. d \in Dicts
  <2>1. d = [k \in DOMAIN s.calls |-> d[k]]  OBVIOUS
  <2> HIDE DEF d
  <2> QED  BY <1>2, <1>3, <2>1, MakeDict
<1>5. /\ new \in SUBSET Nat /\ Indexes(s) \in SUBSET Nat /\ new \subseteq Indexes(s)
      /\ new \cap s.heard.added = {}
      /\ Indexes(s) \subseteq (s.heard.added \cup new) \ s.heard.done
  BY <1>2 DEF TextShut, Coherent, Announced, Indexes
<1>6. /\ Calm(h) /\ h.created = s.heard.created /\ h.final = s.heard.final
      /\ h.added = s.heard.added \cup new /\ h.done = s.heard.done \cup Indexes(s)
      /\ h.thinking = s.heard.thinking
  <2> DEFINE items == Indexes(s)
  <2>1. items \in SUBSET Nat /\ items \subseteq (s.heard.added \cup new) \ s.heard.done
    BY <1>5
  <2> HIDE DEF new, items
  <2>2. h = [s.heard EXCEPT !.added = s.heard.added \cup new,
                            !.done = s.heard.done \cup items]
    BY <1>1, <1>5, <2>1 DEF HearAllDone, Note, Calm, Heard, items
  <2>3. s.heard.added \cup new \in SUBSET Nat /\ s.heard.done \cup items \in SUBSET Nat
    BY <1>1, <1>5, <2>1 DEF Calm, Heard
  <2> HIDE DEF h
  <2> QED  BY <1>1, <2>2, <2>3 DEF Calm, Heard, items
<1>7. t = [s EXCEPT !.calls = d, !.heard = h]
  <2>1. {k \in DOMAIN s.calls : ~s.calls[k].closed} = DOMAIN s.calls
    BY DEF TextShut
  <2> QED  BY <1>1, <2>1 DEF CloseTools, State, Indexes
<1> HIDE DEF d, h, t, new
<1>8. /\ t \in State /\ t.calls = d /\ t.heard = h
      /\ t.started = s.started /\ t.completed = s.completed
      /\ t.msgOpened = s.msgOpened
      /\ t.msgIndex = s.msgIndex /\ t.nextIndex = s.nextIndex
  BY <1>1, <1>4, <1>6, <1>7 DEF State, Calm
<1>9. Message(t) = Message(s) /\ Indexes(t) = Indexes(s)
  BY <1>3, <1>8 DEF Message, Indexes
<1>10. t.heard.added = t.heard.done
  BY <1>5, <1>6, <1>8 DEF TextShut, Coherent, Announced
<1>11. \A i \in t.heard.added : i < t.nextIndex
  <2>1. \A i \in Indexes(s) : i < s.nextIndex
    BY DEF TextShut, Coherent, Indexed, Indexes
  <2> QED  BY <1>5, <1>6, <1>8, <2>1 DEF TextShut, Coherent, Indexed
<1>12. t.heard.created /\ t.heard.final = "none" /\ t.heard.thinking = {}
  BY <1>6, <1>8 DEF TextShut, Coherent, Begun, Thinks
<1>13. Message(t) \cup Indexes(t) \subseteq t.heard.added
  BY <1>6, <1>8, <1>9, <1>10 DEF TextShut
<1>14. Shut(t)
  BY <1>6, <1>8, <1>10, <1>11, <1>12, <1>13 DEF Shut, TextShut
<1>15. Whole(s) => Whole(t)
  BY <1>5, <1>6, <1>8, <1>9 DEF Whole
<1>16. ~t.completed /\ DOMAIN t.calls = DOMAIN s.calls
  BY <1>3, <1>8 DEF TextShut
<1> QED  BY <1>12, <1>14, <1>15, <1>16 DEF t

\* What finish_reason and _force_close_events do before the last word.
LEMMA CloseItemsKeeps ==
  ASSUME NEW s, Live(s)
  PROVE  LET t == CloseItems(s)
         IN  Shut(t) /\ ~t.completed /\ t.heard.final = "none" /\ (Whole(s) => Whole(t))
<1> DEFINE b == Begin(s)
           c == CloseThink(b)
           x == CloseText(c)
           t == CloseTools(x)
<1>1. Live(b) /\ b.started /\ (Whole(s) => Whole(b))  BY BeginKeeps
<1> HIDE DEF b
<1>2. Live(c) /\ c.started /\ c.phase # "thinking" /\ (Whole(b) => Whole(c))
  BY <1>1, CloseThinkKeeps
<1> HIDE DEF c
<1>3. TextShut(x) /\ (Whole(c) => Whole(x))  BY <1>2, CloseTextKeeps
<1> HIDE DEF x
<1>4. Shut(t) /\ ~t.completed /\ t.heard.final = "none" /\ (Whole(x) => Whole(t))
  BY <1>3, CloseToolsKeeps
<1> QED  BY <1>1, <1>2, <1>3, <1>4 DEF CloseItems, x, c, b

\* output[] lists the items in the state.
LEMMA FinalOutputIs ==
  ASSUME NEW s \in State
  PROVE  /\ FinalOutput(s) = Message(s) \cup Indexes(s)
         /\ FinalOutput(s) \in SUBSET Nat
<1>1. FinalOutput(s) = Message(s) \cup Indexes(s)
  BY DEF FinalOutput, Message, Indexes
<1>2. s.calls \in Dicts /\ s.msgIndex \in Nat  BY DEF State
<1>3. Indexes(s) \subseteq Nat  BY <1>2, DictShape DEF Indexes, Slot
<1> QED  BY <1>1, <1>2, <1>3 DEF Message

\* The response.completed the rescue handler sends itself ends a calm answer.
LEMMA TellFinalKeeps ==
  ASSUME NEW s \in State, NEW status \in {"completed", "incomplete"}
  PROVE  LET t == TellFinal(s, status)
         IN  /\ t \in State /\ t.heard.final = status
             /\ t.heard.listed = Message(s) \cup Indexes(s)
             /\ t.heard.added = s.heard.added /\ t.heard.done = s.heard.done
             /\ t.heard.thinking = s.heard.thinking
             /\ Calm(s.heard) /\ Under(s.heard) => Calm(t.heard)
<1> DEFINE o == FinalOutput(s)
           h == HearFinal(s.heard, status, o)
           t == TellFinal(s, status)
<1>1. o = Message(s) \cup Indexes(s) /\ o \in SUBSET Nat  BY FinalOutputIs
<1>2. s.heard \in Heard  BY DEF State
<1>3. t = [s EXCEPT !.heard = h]  BY DEF TellFinal, State
<1> HIDE DEF o
<1>4. /\ h \in Heard /\ h.final = status /\ h.listed = o
      /\ h.added = s.heard.added /\ h.done = s.heard.done
      /\ h.thinking = s.heard.thinking
      /\ Calm(s.heard) /\ Under(s.heard) => Calm(h)
  BY <1>1, <1>2, FinalInOrder
<1> HIDE DEF h, t
<1>5. t \in State /\ t.heard = h  BY <1>3, <1>4 DEF State
<1> QED  BY <1>1, <1>4, <1>5 DEF t

\* The adapter's response.completed, after everything is done.
LEMMA CompleteKeeps ==
  ASSUME NEW s, Shut(s), s.heard.final = "none",
         NEW status \in {"completed", "incomplete"}
  PROVE  LET t == Complete(s, status)
         IN  /\ t \in State /\ Shut(t) /\ t.completed
             /\ t.heard.final = status
             /\ Whole(s) => t.heard.listed = t.heard.added
<1> DEFINE u == TellFinal(s, status)
           h == u.heard
           t == Complete(s, status)
<1>1. s \in State /\ Calm(s.heard) /\ Under(s.heard)  BY DEF Shut, Under
<1>2. /\ u \in State /\ h.final = status
      /\ h.listed = Message(s) \cup Indexes(s)
      /\ h.added = s.heard.added /\ h.done = s.heard.done
      /\ h.thinking = s.heard.thinking /\ Calm(h)
  BY <1>1, TellFinalKeeps
<1>3. h = HearFinal(s.heard, status, FinalOutput(s))
  BY <1>1 DEF TellFinal, State
<1>4. h.created = s.heard.created
  BY <1>1, <1>3 DEF HearFinal, Note, Calm, Heard
<1>5. t = [s EXCEPT !.completed = TRUE, !.heard = h]
  BY <1>1, <1>3 DEF Complete, State
<1> HIDE DEF h, t, u
<1>6. /\ t \in State /\ t.completed /\ t.heard = h
      /\ t.started = s.started /\ t.calls = s.calls
      /\ t.msgOpened = s.msgOpened
      /\ t.msgIndex = s.msgIndex /\ t.nextIndex = s.nextIndex
  BY <1>1, <1>2, <1>5 DEF State, Calm
<1>7. Message(t) = Message(s) /\ Indexes(t) = Indexes(s)
  BY <1>6 DEF Message, Indexes
<1>8. Shut(t)
  BY <1>2, <1>4, <1>6, <1>7 DEF Shut
<1>9. Whole(s) => t.heard.listed = t.heard.added
  BY <1>2, <1>6 DEF Shut, Whole
<1> QED  BY <1>2, <1>6, <1>8, <1>9 DEF t

\* The reset before the rescue leaves an answer that can go on.
LEMMA ResetKeeps ==
  ASSUME NEW s, Shut(s), s.heard.final = "none", DOMAIN s.calls = {}
  PROVE  Live(ResetForRescue(s)) /\ Ready(ResetForRescue(s))
<1> DEFINE t == ResetForRescue(s)
<1>1. s \in State /\ Calm(s.heard)  BY DEF Shut
<1>2. /\ t \in State /\ t.started = s.started /\ t.phase = "none"
      /\ ~t.msgOpened /\ ~t.msgClosed /\ ~t.completed
      /\ t.nextIndex = s.nextIndex /\ t.calls = s.calls /\ t.heard = s.heard
  BY <1>1 DEF ResetForRescue, State
<1> HIDE DEF t
<1>3. Message(t) = {} /\ Indexes(t) = {}
  BY <1>2 DEF Message, Indexes
<1>4. Live(t)
  BY <1>1, <1>2, <1>3
     DEF Shut, Live, Coherent, Begun, Indexed, Announced, Thinks
<1>5. Ready(t)  BY <1>2 DEF Ready, Shut
<1> QED  BY <1>4, <1>5 DEF t

-----------------------------------------------------------------------------
(* The invariant                                                           *)

Shapes ==
  /\ nudge \in BOOLEAN
  /\ stage \in {"reading", "starting", "rescuing", "ended", "raised"}
  /\ upstream \in {"open", "finished"}
  /\ finish \in {"none", "stop", "other"}
  /\ spoke \in BOOLEAN /\ clean \in BOOLEAN
  /\ idless \in SUBSET Calls
  /\ st \in State

\* Only an upstream that finished can be taken for a stuck one.
Control ==
  /\ stage # "ended" => clean
  /\ ~nudge => stage \in {"reading", "ended"}
  /\ stage = "starting" \/ (Streaming /\ upstream = "open") => finish = "none"

Progress ==
  /\ Streaming /\ upstream = "open" => Live(st)
  /\ stage \in {"starting", "raised"} => Live(st)
  /\ stage = "starting" => Ready(st)
  /\ Streaming /\ upstream = "finished" =>
       /\ Shut(st)
       /\ st.completed <=> ~Suppressing
       /\ st.heard.final = IF Suppressing THEN "none" ELSE "completed"
  /\ ~nudge /\ Streaming =>
       /\ upstream = "open" => Whole(st)
       /\ upstream = "finished" => st.heard.listed = st.heard.added

Over ==
  stage = "ended" =>
    /\ st.heard.final # "none"
    /\ ~nudge \/ clean =>
         ~st.heard.disorder /\ st.heard.added = st.heard.done /\ st.heard.thinking = {}
    /\ ~nudge =>
         /\ st.heard.listed = st.heard.added
         /\ st.heard.final = "completed" <=> upstream = "finished"

StreamInv == Shapes /\ Control /\ Progress /\ Over

\* A fresh state.
LEMMA InitStream == Init => StreamInv
<1> SUFFICES ASSUME Init PROVE StreamInv  OBVIOUS
<1> USE DEF Init
<1> DEFINE d == [k \in {} |-> 0]
<1>1. d \in Dicts /\ DOMAIN d = {}
  <2>1. DOMAIN d = {} /\ d = [k \in {} |-> d[k]]  OBVIOUS
  <2> HIDE DEF d
  <2> QED  BY <2>1, MakeDict
<1>2. [c \in Calls |-> NoKey] \in [Calls -> Nat \cup {NoKey}]  OBVIOUS
<1>3. Silence \in Heard /\ Calm(Silence)  BY DEF Silence, Heard, Calm
<1>4. st \in State
  BY <1>1, <1>2, <1>3, StreamAssumption DEF NewState, State
<1>5. /\ st.calls = d /\ st.heard = Silence /\ st.started = FALSE /\ ~st.completed
      /\ ~st.msgOpened /\ ~st.msgClosed /\ st.phase = "none"
  BY DEF NewState
<1> HIDE DEF d
<1>6. Message(st) = {} /\ Indexes(st) = {}
  BY <1>1, <1>5 DEF Message, Indexes
<1>7. Live(st) /\ Whole(st)
  <2>1. /\ st.heard.created = FALSE /\ st.heard.final = "none"
        /\ st.heard.added = {} /\ st.heard.done = {} /\ st.heard.thinking = {}
    BY <1>5 DEF Silence
  <2>2. Begun(st) /\ Thinks(st)
    BY <1>1, <1>3, <1>5, <2>1 DEF Begun, Thinks
  <2>3. Indexed(st) /\ Announced(st)
    BY <1>1, <1>5, <1>6, <2>1 DEF Indexed, Announced
  <2>4. \A k \in DOMAIN st.calls : ~st.calls[k].closed
    BY <1>1, <1>5
  <2> QED
    BY <1>4, <1>5, <1>6, <2>1, <2>2, <2>3, <2>4 DEF Live, Coherent, Whole
<1>8. Shapes  BY <1>4, StreamAssumption DEF Shapes
<1> QED  BY <1>7, <1>8 DEF StreamInv, Control, Progress, Over, Streaming

\* A chunk that does not finish the stream.
LEMMA ChunkStep ==
  ASSUME StreamInv, Chunk, Live(st'), Whole(st) => Whole(st'),
         UNCHANGED <<upstream, finish>>, spoke' \in BOOLEAN, idless' \in SUBSET Calls
  PROVE  StreamInv'
<1>1. Shapes'  BY DEF StreamInv, Shapes, Chunk, Live, Coherent
<1> QED
  BY <1>1 DEF StreamInv, Shapes, Control, Progress, Over, Chunk, Streaming

\* The chunk with the finish_reason.
LEMMA FinishStep ==
  ASSUME StreamInv, NEW reason \in {"stop", "other"}, FinishChunk(reason)
  PROVE  StreamInv'
<1> DEFINE s == CloseItems(st)
           t == Complete(s, "completed")
<1>1. Live(st) /\ (~nudge => Whole(st)) /\ Shapes /\ Control
  BY DEF StreamInv, Progress, FinishChunk, Chunk
<1>2. Shut(s) /\ ~s.completed /\ s.heard.final = "none" /\ (Whole(st) => Whole(s))
  BY <1>1, CloseItemsKeeps
<1>3. /\ t \in State /\ Shut(t) /\ t.completed /\ t.heard.final = "completed"
      /\ Whole(s) => t.heard.listed = t.heard.added
  <2> HIDE DEF s
  <2> QED  BY <1>2, CompleteKeeps
<1>4. st' = IF Suppressing THEN s ELSE t  BY DEF FinishChunk
<1> HIDE DEF s, t
<1>5. Shapes'
  BY <1>1, <1>2, <1>3, <1>4 DEF Shapes, FinishChunk, Chunk, Shut
<1>6. Control'
  BY <1>1 DEF Control, FinishChunk, Chunk, Streaming
<1>7. Suppressing' <=> Suppressing
  BY DEF Suppressing, FinishChunk, Chunk
<1>8. Progress'
  BY <1>1, <1>2, <1>3, <1>4, <1>7
     DEF Progress, FinishChunk, Chunk, Streaming, Suppressing, Shapes, Control
<1>9. Over'
  BY DEF Over, FinishChunk, Chunk, Streaming
<1> QED  BY <1>5, <1>6, <1>8, <1>9 DEF StreamInv

\* How an answer may end.
LEMMA ForceCloseEnds ==
  ASSUME StreamInv, Streaming, ~nudge
  PROVE  LET t == ForceClose(st)
         IN  /\ t \in State /\ ~t.heard.disorder
             /\ t.heard.added = t.heard.done /\ t.heard.thinking = {}
             /\ t.heard.listed = t.heard.added /\ t.heard.final # "none"
             /\ t.heard.final = "completed" <=> upstream = "finished"
<1>1. CASE upstream = "finished"
  <2>1. /\ Shut(st) /\ st.completed /\ st.heard.final = "completed"
        /\ st.heard.listed = st.heard.added
    BY <1>1 DEF StreamInv, Progress, Suppressing
  <2> QED  BY <1>1, <2>1 DEF ForceClose, Shut, Calm
<1>2. CASE upstream = "open"
  <2> DEFINE s == CloseItems(st)
             t == Complete(s, "incomplete")
  <2>1. Live(st) /\ Whole(st)  BY <1>2 DEF StreamInv, Progress
  <2>2. Shut(s) /\ s.heard.final = "none" /\ Whole(s)
    BY <2>1, CloseItemsKeeps
  <2>3. /\ Shut(t) /\ t.heard.final = "incomplete"
        /\ t.heard.listed = t.heard.added
    <3> HIDE DEF s
    <3> QED  BY <2>2, CompleteKeeps
  <2>4. ForceClose(st) = t  BY <2>1 DEF ForceClose, Live
  <2> HIDE DEF t
  <2> QED  BY <1>2, <2>3, <2>4 DEF Shut, Calm
<1> QED  BY <1>1, <1>2 DEF StreamInv, Shapes

LEMMA FinaliseEnds ==
  ASSUME StreamInv, stage \in {"reading", "rescuing", "starting"}, nudge
  PROVE  LET t == Finalise(st)
         IN  /\ t \in State /\ t.heard.final # "none"
             /\ (Streaming /\ upstream = "finished") =>
                  /\ ~t.heard.disorder
                  /\ t.heard.added = t.heard.done /\ t.heard.thinking = {}
<1> DEFINE t == TellFinal(st, "completed")
<1>1. st \in State  BY DEF StreamInv, Shapes
<1>2. /\ t \in State /\ t.heard.final = "completed"
      /\ t.heard.added = st.heard.added /\ t.heard.done = st.heard.done
      /\ t.heard.thinking = st.heard.thinking
      /\ Calm(st.heard) /\ Under(st.heard) => Calm(t.heard)
  BY <1>1, TellFinalKeeps
<1> HIDE DEF t
<1>3. CASE st.completed
  <2>1. Streaming /\ upstream = "finished" /\ ~Suppressing
    BY <1>3 DEF StreamInv, Progress, Shapes, Streaming, Live
  <2> QED
    BY <1>1, <1>3, <2>1 DEF StreamInv, Progress, Finalise, Shut, Calm
<1>4. CASE ~st.completed
  <2>1. Finalise(st) = t  BY <1>4 DEF Finalise, t
  <2>2. Streaming /\ upstream = "finished" =>
          Shut(st) /\ Calm(st.heard) /\ Under(st.heard)
    BY <1>4 DEF StreamInv, Progress, Shut, Under
  <2> QED  BY <1>2, <2>1, <2>2 DEF Shut, Calm
<1> QED  BY <1>3, <1>4

\* The upstream closes the stream.
LEMMA EndStep ==
  ASSUME StreamInv, UpstreamEnds
  PROVE  StreamInv'
<1>1. /\ Shapes /\ Control /\ Streaming
      /\ clean' = (clean /\ upstream = "finished")
      /\ UNCHANGED <<nudge, upstream, spoke, idless>>
  BY DEF StreamInv, UpstreamEnds
<1>2. CASE ~nudge /\ st' = ForceClose(st) /\ stage' = "ended" /\ UNCHANGED finish
  <2>1. /\ st' \in State /\ ~st'.heard.disorder
        /\ st'.heard.added = st'.heard.done /\ st'.heard.thinking = {}
        /\ st'.heard.listed = st'.heard.added /\ st'.heard.final # "none"
        /\ st'.heard.final = "completed" <=> upstream = "finished"
    BY <1>1, <1>2, ForceCloseEnds
  <2> QED
    BY <1>1, <1>2, <2>1 DEF StreamInv, Shapes, Control, Progress, Over, Streaming
<1>3. CASE nudge /\ st' = Finalise(st) /\ stage' = "ended" /\ UNCHANGED finish
  <2>1. /\ st' \in State /\ st'.heard.final # "none"
        /\ upstream = "finished" =>
             /\ ~st'.heard.disorder
             /\ st'.heard.added = st'.heard.done /\ st'.heard.thinking = {}
    BY <1>1, <1>3, FinaliseEnds DEF Streaming
  <2> QED
    BY <1>1, <1>3, <2>1 DEF StreamInv, Shapes, Control, Progress, Over, Streaming
<1>4. CASE /\ Suppressing /\ LooksStuck
           /\ st' = ResetForRescue(st)
           /\ finish' = "none" /\ stage' = "starting"
  <2>1. upstream = "finished"
    BY <1>1, <1>4 DEF Control, Shapes, LooksStuck
  <2>2. Shut(st) /\ st.heard.final = "none" /\ DOMAIN st.calls = {}
    BY <1>1, <1>4, <2>1 DEF StreamInv, Progress, LooksStuck
  <2>3. Live(st') /\ Ready(st')  BY <1>4, <2>2, ResetKeeps
  <2> QED
    BY <1>1, <1>4, <2>1, <2>3
       DEF StreamInv, Shapes, Control, Progress, Over, Streaming, Suppressing, Live, Coherent
<1> QED  BY <1>2, <1>3, <1>4 DEF UpstreamEnds

\* The upstream breaks.
LEMMA BreakStep ==
  ASSUME StreamInv, UpstreamBreaks
  PROVE  StreamInv'
<1>1. /\ Shapes /\ Control /\ Streaming /\ clean' = FALSE /\ stage' = "ended"
      /\ UNCHANGED <<nudge, upstream, finish, spoke, idless>>
  BY DEF StreamInv, UpstreamBreaks
<1>2. CASE ~nudge
  <2>1. /\ st' \in State /\ ~st'.heard.disorder
        /\ st'.heard.added = st'.heard.done /\ st'.heard.thinking = {}
        /\ st'.heard.listed = st'.heard.added /\ st'.heard.final # "none"
        /\ st'.heard.final = "completed" <=> upstream = "finished"
    BY <1>1, <1>2, ForceCloseEnds DEF UpstreamBreaks
  <2> QED
    BY <1>1, <1>2, <2>1 DEF StreamInv, Shapes, Control, Progress, Over, Streaming
<1>3. CASE nudge
  <2>1. st' \in State /\ st'.heard.final # "none"
    BY <1>1, <1>3, FinaliseEnds, TellFinalKeeps DEF UpstreamBreaks, Streaming, Shapes
  <2> QED
    BY <1>1, <1>3, <2>1 DEF StreamInv, Shapes, Control, Progress, Over, Streaming
<1> QED  BY <1>2, <1>3

\* The rescue starts, is refused, or raises.
LEMMA RescueStep ==
  ASSUME StreamInv, RescueStarts \/ RescueRefused \/ RescueRaises
  PROVE  StreamInv'
<1>1. Shapes /\ Control /\ stage = "starting" /\ Live(st) /\ Ready(st) /\ nudge /\ finish = "none"
  BY DEF StreamInv, Progress, Control, Shapes, RescueStarts, RescueRefused, RescueRaises
<1>2. CASE RescueStarts \/ RescueRaises
  BY <1>1, <1>2
     DEF StreamInv, Shapes, Control, Progress, Over, Streaming, Suppressing,
         RescueStarts, RescueRaises
<1>3. CASE RescueRefused
  <2>1. st' = TellFinal(st, "completed")
    BY <1>1, <1>3 DEF RescueRefused, Finalise, Live
  <2>2. Calm(st.heard) /\ Under(st.heard) /\ st.heard.thinking = {}
    BY <1>1 DEF Live, Coherent, Begun, Thinks, Ready, Under
  <2>3. st.heard.added = st.heard.done
    BY <1>1 DEF Live, Coherent, Announced, Ready, Message, Indexes
  <2>4. /\ st' \in State /\ st'.heard.final = "completed" /\ Calm(st'.heard)
        /\ st'.heard.added = st'.heard.done /\ st'.heard.thinking = {}
    BY <1>1, <2>1, <2>2, <2>3, TellFinalKeeps DEF Shapes
  <2> QED
    BY <1>1, <1>3, <2>4
       DEF Shapes, Control, Progress, Over, StreamInv, Streaming, RescueRefused, Calm
<1> QED  BY <1>2, <1>3

\* In every stage of an answer the adapter's state and what the client heard
\* agree as the stage requires.
THEOREM StreamInvariant == Spec => []StreamInv
<1>1. Init => StreamInv  BY InitStream
<1>2. StreamInv /\ [Next]_vars => StreamInv'
  <2> SUFFICES ASSUME StreamInv, [Next]_vars PROVE StreamInv'  OBVIOUS
  <2>0. ASSUME Chunk
        PROVE  /\ Live(Begin(st)) /\ Begin(st).started
               /\ Whole(st) => Whole(Begin(st))
               /\ spoke \in BOOLEAN /\ idless \in SUBSET Calls
    BY <2>0, BeginKeeps DEF StreamInv, Shapes, Progress, Chunk
  <2>1. CASE EmptyChunk
    BY <2>0, <2>1, ChunkStep DEF EmptyChunk
  <2>2. CASE ReasoningChunk
    <3>1. Chunk  BY <2>2 DEF ReasoningChunk
    <3>2. Live(st') /\ (Whole(Begin(st)) => Whole(st'))
      BY <2>0, <2>2, <3>1, ReasonKeeps DEF ReasoningChunk
    <3> QED  BY <2>0, <2>2, <3>1, <3>2, ChunkStep DEF ReasoningChunk
  <2>3. CASE ContentChunk
    <3>1. Chunk  BY <2>3 DEF ContentChunk
    <3>2. Live(st') /\ (Whole(Begin(st)) => Whole(st'))
      BY <2>0, <2>3, <3>1, ContentKeeps DEF ContentChunk
    <3> QED  BY <2>0, <2>3, <3>1, <3>2, ChunkStep DEF ContentChunk
  <2>4. ASSUME NEW c \in Calls, NEW withId \in BOOLEAN, NEW withName \in BOOLEAN,
               NEW withArguments \in BOOLEAN, ToolChunk(c, withId, withName, withArguments)
        PROVE  StreamInv'
    <3>1. Chunk  BY <2>4 DEF ToolChunk
    <3>2. Live(st') /\ (Whole(Begin(st)) => Whole(st'))
      BY <2>0, <2>4, <3>1, ToolFragmentKeeps DEF ToolChunk
    <3>3. idless' \in SUBSET Calls
      BY <2>0, <2>4, <3>1 DEF ToolChunk
    <3> QED  BY <2>0, <2>4, <3>1, <3>2, <3>3, ChunkStep DEF ToolChunk
  <2>5. ASSUME NEW reason \in {"stop", "other"}, FinishChunk(reason)
        PROVE  StreamInv'
    BY <2>5, FinishStep
  <2>6. CASE UpstreamEnds  BY <2>6, EndStep
  <2>7. CASE UpstreamBreaks  BY <2>7, BreakStep
  <2>8. CASE RescueStarts \/ RescueRefused \/ RescueRaises  BY <2>8, RescueStep
  <2>9. CASE UNCHANGED vars
    BY <2>9 DEF vars, StreamInv, Shapes, Control, Progress, Over, Streaming, Suppressing
  <2> QED
    BY <2>1, <2>2, <2>3, <2>4, <2>5, <2>6, <2>7, <2>8, <2>9 DEF Next
<1> QED  BY <1>1, <1>2, PTL DEF Spec

-----------------------------------------------------------------------------
(* What follows for the client                                             *)

\* The types of the adapter's state, for any calls and any number of items.
THEOREM StreamTypeOK == Spec => []TypeOK
<1>1. StreamInv => TypeOK
  <2> SUFFICES ASSUME Shapes PROVE TypeOK  BY DEF StreamInv
  <2>1. st \in State /\ st.calls \in Dicts  BY DEF Shapes, State
  <2>2. DOMAIN st.calls \subseteq Nat /\ \A k \in DOMAIN st.calls : st.calls[k] \in Slot
    BY <2>1, DictShape
  <2> QED  BY <2>1, <2>2 DEF Shapes, State, TypeOK
<1> QED  BY <1>1, StreamInvariant, PTL

\* The adapter's events come in an order the client can follow, for any order
\* of deltas, across a rescue, and in the plain handler across any break.
THEOREM StreamEventsInOrder == Spec => []EventsInOrder
<1>1. StreamInv => EventsInOrder
  <2> SUFFICES ASSUME StreamInv, ~nudge \/ clean PROVE ~st.heard.disorder
    BY DEF EventsInOrder
  <2>1. CASE stage = "ended"  BY <2>1 DEF StreamInv, Over
  <2>2. CASE stage # "ended"
    <3>1. Live(st) \/ Shut(st)
      BY <2>2 DEF StreamInv, Shapes, Progress, Streaming
    <3> QED  BY <3>1 DEF Live, Coherent, Begun, Shut, Calm
  <2> QED  BY <2>1, <2>2
<1> QED  BY <1>1, StreamInvariant, PTL

\* _close_text_item, _close_tool_calls and </think> leave nothing open at the end.
THEOREM StreamNothingLeftOpen == Spec => []NothingLeftOpen
<1>1. StreamInv => NothingLeftOpen  BY DEF StreamInv, Over, NothingLeftOpen
<1> QED  BY <1>1, StreamInvariant, PTL

\* Every answer that ends has its response.completed, whichever handler sends it.
THEOREM StreamAnswerEnds == Spec => []AnswerEnds
<1>1. StreamInv => AnswerEnds  BY DEF StreamInv, Over, AnswerEnds
<1> QED  BY <1>1, StreamInvariant, PTL

\* _final_output_array of a plain stream lists exactly the items streamed.
THEOREM StreamFullOutput == Spec => []FullOutput
<1>1. StreamInv => FullOutput  BY DEF StreamInv, Over, FullOutput
<1> QED  BY <1>1, StreamInvariant, PTL

\* A plain answer is "completed" exactly if the upstream finished it.
THEOREM StreamHonestStatus == Spec => []HonestStatus
<1>1. StreamInv => HonestStatus  BY DEF StreamInv, Over, HonestStatus
<1> QED  BY <1>1, StreamInvariant, PTL

-----------------------------------------------------------------------------
(* One item for each call: the keys of state["tool_calls"].  Only a        *)
(* fragment of a call touches them; SameKeys is said of everything else.   *)

SameKeys(s, t) ==
  /\ DOMAIN t.calls = DOMAIN s.calls
  /\ t.anonNext = s.anonNext /\ t.byId = s.byId
  /\ \A k \in DOMAIN s.calls : t.calls[k].call = s.calls[k].call

\* SameKeys composes.
LEMMA SameKeysChain ==
  ASSUME NEW r, NEW s, NEW t, SameKeys(r, s), SameKeys(s, t)
  PROVE  SameKeys(r, t)
BY DEF SameKeys

\* No piece but those of a tool fragment touches the keys.
LEMMA PiecesKeepKeys ==
  ASSUME NEW s \in State
  PROVE  /\ SameKeys(s, Begin(s)) /\ SameKeys(s, OpenText(s)) /\ SameKeys(s, Say(s))
         /\ SameKeys(s, CloseText(s)) /\ SameKeys(s, ResetForRescue(s))
         /\ \A status \in {"completed", "incomplete"} :
              SameKeys(s, Complete(s, status)) /\ SameKeys(s, TellFinal(s, status))
         /\ SameKeys(s, Finalise(s))
         /\ \A p, h : SameKeys(s, [s EXCEPT !.phase = p, !.heard = h])
         /\ \A p : SameKeys(s, [s EXCEPT !.phase = p])
<1>1. SameKeys(s, Begin(s)) /\ SameKeys(s, OpenText(s)) /\ SameKeys(s, Say(s))
  BY DEF SameKeys, Begin, OpenText, Say, State
<1>2. SameKeys(s, CloseText(s)) /\ SameKeys(s, ResetForRescue(s))
  BY DEF SameKeys, CloseText, ResetForRescue, State
<1>3. \A status \in {"completed", "incomplete"} :
        SameKeys(s, Complete(s, status)) /\ SameKeys(s, TellFinal(s, status))
  BY DEF SameKeys, Complete, TellFinal, State
<1>4. SameKeys(s, Finalise(s))
  BY DEF SameKeys, Finalise, TellFinal, State
<1>5. /\ \A p, h : SameKeys(s, [s EXCEPT !.phase = p, !.heard = h])
      /\ \A p : SameKeys(s, [s EXCEPT !.phase = p])
  BY DEF SameKeys, State
<1> QED  BY <1>1, <1>2, <1>3, <1>4, <1>5

\* Nor does </think>,
LEMMA CloseThinkKeepsKeys ==
  ASSUME NEW s, Live(s), s.started
  PROVE  SameKeys(s, CloseThink(s))
<1> DEFINE o == OpenText(s)
<1>1. s \in State /\ o \in State  BY OpenTextKeeps DEF Live, Coherent
<1>2. SameKeys(s, o)  BY <1>1, PiecesKeepKeys
<1>3. SameKeys(o, [o EXCEPT !.phase = "content", !.heard = HearUnthink(@, o.msgIndex)])
  <2> HIDE DEF o
  <2> QED  BY <1>1 DEF SameKeys, State
<1>4. SameKeys(s, s)  BY DEF SameKeys
<1> QED  BY <1>2, <1>3, <1>4, SameKeysChain DEF CloseThink

\* nor closing the calls,
LEMMA CloseToolsKeepsKeys ==
  ASSUME NEW s \in State
  PROVE  SameKeys(s, CloseTools(s))
<1>1. \A k \in DOMAIN s.calls : s.calls[k] \in Slot  BY DictShape DEF State
<1> QED  BY <1>1 DEF SameKeys, CloseTools, State, Slot

\* nor all of the closing,
LEMMA CloseItemsKeepsKeys ==
  ASSUME NEW s, Live(s)
  PROVE  SameKeys(s, CloseItems(s))
<1> DEFINE b == Begin(s)
           c == CloseThink(b)
           x == CloseText(c)
<1>1. Live(b) /\ b.started /\ SameKeys(s, b)
  BY BeginKeeps, PiecesKeepKeys DEF Live, Coherent
<1> HIDE DEF b
<1>2. Live(c) /\ c.started /\ c.phase # "thinking" /\ SameKeys(b, c)
  BY <1>1, CloseThinkKeeps, CloseThinkKeepsKeys
<1> HIDE DEF c
<1>3. x \in State /\ SameKeys(c, x)
  BY <1>2, CloseTextKeeps, PiecesKeepKeys DEF TextShut, Live, Coherent
<1> HIDE DEF x
<1>4. SameKeys(x, CloseTools(x))  BY <1>3, CloseToolsKeepsKeys
<1>5. SameKeys(s, CloseTools(x))
  BY <1>1, <1>2, <1>3, <1>4, SameKeysChain
<1> QED  BY <1>5 DEF CloseItems, x, c, b

\* nor text.
LEMMA TextKeepsKeys ==
  ASSUME NEW s, Live(s), s.started
  PROVE  SameKeys(s, Reason(s)) /\ SameKeys(s, Content(s))
<1> DEFINE o == OpenText(s)
           h == HearThink(o.heard, o.msgIndex)
           r == [o EXCEPT !.phase = "thinking", !.heard = h]
           c == CloseThink(o)
           t == [c EXCEPT !.phase = "content"]
<1>1. Live(o) /\ o.started /\ o \in State /\ SameKeys(s, o)
  BY OpenTextKeeps, PiecesKeepKeys DEF Live, Coherent
<1>2. Live(c) /\ c \in State /\ SameKeys(o, c)
  BY <1>1, CloseThinkKeeps, CloseThinkKeepsKeys DEF Live, Coherent
<1>3. SameKeys(o, Say(o))  BY <1>1, PiecesKeepKeys
<1>4. SameKeys(o, Say(r))
  <2> HIDE DEF o, h
  <2> QED  BY <1>1 DEF SameKeys, Say, State
<1>5. SameKeys(c, Say(t))
  <2> HIDE DEF c
  <2> QED  BY <1>2 DEF SameKeys, Say, State
<1>6. Reason(s) = IF s.phase = "none" THEN Say(r) ELSE Say(o)
  BY <1>1 DEF Reason, State
<1>7. Content(s) = Say(t)  BY DEF Content
<1> HIDE DEF o, c, r, t
<1> QED  BY <1>1, <1>2, <1>3, <1>4, <1>5, <1>6, <1>7, SameKeysChain

\* An item's key tells whose it is, but for the calls in x, which came without
\* index and id.
Keyed(s, x) ==
  /\ FirstAnon <= s.anonNext
  /\ \A c \in Calls : s.byId[c] # NoKey => s.byId[c] < s.anonNext
  /\ \A k \in DOMAIN s.calls :
       /\ k < s.anonNext
       /\ IndexOf[s.calls[k].call] # NoIndex => k = IndexOf[s.calls[k].call]
       /\ IndexOf[s.calls[k].call] = NoIndex /\ s.calls[k].call \notin x
            => k = s.byId[s.calls[k].call]

\* Keyed speaks of the keys alone.
LEMMA SameKeysKeyed ==
  ASSUME NEW s, NEW t, NEW x, Keyed(s, x), SameKeys(s, t)
  PROVE  Keyed(t, x)
BY DEF Keyed, SameKeys

\* A fragment goes to the item of its call, or to a new one.
LEMMA FragmentKeyed ==
  ASSUME NEW s, Live(s), s.started, NEW c \in Calls,
         NEW withId \in BOOLEAN, NEW withName \in BOOLEAN, NEW withArguments,
         NEW x \in SUBSET Calls, Keyed(s, x)
  PROVE  Keyed(ToolFragment(s, c, withId, withName, withArguments),
               IF IndexOf[c] = NoIndex /\ ~withId THEN x \cup {c} ELSE x)
<1> DEFINE k == KeyOf(s, c, withId)
           a == Allocate(s, c, withId)
           e == Enlist(a, k, c)
           n == Name(e, k, withName)
           y == IF IndexOf[c] = NoIndex /\ ~withId THEN x \cup {c} ELSE x
<1>1. /\ s \in State /\ k \in Nat /\ s.anonNext \in Nat
      /\ s.byId \in [Calls -> Nat \cup {NoKey}]
      /\ DOMAIN s.calls \subseteq Nat
      /\ \A l \in DOMAIN s.calls : s.calls[l].call \in Calls
  <2>1. s \in State /\ s.calls \in Dicts  BY DEF Live, Coherent, State
  <2> QED  BY <2>1, KeyIsNat, DictShape DEF State, Slot
<1>2. Live(a) /\ a.started  BY AllocateKeeps
<1>3. /\ a.calls = s.calls
      /\ a.anonNext = IF k = s.anonNext THEN s.anonNext + 1 ELSE s.anonNext
      /\ a.byId = IF k = s.anonNext /\ withId THEN [s.byId EXCEPT ![c] = k] ELSE s.byId
  <2> HIDE DEF k
  <2> QED  BY <1>1 DEF Allocate, State, k
\* The key of the fragment is that of its call.
<1>4. /\ IndexOf[c] # NoIndex => k = IndexOf[c] /\ k < s.anonNext
      /\ IndexOf[c] = NoIndex /\ withId => k = a.byId[c]
      /\ k < a.anonNext
      /\ IndexOf[c] = NoIndex /\ k = s.anonNext /\ withId => s.byId[c] = NoKey
  <2>1. CASE IndexOf[c] # NoIndex
    <3>1. k = IndexOf[c] /\ IndexOf[c] \in 0 .. FirstAnon - 1
      BY <2>1, StreamAssumption DEF KeyOf
    <3> QED  BY <1>1, <1>3, <2>1, <3>1, StreamAssumption DEF Keyed
  <2>2. CASE IndexOf[c] = NoIndex /\ withId /\ s.byId[c] # NoKey
    <3>1. k = s.byId[c]  BY <2>2 DEF KeyOf
    <3>2. k < s.anonNext  BY <2>2, <3>1 DEF Keyed
    <3>3. k # s.anonNext /\ a.anonNext = s.anonNext /\ a.byId = s.byId
      BY <1>1, <1>3, <3>2
    <3> HIDE DEF k, a
    <3> QED  BY <2>2, <3>1, <3>2, <3>3
  <2>3. CASE IndexOf[c] = NoIndex /\ ~(withId /\ s.byId[c] # NoKey)
    <3>1. k = s.anonNext  BY <2>3 DEF KeyOf
    <3> QED  BY <1>1, <1>3, <2>3, <3>1
  <2> QED  BY <2>1, <2>2, <2>3
<1> HIDE DEF a, k, y
<1>5. Keyed(a, y)
  <2>1. FirstAnon <= a.anonNext /\ s.anonNext <= a.anonNext
    BY <1>1, <1>3, StreamAssumption DEF Keyed
  <2>2. \A d \in Calls : a.byId[d] # NoKey => a.byId[d] < a.anonNext
    <3> SUFFICES ASSUME NEW d \in Calls, a.byId[d] # NoKey
                 PROVE  a.byId[d] < a.anonNext
      OBVIOUS
    <3>1. CASE d = c /\ k = s.anonNext /\ withId
      BY <1>1, <1>3, <1>4, <3>1
    <3>2. CASE ~(d = c /\ k = s.anonNext /\ withId)
      <4>1. a.byId[d] = s.byId[d]  BY <1>1, <1>3, <3>2
      <4>2. a.byId[d] \in Nat /\ a.byId[d] < s.anonNext
        BY <1>1, <4>1 DEF Keyed
      <4>3. a.anonNext \in Nat  BY <1>1, <1>3
      <4> QED  BY <1>1, <2>1, <4>2, <4>3
    <3> QED  BY <3>1, <3>2
  <2>3. ASSUME NEW l \in DOMAIN a.calls
        PROVE  /\ l < a.anonNext
               /\ IndexOf[a.calls[l].call] # NoIndex => l = IndexOf[a.calls[l].call]
               /\ IndexOf[a.calls[l].call] = NoIndex /\ a.calls[l].call \notin y
                    => l = a.byId[a.calls[l].call]
    <3> DEFINE d == s.calls[l].call
    <3>1. /\ l \in DOMAIN s.calls /\ l \in Nat /\ d \in Calls /\ a.calls[l].call = d
          /\ l < s.anonNext
          /\ IndexOf[d] # NoIndex => l = IndexOf[d]
          /\ IndexOf[d] = NoIndex /\ d \notin x => l = s.byId[d]
      BY <1>1, <1>3, <2>3 DEF Keyed
    <3> HIDE DEF d
    <3>2. l < a.anonNext  BY <1>1, <1>3, <2>1, <3>1
    <3>3. ASSUME IndexOf[d] = NoIndex, d \notin y PROVE l = a.byId[d]
      <4>1. l = s.byId[d]  BY <3>1, <3>3 DEF y
      <4>2. CASE d = c /\ k = s.anonNext /\ withId
        <5>1. s.byId[d] = NoKey  BY <1>4, <3>3, <4>2
        <5> QED  BY <3>1, <4>1, <5>1, StreamAssumption
      <4>3. CASE ~(d = c /\ k = s.anonNext /\ withId)
        BY <1>1, <1>3, <3>1, <4>1, <4>3
      <4> QED  BY <4>2, <4>3
    <3> QED  BY <3>1, <3>2, <3>3
  <2> QED  BY <2>1, <2>2, <2>3 DEF Keyed
<1>6. Live(e) /\ e.started /\ k \in DOMAIN e.calls /\ e \in State
  BY <1>1, <1>2, EnlistKeeps DEF Live, Coherent
<1>7. /\ e.anonNext = a.anonNext /\ e.byId = a.byId
      /\ DOMAIN e.calls = DOMAIN a.calls \cup {k}
      /\ \A l \in DOMAIN a.calls : e.calls[l].call = a.calls[l].call
      /\ k \notin DOMAIN a.calls => e.calls[k].call = c
  <2>1. a \in State  BY <1>2 DEF Live, Coherent
  <2> QED  BY <2>1 DEF Enlist, NewSlot, State
<1> HIDE DEF e
<1>8. Keyed(e, y)
  <2>1. ASSUME k \notin DOMAIN a.calls
        PROVE  /\ k < e.anonNext
               /\ IndexOf[c] # NoIndex => k = IndexOf[c]
               /\ IndexOf[c] = NoIndex /\ c \notin y => k = e.byId[c]
    BY <1>4, <1>7 DEF y
  <2>2. \A l \in DOMAIN e.calls :
          /\ l < e.anonNext
          /\ IndexOf[e.calls[l].call] # NoIndex => l = IndexOf[e.calls[l].call]
          /\ IndexOf[e.calls[l].call] = NoIndex /\ e.calls[l].call \notin y
               => l = e.byId[e.calls[l].call]
    BY <1>5, <1>7, <2>1 DEF Keyed
  <2> QED  BY <1>5, <1>7, <2>2 DEF Keyed
<1>9. Live(n) /\ n.started /\ k \in DOMAIN n.calls
  BY <1>6, NameKeeps
<1>10. SameKeys(e, n)
  <2>1. \A l \in DOMAIN e.calls : e.calls[l] \in Slot  BY <1>6, DictShape DEF State
  <2> QED  BY <1>6, <2>1 DEF SameKeys, Name, State, Slot
<1> HIDE DEF n
<1>11. Arguments(n, k, withArguments) = n  BY <1>9, ArgumentsKeep
<1>12. Keyed(n, y)  BY <1>8, <1>10, SameKeysKeyed
<1> QED  BY <1>11, <1>12 DEF ToolFragment, n, e, a, k, y

\* No end of a stream touches the keys.
LEMMA EndKeepsKeys ==
  ASSUME StreamInv, UpstreamEnds \/ UpstreamBreaks \/ RescueRefused
  PROVE  SameKeys(st, st')
<1>1. st \in State /\ SameKeys(st, st)  BY DEF StreamInv, Shapes, SameKeys
<1>2. /\ SameKeys(st, Finalise(st)) /\ SameKeys(st, ResetForRescue(st))
      /\ SameKeys(st, TellFinal(st, "incomplete"))
  BY <1>1, PiecesKeepKeys
<1>3. ASSUME Streaming, ~nudge PROVE SameKeys(st, ForceClose(st))
  <2>1. CASE st.completed  BY <1>1, <2>1 DEF ForceClose
  <2>2. CASE ~st.completed
    <3> DEFINE s == CloseItems(st)
    <3>1. Live(st)
      BY <1>3, <2>2 DEF StreamInv, Shapes, Progress, Suppressing
    <3>2. s \in State /\ SameKeys(st, s)
      BY <3>1, CloseItemsKeeps, CloseItemsKeepsKeys DEF Shut
    <3> HIDE DEF s
    <3>3. SameKeys(s, Complete(s, "incomplete"))  BY <3>2, PiecesKeepKeys
    <3>4. SameKeys(st, Complete(s, "incomplete"))  BY <3>2, <3>3, SameKeysChain
    <3> QED  BY <2>2, <3>4 DEF ForceClose, s
  <2> QED  BY <2>1, <2>2
<1> QED
  BY <1>2, <1>3 DEF UpstreamEnds, UpstreamBreaks, RescueRefused

\* _handle_tool_calls_delta makes one item of a call whose fragments each have
\* an index or an id.
THEOREM StreamOneItemPerCall == Spec => []OneItemPerCall
<1>1. Init => Keyed(st, idless)
  <2> SUFFICES ASSUME Init PROVE Keyed(st, idless)  OBVIOUS
  <2>1. /\ st.anonNext = FirstAnon /\ st.byId = [c \in Calls |-> NoKey]
        /\ DOMAIN st.calls = {}
    BY DEF Init, NewState
  <2> QED  BY <2>1, StreamAssumption DEF Keyed
<1>2. StreamInv /\ Keyed(st, idless) /\ [Next]_vars => Keyed(st, idless)'
  <2> SUFFICES ASSUME StreamInv, Keyed(st, idless), [Next]_vars
               PROVE  Keyed(st', idless')
    BY DEF Keyed
  <2>0. st \in State  BY DEF StreamInv, Shapes
  <2>1. ASSUME SameKeys(st, st'), idless' = idless PROVE Keyed(st', idless')
    BY <2>1, SameKeysKeyed
  <2>2. ASSUME Chunk
        PROVE  /\ Live(Begin(st)) /\ Begin(st).started
               /\ SameKeys(st, Begin(st)) /\ Keyed(Begin(st), idless)
    <3>1. Live(Begin(st)) /\ Begin(st).started /\ SameKeys(st, Begin(st))
      BY <2>0, <2>2, BeginKeeps, PiecesKeepKeys DEF StreamInv, Progress, Chunk
    <3> QED  BY <3>1, SameKeysKeyed
  <2>3. CASE EmptyChunk \/ ReasoningChunk \/ ContentChunk
    <3>1. SameKeys(Begin(st), Reason(Begin(st))) /\ SameKeys(Begin(st), Content(Begin(st)))
      BY <2>2, <2>3, TextKeepsKeys DEF EmptyChunk, ReasoningChunk, ContentChunk
    <3>2. SameKeys(st, st')
      BY <2>2, <2>3, <3>1, SameKeysChain DEF EmptyChunk, ReasoningChunk, ContentChunk
    <3> QED
      BY <2>1, <2>3, <3>2 DEF EmptyChunk, ReasoningChunk, ContentChunk
  <2>4. ASSUME NEW c \in Calls, NEW withId \in BOOLEAN, NEW withName \in BOOLEAN,
               NEW withArguments \in BOOLEAN, ToolChunk(c, withId, withName, withArguments)
        PROVE  Keyed(st', idless')
    <3>1. Chunk /\ idless \in SUBSET Calls
      BY <2>4 DEF ToolChunk, StreamInv, Shapes
    <3>2. Live(Begin(st)) /\ Begin(st).started /\ Keyed(Begin(st), idless)
      BY <2>2, <3>1
    <3>3. Keyed(ToolFragment(Begin(st), c, withId, withName, withArguments),
                IF IndexOf[c] = NoIndex /\ ~withId THEN idless \cup {c} ELSE idless)
      BY <3>1, <3>2, FragmentKeyed
    <3> QED  BY <2>4, <3>3 DEF ToolChunk
  <2>5. ASSUME NEW reason \in {"stop", "other"}, FinishChunk(reason)
        PROVE  Keyed(st', idless')
    <3> DEFINE s == CloseItems(st)
    <3>1. Live(st)  BY <2>5 DEF StreamInv, Progress, FinishChunk, Chunk
    <3>2. s \in State /\ SameKeys(st, s)
      BY <3>1, CloseItemsKeeps, CloseItemsKeepsKeys DEF Shut
    <3>3. st' = IF Suppressing THEN s ELSE Complete(s, "completed")
      BY <2>5 DEF FinishChunk
    <3> HIDE DEF s
    <3>4. SameKeys(st, Complete(s, "completed"))
      BY <3>2, PiecesKeepKeys, SameKeysChain
    <3> QED  BY <2>1, <2>5, <3>2, <3>3, <3>4 DEF FinishChunk
  <2>6. CASE UpstreamEnds \/ UpstreamBreaks \/ RescueRefused
    BY <2>1, <2>6, EndKeepsKeys DEF UpstreamEnds, UpstreamBreaks, RescueRefused
  <2>7. CASE RescueStarts \/ RescueRaises \/ UNCHANGED vars
    BY <2>7 DEF RescueStarts, RescueRaises, vars
  <2> QED  BY <2>3, <2>4, <2>5, <2>6, <2>7 DEF Next
<1>3. StreamInv /\ Keyed(st, idless) => OneItemPerCall
  BY DEF OneItemPerCall, Keyed
<1> QED  BY <1>1, <1>2, <1>3, StreamInvariant, PTL DEF Spec
=============================================================================
