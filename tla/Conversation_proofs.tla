------------------------ MODULE Conversation_proofs -------------------------
(***************************************************************************)
(* For conversations of any length: whichever two APIs the proxy joins,    *)
(* the request of every turn tells the story (StorySurvives), answers its  *)
(* latest call (LatestCallAnswered), and has one system message in front   *)
(* (OneSystemInFront).                                                     *)
(*                                                                         *)
(* The history in the client's form tells the story item by item.  Both    *)
(* translations are flat maps (SequenceLaws), so it is enough to follow    *)
(* one item; but for what they move: the directions to the front, and the  *)
(* text of a message with parts before its calls and its results.  What is *)
(* moved and what it passes are never of one kind (MovedInFront).          *)
(***************************************************************************)
EXTENDS Conversation, SequenceLaws, TLAPS

Text == Seq(Nat)
Call == [id : Int, n : Nat]

\* Events of a story.
Happening ==
  [what : {"user", "system", "said", "call", "result"}, n : Nat, id : Int]

\* Items of the Responses API.
Talk == [type : {"message"}, role : {"user", "assistant", "developer"}, text : Text]
ToolItem == [type : {"function_call", "function_call_output"}, id : Int, n : Nat]
Item == Talk \cup ToolItem

\* Messages with parts: those of the assistant have calls, the others results.
TextBlock == [type : {"text"}, text : Text]
ToolBlock(role) ==
  [type : {IF role = "assistant" THEN "tool_use" ELSE "tool_result"}, id : Int, n : Nat]
Part(role)   == TextBlock \cup ToolBlock(role)
PartsMessage ==
  [role : {"user"}, parts : Seq(Part("user"))]
    \cup [role : {"assistant"}, parts : Seq(Part("assistant"))]

\* Chat messages.
Speech == [role : {"user", "assistant", "system"}, text : Text, calls : Seq(Call)]
ToolAnswer == [role : {"tool"}, id : Int, n : Nat]
ChatMessage == Speech \cup ToolAnswer
Plain == {m \in ChatMessage : m.role # "system"}

Kinds == {{"call", "result"}, {"user", "said"}, {"system"}}

\* What an item of the Responses API tells.
ItemSays(i) ==
  CASE i.type = "message" ->
         Told(CASE i.role = "developer" -> "system"
                [] i.role = "user" -> "user"
                [] i.role = "assistant" -> "said", i.text)
    [] i.type = "function_call" -> <<Event("call", i.n, i.id)>>
    [] i.type = "function_call_output" -> <<Event("result", i.n, i.id)>>

\* What the history tells.
HistorySays ==
  CASE api = "responses" -> Told("system", system) \o Each(history, ItemSays)
    [] api = "messages" -> Told("system", system) \o Each(history, PartsSay)
    [] api = "chat" -> Each(history, MessageSays)

\* What the proxy adds to it.
HintSays == Told("system", HintText)

-----------------------------------------------------------------------------
(* The functions whose flat maps the translations are.                     *)

TellFn(what)     == [n \in Nat |-> <<Event(what, n, 0)>>]
TellCallFn(what) == [c \in Call |-> <<Event(what, c.n, c.id)>>]
KeepFn(kinds)    == [e \in Happening |-> When(e.what \in kinds, e)]

DirectionFn == [i \in Item |-> DirectionOf(i)]
OfItemFn    == [i \in Item |-> OfItem(i)]
ItemSaysFn  == [i \in Item |-> ItemSays(i)]

TextFn(role)   == [p \in Part(role) |-> TextOf(p)]
CallFn(role)   == [p \in Part(role) |-> CallOf(p)]
ResultFn(role) == [p \in Part(role) |-> ResultOf(p)]
PartFn(role)   == [p \in Part(role) |-> PartSays(role, p)]
OfMessageFn    == [m \in PartsMessage |-> OfMessage(m)]
PartsFn        == [m \in PartsMessage |-> PartsSay(m)]

SystemFn          == [m \in ChatMessage |-> SystemOf(m)]
NativeFn(withIds) == [m \in ChatMessage |-> NativeOf(m, withIds)]
SaysFn            == [m \in ChatMessage |-> MessageSays(m)]

\* One element or none.
LEMMA WhenType ==
  ASSUME NEW S, NEW x, NEW b, b => x \in S
  PROVE  When(b, x) \in Seq(S)
<1>1. CASE b
  <2>1. x \in S  BY <1>1
  <2>2. <<x>> \in Seq(S)  BY <2>1
  <2> QED  BY <1>1, <2>2 DEF When
<1>2. CASE ~b
  <2>1. <<>> \in Seq(S)  OBVIOUS
  <2> QED  BY <1>2, <2>1 DEF When
<1> QED  BY <1>1, <1>2

LEMMA OneType ==
  ASSUME NEW S, NEW x \in S
  PROVE  <<x>> \in Seq(S) /\ <<>> \in Seq(S)
OBVIOUS

\* Every event that is told is one that can happen.
LEMMA EventType ==
  ASSUME NEW what \in {"user", "system", "said", "call", "result"}, NEW n \in Nat, NEW id \in Int
  PROVE  Event(what, n, id) \in Happening /\ Event(what, n, id).what = what
BY DEF Event, Happening

LEMMA ToldIs ==
  ASSUME NEW what \in {"user", "system", "said", "call", "result"}, NEW ns \in Text
  PROVE  /\ Told(what, ns) \in Seq(Happening) /\ Told(what, ns) = FlatMap(TellFn(what), ns)
         /\ Len(Told(what, ns)) = Len(ns)
         /\ \A i \in DOMAIN Told(what, ns) : Told(what, ns)[i].what = what
         /\ Gives(TellFn(what), Nat, Happening)
<1> DEFINE t == Told(what, ns)
<1>1. \A n \in Nat : Event(what, n, 0) \in Happening /\ Event(what, n, 0).what = what
  BY EventType
<1>2. \A i \in DOMAIN ns : ns[i] \in Nat  BY DEF Text
<1>3. t = [i \in 1 .. Len(ns) |-> Event(what, ns[i], 0)]  BY DEF Told, Text
<1>4. \A i \in 1 .. Len(ns) : t[i] \in Happening /\ t[i].what = what  BY <1>1, <1>2, <1>3 DEF Text
<1>5. t \in Seq(Happening) /\ Len(t) = Len(ns)  BY <1>3, <1>4 DEF Text
<1>6. Gives(TellFn(what), Nat, Happening)
  <2>1. \A n \in Nat : <<Event(what, n, 0)>> \in Seq(Happening)  BY <1>1
  <2> QED  BY <2>1 DEF TellFn, Gives
<1>7. FlatMap(TellFn(what), ns) = t
  <2>1. \A i \in 1 .. Len(ns) : TellFn(what)[ns[i]] = <<t[i]>>
    BY <1>2, <1>3 DEF TellFn, Text
  <2>2. Singles(TellFn(what), ns, t)  BY <1>5, <2>1 DEF Singles
  <2>3. ns \in Seq(Nat)  BY DEF Text
  <2> HIDE DEF t
  <2> QED  BY <1>5, <1>6, <2>2, <2>3, FlatMapIs
<1> QED  BY <1>4, <1>5, <1>6, <1>7 DEF t, Text

LEMMA ToldOfIs ==
  ASSUME NEW what \in {"user", "system", "said", "call", "result"}, NEW cs \in Seq(Call)
  PROVE  /\ ToldOf(what, cs) \in Seq(Happening)
         /\ ToldOf(what, cs) = FlatMap(TellCallFn(what), cs)
         /\ Len(ToldOf(what, cs)) = Len(cs)
         /\ \A i \in DOMAIN ToldOf(what, cs) : ToldOf(what, cs)[i].what = what
         /\ Gives(TellCallFn(what), Call, Happening)
<1> DEFINE t == ToldOf(what, cs)
<1>1. ASSUME NEW c \in Call
      PROVE  Event(what, c.n, c.id) \in Happening /\ Event(what, c.n, c.id).what = what
  BY EventType DEF Call
<1>2. \A i \in DOMAIN cs : cs[i] \in Call  OBVIOUS
<1>3. t = [i \in 1 .. Len(cs) |-> Event(what, cs[i].n, cs[i].id)]  BY DEF ToldOf
<1>4. \A i \in 1 .. Len(cs) : t[i] \in Happening /\ t[i].what = what  BY <1>1, <1>2, <1>3
<1>5. t \in Seq(Happening) /\ Len(t) = Len(cs)  BY <1>3, <1>4
<1>6. Gives(TellCallFn(what), Call, Happening)
  <2>1. \A c \in Call : <<Event(what, c.n, c.id)>> \in Seq(Happening)  BY <1>1, OneType
  <2> QED  BY <2>1 DEF TellCallFn, Gives
<1>7. FlatMap(TellCallFn(what), cs) = t
  <2>1. \A i \in 1 .. Len(cs) : TellCallFn(what)[cs[i]] = <<t[i]>>
    BY <1>2, <1>3 DEF TellCallFn
  <2>2. Singles(TellCallFn(what), cs, t)  BY <1>5, <2>1 DEF Singles
  <2> HIDE DEF t
  <2> QED  BY <1>5, <1>6, <2>2, FlatMapIs
<1> QED  BY <1>4, <1>5, <1>6, <1>7 DEF t

\* A function into sequences of S is one into sequences of more.
LEMMA GivesMore ==
  ASSUME NEW E, NEW S, NEW T, NEW f, Gives(f, E, S), S \subseteq T
  PROVE  Gives(f, E, T)
<1>1. Seq(S) \subseteq Seq(T)  OBVIOUS
<1> QED  BY <1>1 DEF Gives

LEMMA PlainIsChat == Plain \subseteq ChatMessage
BY DEF Plain

-----------------------------------------------------------------------------
(* Items of the Responses API.                                             *)

LEMMA ItemCases ==
  ASSUME NEW i \in Item
  PROVE  \/ /\ IsDirection(i) /\ i.text \in Text
            /\ DirectionOf(i) = i.text /\ OfItem(i) = <<>>
            /\ ItemSays(i) = Told("system", i.text)
         \/ /\ ~IsDirection(i) /\ i.role \in {"user", "assistant"} /\ i.text \in Text
            /\ DirectionOf(i) = <<>> /\ OfItem(i) = <<Message(i.role, i.text, <<>>)>>
            /\ ItemSays(i) = Told(IF i.role = "user" THEN "user" ELSE "said", i.text)
         \/ /\ ~IsDirection(i) /\ i.id \in Int /\ i.n \in Nat
            /\ DirectionOf(i) = <<>>
            /\ OfItem(i) = <<Message("assistant", <<>>, <<[id |-> i.id, n |-> i.n]>>)>>
            /\ ItemSays(i) = <<Event("call", i.n, i.id)>>
         \/ /\ ~IsDirection(i) /\ i.id \in Int /\ i.n \in Nat
            /\ DirectionOf(i) = <<>> /\ OfItem(i) = <<ToolMessage(i.id, i.n)>>
            /\ ItemSays(i) = <<Event("result", i.n, i.id)>>
<1>1. CASE i \in Talk /\ i.role = "developer"
  <2>1. i.type = "message" /\ i.text \in Text  BY <1>1 DEF Talk
  <2> QED  BY <1>1, <2>1 DEF IsDirection, DirectionOf, OfItem, ItemSays
<1>2. CASE i \in Talk /\ i.role = "user"
  <2>1. i.type = "message" /\ i.text \in Text  BY <1>2 DEF Talk
  <2> QED  BY <1>2, <2>1 DEF IsDirection, DirectionOf, OfItem, ItemSays
<1>3. CASE i \in Talk /\ i.role = "assistant"
  <2>1. i.type = "message" /\ i.text \in Text  BY <1>3 DEF Talk
  <2> QED  BY <1>3, <2>1 DEF IsDirection, DirectionOf, OfItem, ItemSays
<1>4. CASE i \in ToolItem
  <2>1. i.type \in {"function_call", "function_call_output"} /\ i.id \in Int /\ i.n \in Nat
    BY <1>4 DEF ToolItem
  <2> QED  BY <2>1 DEF IsDirection, DirectionOf, OfItem, ItemSays
<1>5. i \in Talk => i.role \in {"user", "assistant", "developer"}  BY DEF Talk
<1> QED  BY <1>1, <1>2, <1>3, <1>4, <1>5 DEF Item

\* The messages that translations make.
LEMMA MessageMakes ==
  /\ \A role \in {"user", "assistant", "system"}, text \in Text, calls \in Seq(Call) :
       Message(role, text, calls) \in ChatMessage
  /\ \A role \in {"user", "assistant"}, text \in Text, calls \in Seq(Call) :
       Message(role, text, calls) \in Plain
  /\ \A id \in Int, n \in Nat : ToolMessage(id, n) \in Plain
<1>1. \A role \in {"user", "assistant", "system"}, text \in Text, calls \in Seq(Call) :
        Message(role, text, calls) \in Speech /\ Message(role, text, calls).role = role
  BY DEF Message, Speech
<1>2. \A id \in Int, n \in Nat :
        ToolMessage(id, n) \in ToolAnswer /\ ToolMessage(id, n).role = "tool"
  BY DEF ToolMessage, ToolAnswer
<1> QED  BY <1>1, <1>2 DEF Plain, ChatMessage

LEMMA ItemGives ==
  /\ Gives(DirectionFn, Item, Nat) /\ Gives(ItemSaysFn, Item, Happening)
  /\ Gives(OfItemFn, Item, Plain) /\ Gives(OfItemFn, Item, ChatMessage)
<1>1. <<>> \in Text /\ <<>> \in Seq(Call) /\ <<>> \in Seq(Plain) /\ <<>> \in Seq(Happening)
  BY DEF Text
<1>2. ASSUME NEW i \in Item
      PROVE  /\ DirectionOf(i) \in Text /\ OfItem(i) \in Seq(Plain)
             /\ ItemSays(i) \in Seq(Happening)
  <2>1. CASE /\ i.text \in Text /\ DirectionOf(i) = i.text /\ OfItem(i) = <<>>
             /\ ItemSays(i) = Told("system", i.text)
    BY <1>1, <2>1, ToldIs
  <2>2. CASE /\ i.role \in {"user", "assistant"} /\ i.text \in Text
             /\ DirectionOf(i) = <<>> /\ OfItem(i) = <<Message(i.role, i.text, <<>>)>>
             /\ ItemSays(i) = Told(IF i.role = "user" THEN "user" ELSE "said", i.text)
    <3>1. Message(i.role, i.text, <<>>) \in Plain  BY <1>1, <2>2, MessageMakes
    <3>2. OfItem(i) \in Seq(Plain)  BY <2>2, <3>1, OneType
    <3>3. ItemSays(i) \in Seq(Happening)  BY <2>2, ToldIs
    <3> QED  BY <1>1, <2>2, <3>2, <3>3
  <2>3. CASE /\ i.id \in Int /\ i.n \in Nat /\ DirectionOf(i) = <<>>
             /\ OfItem(i) = <<Message("assistant", <<>>, <<[id |-> i.id, n |-> i.n]>>)>>
             /\ ItemSays(i) = <<Event("call", i.n, i.id)>>
    <3>1. [id |-> i.id, n |-> i.n] \in Call  BY <2>3 DEF Call
    <3>2. <<[id |-> i.id, n |-> i.n]>> \in Seq(Call)  BY <3>1, OneType
    <3>3. Message("assistant", <<>>, <<[id |-> i.id, n |-> i.n]>>) \in Plain
      BY <1>1, <3>2, MessageMakes
    <3>4. OfItem(i) \in Seq(Plain)  BY <2>3, <3>3, OneType
    <3>5. Event("call", i.n, i.id) \in Happening  BY <2>3, EventType
    <3>6. ItemSays(i) \in Seq(Happening)  BY <2>3, <3>5, OneType
    <3> QED  BY <1>1, <2>3, <3>4, <3>6
  <2>4. CASE /\ i.id \in Int /\ i.n \in Nat /\ DirectionOf(i) = <<>>
             /\ OfItem(i) = <<ToolMessage(i.id, i.n)>>
             /\ ItemSays(i) = <<Event("result", i.n, i.id)>>
    <3>1. ToolMessage(i.id, i.n) \in Plain  BY <2>4, MessageMakes
    <3>2. OfItem(i) \in Seq(Plain)  BY <2>4, <3>1, OneType
    <3>3. Event("result", i.n, i.id) \in Happening  BY <2>4, EventType
    <3>4. ItemSays(i) \in Seq(Happening)  BY <2>4, <3>3, OneType
    <3> QED  BY <1>1, <2>4, <3>2, <3>4
  <2> QED  BY <2>1, <2>2, <2>3, <2>4, ItemCases
<1>3. Gives(OfItemFn, Item, Plain)  BY <1>2 DEF Gives, OfItemFn
<1>4. Gives(DirectionFn, Item, Nat)  BY <1>2 DEF Gives, DirectionFn, Text
<1>5. Gives(ItemSaysFn, Item, Happening)  BY <1>2 DEF Gives, ItemSaysFn
<1> QED  BY <1>3, <1>4, <1>5, PlainIsChat, GivesMore

LEMMA ItemEach ==
  ASSUME NEW s \in Seq(Item)
  PROVE  /\ Each(s, DirectionOf) = FlatMap(DirectionFn, s)
         /\ Each(s, OfItem) = FlatMap(OfItemFn, s)
         /\ Each(s, ItemSays) = FlatMap(ItemSaysFn, s)
<1>1. \A i \in DOMAIN s : s[i] \in Item  OBVIOUS
<1>2. [i \in DOMAIN s |-> DirectionOf(s[i])] = Pieces(DirectionFn, s)
  BY <1>1 DEF Pieces, DirectionFn
<1>3. [i \in DOMAIN s |-> OfItem(s[i])] = Pieces(OfItemFn, s)
  BY <1>1 DEF Pieces, OfItemFn
<1>4. [i \in DOMAIN s |-> ItemSays(s[i])] = Pieces(ItemSaysFn, s)
  BY <1>1 DEF Pieces, ItemSaysFn
<1> QED  BY <1>2, <1>3, <1>4 DEF Each, FlatMap

-----------------------------------------------------------------------------
(* Messages with parts.                                                    *)

LEMMA PartCases ==
  ASSUME NEW role \in {"user", "assistant"}, NEW p \in Part(role)
  PROVE  \/ /\ p.text \in Text /\ TextOf(p) = p.text /\ CallOf(p) = <<>> /\ ResultOf(p) = <<>>
            /\ PartSays(role, p) = Told(IF role = "user" THEN "user" ELSE "said", p.text)
         \/ /\ role = "assistant" /\ p.id \in Int /\ p.n \in Nat
            /\ TextOf(p) = <<>> /\ CallOf(p) = <<[id |-> p.id, n |-> p.n]>> /\ ResultOf(p) = <<>>
            /\ PartSays(role, p) = <<Event("call", p.n, p.id)>>
         \/ /\ role = "user" /\ p.id \in Int /\ p.n \in Nat
            /\ TextOf(p) = <<>> /\ CallOf(p) = <<>> /\ ResultOf(p) = <<ToolMessage(p.id, p.n)>>
            /\ PartSays(role, p) = <<Event("result", p.n, p.id)>>
<1>1. CASE p \in TextBlock
  <2>1. p.type = "text" /\ p.text \in Text  BY <1>1 DEF TextBlock
  <2> QED  BY <2>1 DEF TextOf, CallOf, ResultOf, PartSays, When
<1>2. CASE p \in ToolBlock(role) /\ role = "assistant"
  <2>1. p.type = "tool_use" /\ p.id \in Int /\ p.n \in Nat  BY <1>2 DEF ToolBlock
  <2> QED  BY <1>2, <2>1 DEF TextOf, CallOf, ResultOf, PartSays, When
<1>3. CASE p \in ToolBlock(role) /\ role = "user"
  <2>1. p.type = "tool_result" /\ p.id \in Int /\ p.n \in Nat  BY <1>3 DEF ToolBlock
  <2> QED  BY <1>3, <2>1 DEF TextOf, CallOf, ResultOf, PartSays, When
<1> QED  BY <1>1, <1>2, <1>3 DEF Part

LEMMA PartGives ==
  ASSUME NEW role \in {"user", "assistant"}
  PROVE  /\ Gives(TextFn(role), Part(role), Nat) /\ Gives(CallFn(role), Part(role), Call)
         /\ Gives(ResultFn(role), Part(role), Plain)
         /\ Gives(ResultFn(role), Part(role), ChatMessage)
         /\ Gives(PartFn(role), Part(role), Happening)
<1>1. <<>> \in Text /\ <<>> \in Seq(Call) /\ <<>> \in Seq(Plain)
  BY DEF Text
<1>2. ASSUME NEW p \in Part(role)
      PROVE  /\ TextOf(p) \in Text /\ CallOf(p) \in Seq(Call) /\ ResultOf(p) \in Seq(Plain)
             /\ PartSays(role, p) \in Seq(Happening)
  <2>1. CASE /\ p.text \in Text /\ TextOf(p) = p.text /\ CallOf(p) = <<>> /\ ResultOf(p) = <<>>
             /\ PartSays(role, p) = Told(IF role = "user" THEN "user" ELSE "said", p.text)
    BY <1>1, <2>1, ToldIs
  <2>2. CASE /\ p.id \in Int /\ p.n \in Nat
             /\ TextOf(p) = <<>> /\ CallOf(p) = <<[id |-> p.id, n |-> p.n]>> /\ ResultOf(p) = <<>>
             /\ PartSays(role, p) = <<Event("call", p.n, p.id)>>
    <3>1. [id |-> p.id, n |-> p.n] \in Call  BY <2>2 DEF Call
    <3>2. CallOf(p) \in Seq(Call)  BY <2>2, <3>1, OneType
    <3>3. Event("call", p.n, p.id) \in Happening  BY <2>2, EventType
    <3>4. PartSays(role, p) \in Seq(Happening)  BY <2>2, <3>3, OneType
    <3> QED  BY <1>1, <2>2, <3>2, <3>4
  <2>3. CASE /\ p.id \in Int /\ p.n \in Nat
             /\ TextOf(p) = <<>> /\ CallOf(p) = <<>> /\ ResultOf(p) = <<ToolMessage(p.id, p.n)>>
             /\ PartSays(role, p) = <<Event("result", p.n, p.id)>>
    <3>1. ToolMessage(p.id, p.n) \in Plain  BY <2>3, MessageMakes
    <3>2. ResultOf(p) \in Seq(Plain)  BY <2>3, <3>1, OneType
    <3>3. Event("result", p.n, p.id) \in Happening  BY <2>3, EventType
    <3>4. PartSays(role, p) \in Seq(Happening)  BY <2>3, <3>3, OneType
    <3> QED  BY <1>1, <2>3, <3>2, <3>4
  <2> QED  BY <2>1, <2>2, <2>3, PartCases
<1>3. Gives(TextFn(role), Part(role), Nat)  BY <1>2 DEF Gives, TextFn, Text
<1>4. Gives(CallFn(role), Part(role), Call)  BY <1>2 DEF Gives, CallFn
<1>5. Gives(ResultFn(role), Part(role), Plain)  BY <1>2 DEF Gives, ResultFn
<1>6. Gives(PartFn(role), Part(role), Happening)  BY <1>2 DEF Gives, PartFn
<1> QED  BY <1>3, <1>4, <1>5, <1>6, PlainIsChat, GivesMore

LEMMA PartEach ==
  ASSUME NEW role \in {"user", "assistant"}, NEW s \in Seq(Part(role))
  PROVE  /\ Each(s, TextOf) = FlatMap(TextFn(role), s)
         /\ Each(s, CallOf) = FlatMap(CallFn(role), s)
         /\ Each(s, ResultOf) = FlatMap(ResultFn(role), s)
         /\ \A m : m.role = role /\ m.parts = s => PartsSay(m) = FlatMap(PartFn(role), s)
<1>1. \A i \in DOMAIN s : s[i] \in Part(role)  OBVIOUS
<1>2. [i \in DOMAIN s |-> TextOf(s[i])] = Pieces(TextFn(role), s)
  BY <1>1 DEF Pieces, TextFn
<1>3. [i \in DOMAIN s |-> CallOf(s[i])] = Pieces(CallFn(role), s)
  BY <1>1 DEF Pieces, CallFn
<1>4. [i \in DOMAIN s |-> ResultOf(s[i])] = Pieces(ResultFn(role), s)
  BY <1>1 DEF Pieces, ResultFn
<1>5. [i \in DOMAIN s |-> PartSays(role, s[i])] = Pieces(PartFn(role), s)
  BY <1>1 DEF Pieces, PartFn
<1>6. \A m : m.role = role /\ m.parts = s => PartsSay(m) = FlatMap(PartFn(role), s)
  BY <1>5 DEF PartsSay, Each, FlatMap
<1> QED  BY <1>2, <1>3, <1>4, <1>6 DEF Each, FlatMap

-----------------------------------------------------------------------------
(* Chat messages, and what those see of them that look at some kinds of    *)
(* events only.                                                            *)

LEMMA MessageCases ==
  ASSUME NEW m \in ChatMessage
  PROVE  \/ /\ m.role = "system" /\ m.text \in Text
            /\ MessageSays(m) = Told("system", m.text)
         \/ /\ m.role = "user" /\ m.text \in Text
            /\ MessageSays(m) = Told("user", m.text)
         \/ /\ m.role = "assistant" /\ m.text \in Text /\ m.calls \in Seq(Call)
            /\ MessageSays(m) = Told("said", m.text) \o ToldOf("call", m.calls)
         \/ /\ m.role = "tool" /\ m.id \in Int /\ m.n \in Nat
            /\ MessageSays(m) = <<Event("result", m.n, m.id)>>
<1>1. CASE m \in ToolAnswer
  <2>1. m.role = "tool" /\ m.id \in Int /\ m.n \in Nat  BY <1>1 DEF ToolAnswer
  <2> QED  BY <2>1 DEF MessageSays
<1>2. CASE m \in Speech
  <2>1. m.role \in {"user", "assistant", "system"} /\ m.text \in Text /\ m.calls \in Seq(Call)
    BY <1>2 DEF Speech
  <2> QED  BY <2>1 DEF MessageSays
<1> QED  BY <1>1, <1>2 DEF ChatMessage

LEMMA SaysGives ==
  Gives(SaysFn, ChatMessage, Happening)
<1>1. ASSUME NEW m \in ChatMessage  PROVE MessageSays(m) \in Seq(Happening)
  <2>1. CASE m.text \in Text /\ MessageSays(m) = Told("system", m.text)  BY <2>1, ToldIs
  <2>2. CASE m.text \in Text /\ MessageSays(m) = Told("user", m.text)  BY <2>2, ToldIs
  <2>3. CASE /\ m.text \in Text /\ m.calls \in Seq(Call)
             /\ MessageSays(m) = Told("said", m.text) \o ToldOf("call", m.calls)
    <3>1. Told("said", m.text) \in Seq(Happening)  BY <2>3, ToldIs
    <3>2. ToldOf("call", m.calls) \in Seq(Happening)  BY <2>3, ToldOfIs
    <3> QED  BY <2>3, <3>1, <3>2, ConcatAt
  <2>4. CASE m.id \in Int /\ m.n \in Nat /\ MessageSays(m) = <<Event("result", m.n, m.id)>>
    BY <2>4, EventType, OneType
  <2> QED  BY <2>1, <2>2, <2>3, <2>4, MessageCases
<1> QED  BY <1>1 DEF Gives, SaysFn

LEMMA SaysEach ==
  ASSUME NEW s \in Seq(ChatMessage)
  PROVE  /\ ChatSays(s) = FlatMap(SaysFn, s) /\ Each(s, MessageSays) = FlatMap(SaysFn, s)
         /\ ChatSays(s) \in Seq(Happening)
<1>1. \A i \in DOMAIN s : s[i] \in ChatMessage  OBVIOUS
<1>2. [i \in DOMAIN s |-> MessageSays(s[i])] = Pieces(SaysFn, s)
  BY <1>1 DEF Pieces, SaysFn
<1>3. Each(s, MessageSays) = FlatMap(SaysFn, s)  BY <1>2 DEF Each, FlatMap
<1> QED  BY <1>3, SaysGives, FlatMapType DEF ChatSays

\* A message more, and messages after one another.
LEMMA ChatSaysConcat ==
  ASSUME NEW s \in Seq(ChatMessage), NEW t \in Seq(ChatMessage)
  PROVE  s \o t \in Seq(ChatMessage) /\ ChatSays(s \o t) = ChatSays(s) \o ChatSays(t)
<1>1. s \o t \in Seq(ChatMessage)  OBVIOUS
<1>2. ChatSays(s \o t) = FlatMap(SaysFn, s \o t)  BY <1>1, SaysEach
<1>3. ChatSays(s) = FlatMap(SaysFn, s) /\ ChatSays(t) = FlatMap(SaysFn, t)  BY SaysEach
<1>4. FlatMap(SaysFn, s \o t) = FlatMap(SaysFn, s) \o FlatMap(SaysFn, t)
  BY SaysGives, FlatMapConcat
<1> QED  BY <1>1, <1>2, <1>3, <1>4

LEMMA ChatSaysNone ==
  ChatSays(<<>>) = <<>>
<1>1. <<>> \in Seq(ChatMessage)  OBVIOUS
<1>2. ChatSays(<<>>) = FlatMap(SaysFn, <<>>)  BY <1>1, SaysEach
<1> QED  BY <1>2, FlatMapEmpty

LEMMA ChatSaysOne ==
  ASSUME NEW m \in ChatMessage
  PROVE  ChatSays(<<m>>) = MessageSays(m)
<1>1. ChatSays(<<m>>) = FlatMap(SaysFn, <<m>>)  BY SaysEach, OneType
<1>2. FlatMap(SaysFn, <<m>>) = SaysFn[m]  BY SaysGives, FlatMapOne
<1> QED  BY <1>1, <1>2 DEF SaysFn

\* g sees events of these kinds only.
Sees(g, kinds) ==
  /\ Gives(g, Happening, Happening)
  /\ \A e \in Happening : e.what \notin kinds => g[e] = <<>>

LEMMA SeesConcat ==
  ASSUME NEW kinds, NEW g, Sees(g, kinds)
  PROVE  /\ \A s, t \in Seq(Happening) : FlatMap(g, s \o t) = FlatMap(g, s) \o FlatMap(g, t)
         /\ \A s \in Seq(Happening) : FlatMap(g, s) \in Seq(Happening)
<1>1. Gives(g, Happening, Happening)  BY DEF Sees
<1>2. ASSUME NEW s \in Seq(Happening), NEW t \in Seq(Happening)
      PROVE  FlatMap(g, s \o t) = FlatMap(g, s) \o FlatMap(g, t)
  BY ONLY <1>1, FlatMapConcat
<1>3. \A s \in Seq(Happening) : FlatMap(g, s) \in Seq(Happening)  BY ONLY <1>1, FlatMapType
<1> QED  BY <1>2, <1>3

LEMMA HappeningsConcat ==
  /\ \A s, t, u \in Seq(Happening) : (s \o t) \o u = s \o (t \o u)
  /\ \A s, t \in Seq(Happening) : s \o t \in Seq(Happening)
<1>1. \A s, t, u \in Seq(Happening) : (s \o t) \o u = s \o (t \o u)  BY ONLY Associative
<1>2. \A s, t \in Seq(Happening) : s \o t \in Seq(Happening)  OBVIOUS
<1> QED  BY <1>1, <1>2

\* s has no events of these kinds.
Without(s, kinds) == \A i \in DOMAIN s : s[i].what \notin kinds

LEMMA Unseen ==
  ASSUME NEW kinds, NEW g, Sees(g, kinds), NEW s \in Seq(Happening), Without(s, kinds)
  PROVE  FlatMap(g, s) = <<>>
<1>1. \A i \in 1 .. Len(s) : s[i] \in Happening  OBVIOUS
<1>2. Nothings(g, s)  BY <1>1 DEF Nothings, Sees, Without
<1> QED  BY <1>2, FlatMapNothing DEF Sees

LEMMA WithoutTold ==
  ASSUME NEW kinds, NEW what \in {"user", "system", "said", "call", "result"}, what \notin kinds
  PROVE  /\ \A ns \in Text : Without(Told(what, ns), kinds)
         /\ \A cs \in Seq(Call) : Without(ToldOf(what, cs), kinds)
         /\ \A n \in Nat, id \in Int : Without(<<Event(what, n, id)>>, kinds)
         /\ Without(<<>>, kinds)
<1>1. \A ns \in Text : Without(Told(what, ns), kinds)  BY ToldIs DEF Without
<1>2. \A cs \in Seq(Call) : Without(ToldOf(what, cs), kinds)  BY ToldOfIs DEF Without
<1>3. \A n \in Nat, id \in Int : Without(<<Event(what, n, id)>>, kinds)
  BY EventType DEF Without
<1>4. Without(<<>>, kinds)  BY DEF Without
<1> QED  BY <1>1, <1>2, <1>3, <1>4

Parted(c, a, b, E) == \A e \in E : c[e] = a[e] \o b[e]
Never(f, E, kinds) == \A e \in E : Without(f[e], kinds)

\* From every element something is moved in front.  When g sees only what is
\* moved, or only what stays, this is as good as leaving it where it is.
LEMMA MovedInFront ==
  ASSUME NEW E, NEW a, Gives(a, E, Happening), NEW b, Gives(b, E, Happening),
         NEW c, Gives(c, E, Happening), Parted(c, a, b, E),
         NEW kinds, NEW g, Sees(g, kinds), NEW s \in Seq(E),
         Never(a, E, kinds) \/ Never(b, E, kinds)
  PROVE  FlatMap(g, FlatMap(a, s) \o FlatMap(b, s)) = FlatMap(g, FlatMap(c, s))
<1> DEFINE h == [e \in E |-> FlatMap(g, c[e])]
<1>1. Gives(g, Happening, Happening)  BY DEF Sees
<1>2. \A e \in E : a[e] \in Seq(Happening) /\ b[e] \in Seq(Happening) /\ c[e] \in Seq(Happening)
  BY DEF Gives
<1>3. \A e \in E : FlatMap(g, a[e]) \in Seq(Happening) /\ FlatMap(g, b[e]) \in Seq(Happening)
                     /\ FlatMap(g, c[e]) \in Seq(Happening)
  BY <1>1, <1>2, FlatMapType
<1>4. Gives(h, E, Happening)  BY <1>3 DEF Gives
<1>5. \A e \in E : h[e] = FlatMap(g, c[e])  OBVIOUS
<1> HIDE DEF h
<1>6. ASSUME NEW e \in E  PROVE h[e] = FlatMap(g, a[e]) \o FlatMap(g, b[e])
  <2>1. FlatMap(g, a[e] \o b[e]) = FlatMap(g, a[e]) \o FlatMap(g, b[e])
    BY <1>1, <1>2, FlatMapConcat
  <2>2. c[e] = a[e] \o b[e]  BY DEF Parted
  <2>3. h[e] = FlatMap(g, a[e] \o b[e])  BY <1>5, <2>2
  <2> QED  BY <2>1, <2>3
<1>7. \/ \A e \in E : FlatMap(g, a[e]) = <<>> /\ FlatMap(g, b[e]) = h[e]
      \/ \A e \in E : FlatMap(g, a[e]) = h[e] /\ FlatMap(g, b[e]) = <<>>
  <2>1. CASE Never(a, E, kinds)
    <3>1. \A e \in E : FlatMap(g, a[e]) = <<>>  BY <1>2, <2>1, Unseen DEF Never
    <3>2. ASSUME NEW e \in E  PROVE FlatMap(g, b[e]) = h[e]
      <4>1. h[e] = <<>> \o FlatMap(g, b[e])  BY <1>6, <3>1
      <4> QED  BY <1>3, <4>1, ConcatEmpty
    <3> QED  BY <3>1, <3>2
  <2>2. CASE Never(b, E, kinds)
    <3>1. \A e \in E : FlatMap(g, b[e]) = <<>>  BY <1>2, <2>2, Unseen DEF Never
    <3>2. ASSUME NEW e \in E  PROVE FlatMap(g, a[e]) = h[e]
      <4>1. h[e] = FlatMap(g, a[e]) \o <<>>  BY <1>6, <3>1
      <4> QED  BY <1>3, <4>1, ConcatEmpty
    <3> QED  BY <3>1, <3>2
  <2> QED  BY <2>1, <2>2
<1>8. FlatMap(g, FlatMap(a, s) \o FlatMap(b, s)) = FlatMap(h, s)
  BY <1>1, <1>4, <1>7, MovedApart
<1>9. FlatMap(g, FlatMap(c, s)) = FlatMap(h, s)  BY <1>1, <1>4, <1>5, FlatMapTwice
<1> QED  BY <1>8, <1>9

-----------------------------------------------------------------------------
(* From the Responses API to chat messages.                                *)

\* Told of no text.
LEMMA ToldNothing ==
  \A what : Told(what, <<>>) = <<>> /\ ToldOf(what, <<>>) = <<>>
BY DEF Told, ToldOf

LEMMA ItemTells ==
  ASSUME NEW i \in Item
  PROVE  /\ Told("system", DirectionOf(i)) \in Seq(Happening)
         /\ ChatSays(OfItem(i)) \in Seq(Happening)
         /\ ItemSays(i) = Told("system", DirectionOf(i)) \o ChatSays(OfItem(i))
         /\ Without(ChatSays(OfItem(i)), {"system"})
<1>1. DirectionOf(i) \in Text /\ OfItem(i) \in Seq(ChatMessage) /\ ItemSays(i) \in Seq(Happening)
  BY ItemGives DEF Gives, DirectionFn, OfItemFn, ItemSaysFn, Text
<1>2. Told("system", DirectionOf(i)) \in Seq(Happening)  BY <1>1, ToldIs
<1>3. ChatSays(OfItem(i)) \in Seq(Happening)  BY <1>1, SaysEach
<1>4. ChatSays(<<>>) = <<>> /\ Told("system", <<>>) = <<>>
  BY ChatSaysNone, ToldNothing
<1>5. CASE OfItem(i) = <<>> /\ ItemSays(i) = Told("system", DirectionOf(i))
  <2>1. ChatSays(OfItem(i)) = <<>>  BY <1>4, <1>5
  <2>2. ItemSays(i) = Told("system", DirectionOf(i)) \o <<>>  BY <1>1, <1>5, ConcatEmpty
  <2> QED  BY <1>2, <1>3, <2>1, <2>2, WithoutTold
<1>6. CASE /\ DirectionOf(i) = <<>>
           /\ ChatSays(OfItem(i)) = ItemSays(i) /\ Without(ItemSays(i), {"system"})
  <2>1. ItemSays(i) = <<>> \o ItemSays(i)  BY <1>1, ConcatEmpty
  <2>2. Told("system", DirectionOf(i)) = <<>>  BY <1>4, <1>6
  <2> QED  BY <1>2, <1>3, <1>6, <2>1, <2>2
<1>7. CASE /\ i.role \in {"user", "assistant"} /\ i.text \in Text
           /\ DirectionOf(i) = <<>> /\ OfItem(i) = <<Message(i.role, i.text, <<>>)>>
           /\ ItemSays(i) = Told(IF i.role = "user" THEN "user" ELSE "said", i.text)
  <2> DEFINE m == Message(i.role, i.text, <<>>)
  <2>1. m \in ChatMessage  BY <1>7, MessageMakes, <<>> \in Seq(Call)
  <2>2. ChatSays(OfItem(i)) = MessageSays(m)  BY <1>7, <2>1, ChatSaysOne
  <2>3. m.role = i.role /\ m.text = i.text /\ m.calls = <<>>  BY DEF Message
  <2>4. ToldOf("call", <<>>) = <<>>  BY ToldNothing
  <2> HIDE DEF m
  <2>5. CASE i.role = "user"
    <3>1. MessageSays(m) = ItemSays(i)  BY <1>7, <2>3, <2>5 DEF MessageSays
    <3>2. Without(ItemSays(i), {"system"})  BY <1>7, <2>5, WithoutTold
    <3> QED  BY <1>6, <1>7, <2>2, <3>1, <3>2
  <2>6. CASE i.role = "assistant"
    <3>1. MessageSays(m) = ItemSays(i) \o <<>>  BY <1>7, <2>3, <2>4, <2>6 DEF MessageSays
    <3>2. Without(ItemSays(i), {"system"})  BY <1>7, <2>6, WithoutTold
    <3>3. MessageSays(m) = ItemSays(i)  BY <1>1, <3>1, ConcatEmpty
    <3> QED  BY <1>6, <1>7, <2>2, <3>2, <3>3
  <2> QED  BY <1>7, <2>5, <2>6
<1>8. CASE /\ i.id \in Int /\ i.n \in Nat /\ DirectionOf(i) = <<>>
           /\ OfItem(i) = <<Message("assistant", <<>>, <<[id |-> i.id, n |-> i.n]>>)>>
           /\ ItemSays(i) = <<Event("call", i.n, i.id)>>
  <2> DEFINE m == Message("assistant", <<>>, <<[id |-> i.id, n |-> i.n]>>)
  <2>1. [id |-> i.id, n |-> i.n] \in Call  BY <1>8 DEF Call
  <2>2. m \in ChatMessage  BY <2>1, OneType, MessageMakes, <<>> \in Text DEF Text
  <2>3. ChatSays(OfItem(i)) = MessageSays(m)  BY <1>8, <2>2, ChatSaysOne
  <2>4. m.role = "assistant" /\ m.text = <<>> /\ m.calls = <<[id |-> i.id, n |-> i.n]>>
    BY DEF Message
  <2>5. ToldOf("call", <<[id |-> i.id, n |-> i.n]>>) = <<Event("call", i.n, i.id)>>
    BY DEF ToldOf
  <2>6. Told("said", <<>>) = <<>>  BY ToldNothing
  <2> HIDE DEF m
  <2>7. MessageSays(m) = <<>> \o ItemSays(i)  BY <1>8, <2>4, <2>5, <2>6 DEF MessageSays
  <2>8. MessageSays(m) = ItemSays(i)  BY <1>1, <2>7, ConcatEmpty
  <2>9. Without(ItemSays(i), {"system"})  BY <1>8, WithoutTold
  <2> QED  BY <1>6, <1>8, <2>3, <2>8, <2>9
<1>9. CASE /\ i.id \in Int /\ i.n \in Nat /\ DirectionOf(i) = <<>>
           /\ OfItem(i) = <<ToolMessage(i.id, i.n)>>
           /\ ItemSays(i) = <<Event("result", i.n, i.id)>>
  <2> DEFINE m == ToolMessage(i.id, i.n)
  <2>1. m \in ChatMessage  BY <1>9, MessageMakes, PlainIsChat
  <2>2. ChatSays(OfItem(i)) = MessageSays(m)  BY <1>9, <2>1, ChatSaysOne
  <2>3. m.role = "tool" /\ m.id = i.id /\ m.n = i.n  BY DEF ToolMessage
  <2> HIDE DEF m
  <2>4. MessageSays(m) = ItemSays(i)  BY <1>9, <2>3 DEF MessageSays
  <2>5. Without(ItemSays(i), {"system"})  BY <1>9, WithoutTold
  <2> QED  BY <1>6, <1>9, <2>2, <2>4, <2>5
<1> QED  BY <1>5, <1>7, <1>8, <1>9, ItemCases

\* Kinds of events that are either directions or no directions.
LEMMA KindsApart ==
  ASSUME NEW kinds \in Kinds
  PROVE  /\ kinds = {"system"} \/ "system" \notin kinds
         /\ \/ kinds = {"user", "said"}
            \/ "user" \notin kinds /\ "said" \notin kinds
BY DEF Kinds

LEMMA HintIs ==
  ASSUME hinted \in BOOLEAN
  PROVE  HintText \in Text /\ HintSays \in Seq(Happening) /\ (~hinted => HintText = <<>>)
<1>1. HintText \in Text
  <2>1. Hint \in Nat  BY DEF Hint
  <2> QED  BY <2>1, WhenType DEF HintText, Text
<1>2. ~hinted => HintText = <<>>  BY DEF HintText, When
<1> QED  BY <1>1, <1>2, ToldIs DEF HintSays

LEMMA TextConcat ==
  ASSUME NEW s \in Text, NEW t \in Text
  PROVE  s \o t \in Text /\ Told("system", s \o t) = Told("system", s) \o Told("system", t)
<1>1. s \in Seq(Nat) /\ t \in Seq(Nat) /\ s \o t \in Text  BY DEF Text
<1>2. Gives(TellFn("system"), Nat, Happening)  BY ToldIs
<1>3. FlatMap(TellFn("system"), s \o t) = FlatMap(TellFn("system"), s) \o FlatMap(TellFn("system"), t)
  BY ONLY <1>1, <1>2, FlatMapConcat, SMTT(30)
<1> QED  BY <1>1, <1>3, ToldIs

\* The one system message, and whether there is one.
Leading == (system \o Each(history, DirectionOf)) \o HintText
HasLeading == system # <<>> \/ hinted \/ \E k \in DOMAIN history : IsDirection(history[k])

LEMMA ItemsPlain ==
  ASSUME history \in Seq(Item)
  PROVE  /\ Each(history, DirectionOf) \in Text
         /\ Each(history, OfItem) \in Seq(Plain) /\ Each(history, OfItem) \in Seq(ChatMessage)
         /\ (\A k \in DOMAIN history : ~IsDirection(history[k])) =>
              Each(history, DirectionOf) = <<>>
<1>1. /\ Each(history, DirectionOf) = FlatMap(DirectionFn, history)
      /\ Each(history, OfItem) = FlatMap(OfItemFn, history)
  BY ItemEach
<1>2. /\ FlatMap(DirectionFn, history) \in Text
      /\ FlatMap(OfItemFn, history) \in Seq(Plain) /\ FlatMap(OfItemFn, history) \in Seq(ChatMessage)
  BY ItemGives, FlatMapType DEF Text
<1>3. ASSUME \A k \in DOMAIN history : ~IsDirection(history[k])
      PROVE  FlatMap(DirectionFn, history) = <<>>
  <2>1. \A i \in 1 .. Len(history) : history[i] \in Item /\ ~IsDirection(history[i])  BY <1>3
  <2>2. Nothings(DirectionFn, history)  BY <2>1 DEF Nothings, DirectionFn, DirectionOf
  <2> QED  BY <2>2, ItemGives, FlatMapNothing
<1> QED  BY <1>1, <1>2, <1>3

\* Wherever the hint goes, it ends up in the one system message.
LEMMA ResponsesToChatIs ==
  ASSUME history \in Seq(Item), system \in Text, hinted \in BOOLEAN
  PROVE  /\ Leading \in Text /\ (~HasLeading => Leading = <<>>)
         /\ ResponsesToChat =
              When(HasLeading, Message("system", Leading, <<>>)) \o Each(history, OfItem)
<1> DEFINE d == system \o Each(history, DirectionOf)
           o == Each(history, OfItem)
           some == system # <<>> \/ \E k \in DOMAIN history : IsDirection(history[k])
           m == Message("system", d, <<>>)
           l == Message("system", d \o HintText, <<>>)
           n == Message("system", HintText, <<>>)
<1>1. d \in Text /\ HintText \in Text /\ o \in Seq(Plain)
  BY ItemsPlain, TextConcat, HintIs
<1>2. d \o HintText \in Text /\ Leading = d \o HintText  BY <1>1, TextConcat DEF Leading
<1>3. Merged = When(some, m) \o o  BY DEF Merged
<1>4. ~some => d = <<>>
  <2>1. ASSUME ~some  PROVE system = <<>> /\ Each(history, DirectionOf) = <<>>
    BY <2>1, ItemsPlain
  <2>2. <<>> \o <<>> = <<>>  OBVIOUS
  <2> QED  BY <2>1, <2>2
<1>5. HasLeading <=> some \/ hinted  BY DEF HasLeading
<1>6. m.role = "system" /\ [m EXCEPT !.text = m.text \o HintText] = l
  <2>1. \A t : /\ Message("system", t, <<>>).role = "system"
               /\ Message("system", t, <<>>).text = t
    BY DEF Message
  <2>2. \A t, v : [Message("system", t, <<>>) EXCEPT !.text = v] = Message("system", v, <<>>)
    BY DEF Message
  <2> HIDE DEF d
  <2>3. m.role = "system" /\ m.text = d  BY <2>1
  <2> QED  BY <2>2, <2>3
<1>7. d = <<>> => l = n /\ d \o HintText = HintText
  <2>1. <<>> \o HintText = HintText  BY <1>1 DEF Text
  <2> QED  BY <2>1
<1> HIDE DEF d, o, some, m, l, n
<1>8. ~HasLeading => Leading = <<>>
  <2>1. ASSUME ~HasLeading  PROVE Leading = <<>>
    <3>1. d = <<>> /\ HintText = <<>>  BY <1>4, <1>5, <2>1, HintIs
    <3> QED  BY <1>2, <1>7, <3>1
  <2> QED  BY <2>1
<1>9. ResponsesToChat = When(HasLeading, l) \o o
  <2>1. CASE ~hinted
    <3>1. ResponsesToChat = When(some, m) \o o  BY <1>3, <2>1 DEF ResponsesToChat
    <3>2. d \o HintText = d
      <4>1. d \o <<>> = d  BY <1>1 DEF Text
      <4> QED  BY <2>1, <4>1, HintIs
    <3>3. l = m  BY <3>2 DEF l, m
    <3>4. HasLeading = some  BY <1>5, <2>1 DEF HasLeading, some
    <3> QED  BY <3>1, <3>3, <3>4
  <2>2. CASE hinted /\ some
    <3>1. Merged = <<m>> \o o  BY <1>3, <2>2 DEF When
    <3>2. Merged # <<>> /\ Head(Merged) = m /\ Tail(Merged) = o
      <4>1. ASSUME NEW S, NEW x \in S, NEW t \in Seq(S)
            PROVE  <<x>> \o t # <<>> /\ Head(<<x>> \o t) = x /\ Tail(<<x>> \o t) = t
        <5>1. <<x>> \o t # <<>> /\ Head(<<x>> \o t) = x  OBVIOUS
        <5>2. Tail(<<x>> \o t) = t  OBVIOUS
        <5> QED  BY <5>1, <5>2
      <4>2. o \in Seq(ChatMessage \cup {m}) /\ m \in ChatMessage \cup {m}
        BY <1>1 DEF Plain
      <4> QED  BY <3>1, <4>1, <4>2
    <3>3. WithHint(Merged) = <<l>> \o o  BY <1>6, <3>2 DEF WithHint
    <3> QED  BY <1>5, <2>2, <3>3 DEF ResponsesToChat, When
  <2>3. CASE hinted /\ ~some
    <3>1. Merged = o
      <4>1. <<>> \o o = o  BY <1>1
      <4> QED  BY <1>3, <2>3, <4>1 DEF When
    <3>2. ~(Merged # <<>> /\ Head(Merged).role = "system")
      <4>1. o # <<>> => Head(o) \in Plain  BY <1>1
      <4> QED  BY <3>1, <4>1 DEF Plain
    <3>3. WithHint(Merged) = <<n>> \o o  BY <3>1, <3>2 DEF WithHint, n
    <3>4. l = n  BY <1>4, <1>7, <2>3
    <3> QED  BY <1>5, <2>3, <3>3, <3>4 DEF ResponsesToChat, When
  <2> QED  BY <2>1, <2>2, <2>3
<1> QED  BY <1>2, <1>8, <1>9 DEF l, o

\* What tells no directions may go before or after what tells only directions.
MayMove(s, a, b, h) == ((s \o a) \o h) \o b = (s \o (a \o b)) \o h

LEMMA HintLast ==
  ASSUME NEW s \in Seq(Happening), NEW a \in Seq(Happening), NEW b \in Seq(Happening),
         NEW h \in Seq(Happening), b = <<>> \/ h = <<>>
  PROVE  MayMove(s, a, b, h)
<1> USE DEF MayMove
<1>1. CASE b = <<>>
  <2>1. ((s \o a) \o h) \in Seq(Happening) /\ s \o a \in Seq(Happening)  BY HappeningsConcat
  <2>2. ((s \o a) \o h) \o <<>> = (s \o a) \o h /\ a \o <<>> = a  BY <2>1, ConcatEmpty
  <2> QED  BY <1>1, <2>2
<1>2. CASE h = <<>>
  <2>1. s \o a \in Seq(Happening) /\ s \o (a \o b) \in Seq(Happening)
    BY HappeningsConcat
  <2>2. (s \o a) \o <<>> = s \o a /\ (s \o (a \o b)) \o <<>> = s \o (a \o b)
    BY <2>1, ConcatEmpty
  <2>3. (s \o a) \o b = s \o (a \o b)  BY HappeningsConcat
  <2> QED  BY <1>2, <2>2, <2>3
<1> QED  BY <1>1, <1>2

LEMMA ResponsesTell ==
  ASSUME history \in Seq(Item), system \in Text, hinted \in BOOLEAN,
         NEW kinds \in Kinds, NEW g, Sees(g, kinds)
  PROVE  /\ ResponsesToChat \in Seq(ChatMessage)
         /\ FlatMap(g, ChatSays(ResponsesToChat))
              = FlatMap(g, (Told("system", system) \o Each(history, ItemSays)) \o HintSays)
<1> DEFINE a == [i \in Item |-> Told("system", DirectionOf(i))]
           b == [i \in Item |-> ChatSays(OfItem(i))]
           d == Each(history, DirectionOf)
           o == Each(history, OfItem)
           m == Message("system", Leading, <<>>)
           w == When(HasLeading, m)
           t == Told("system", system)
           p == Each(history, ItemSays)
<1>1. /\ d = FlatMap(DirectionFn, history) /\ o = FlatMap(OfItemFn, history)
      /\ p = FlatMap(ItemSaysFn, history)
  BY ItemEach
<1>2. d \in Text /\ o \in Seq(ChatMessage) /\ HintText \in Text /\ HintSays \in Seq(Happening)
  BY ItemsPlain, HintIs
<1>3. Leading \in Text /\ (~HasLeading => Leading = <<>>) /\ ResponsesToChat = w \o o
  BY ResponsesToChatIs
<1>4. Gives(a, Item, Happening) /\ Gives(b, Item, Happening)
  BY ItemTells DEF Gives
<1>5. \A i \in Item : /\ a[i] = Told("system", DirectionOf(i)) /\ b[i] = ChatSays(OfItem(i))
                      /\ ItemSaysFn[i] = ItemSays(i)
  BY DEF ItemSaysFn
<1>6. t \in Seq(Happening)  BY ToldIs
<1>7. m \in ChatMessage /\ m.role = "system" /\ m.text = Leading
  BY <1>3, MessageMakes, <<>> \in Seq(Call) DEF Message
<1>8. w \in Seq(ChatMessage) /\ ChatSays(w) = Told("system", Leading)
  <2>1. CASE HasLeading
    <3>1. w = <<m>>  BY <2>1 DEF When
    <3>2. <<m>> \in Seq(ChatMessage) /\ ChatSays(<<m>>) = MessageSays(m)
      BY <1>7, OneType, ChatSaysOne
    <3>3. MessageSays(m) = Told("system", Leading)  BY <1>7 DEF MessageSays
    <3> QED  BY <3>1, <3>2, <3>3
  <2>2. CASE ~HasLeading
    <3>1. w = <<>> /\ <<>> \in Seq(ChatMessage)  BY <2>2 DEF When
    <3> QED  BY <1>3, <2>2, <3>1, ChatSaysNone, ToldNothing
  <2> QED  BY <2>1, <2>2
<1> HIDE DEF a, b, d, o, m, w, t, p
<1> DEFINE A == FlatMap(a, history)
           B == FlatMap(b, history)
<1>9. A = Told("system", d) /\ A \in Seq(Happening)
  <2>1. Gives(TellFn("system"), Nat, Happening) /\ Told("system", d) = FlatMap(TellFn("system"), d)
    BY <1>2, ToldIs
  <2>2. \A i \in Item : a[i] = FlatMap(TellFn("system"), DirectionFn[i])
    <3> SUFFICES ASSUME NEW i \in Item  PROVE a[i] = FlatMap(TellFn("system"), DirectionFn[i])
      OBVIOUS
    <3>1. DirectionFn[i] = DirectionOf(i) /\ DirectionFn[i] \in Text
      BY ItemGives DEF DirectionFn, Gives, Text
    <3>2. Told("system", DirectionOf(i)) = FlatMap(TellFn("system"), DirectionOf(i))
      BY <3>1, ToldIs
    <3> QED  BY <1>5, <3>1, <3>2
  <2>3. A = FlatMap(TellFn("system"), d)
    BY <1>1, <1>4, <2>1, <2>2, ItemGives, FlatMapTwice
  <2>4. Told("system", d) \in Seq(Happening)  BY <1>2, ToldIs
  <2> QED  BY <2>1, <2>3, <2>4
<1>10. B = ChatSays(o) /\ B \in Seq(Happening)
  <2>1. \A i \in Item : b[i] = FlatMap(SaysFn, OfItemFn[i])
    <3> SUFFICES ASSUME NEW i \in Item  PROVE b[i] = FlatMap(SaysFn, OfItemFn[i])
      OBVIOUS
    <3>1. OfItemFn[i] = OfItem(i) /\ OfItemFn[i] \in Seq(ChatMessage)
      BY ItemGives DEF OfItemFn, Gives
    <3> QED  BY <1>5, <3>1, SaysEach
  <2>2. FlatMap(SaysFn, FlatMap(OfItemFn, history)) = FlatMap(b, history)
    BY <1>4, <2>1, ItemGives, SaysGives, FlatMapTwice
  <2>3. B = ChatSays(o)  BY <1>1, <1>2, <2>2, SaysEach
  <2>4. ChatSays(o) \in Seq(Happening)  BY <1>2, SaysEach
  <2> QED  BY <2>3, <2>4
<1>11. p = FlatMap(ItemSaysFn, history) /\ p \in Seq(Happening)
  BY <1>1, ItemGives, FlatMapType
<1>12. FlatMap(g, A \o B) = FlatMap(g, p)
  <2>1. Parted(ItemSaysFn, a, b, Item)  BY <1>5, ItemTells DEF Parted
  <2>2. Never(a, Item, kinds) \/ Never(b, Item, kinds)
    <3>1. CASE kinds = {"system"}  BY <1>5, <3>1, ItemTells DEF Never
    <3>2. CASE "system" \notin kinds
      <4>1. \A i \in Item : DirectionOf(i) \in Text
        BY ItemGives DEF DirectionFn, Gives, Text
      <4> QED  BY <1>5, <3>2, <4>1, WithoutTold DEF Never
    <3> QED  BY <3>1, <3>2, KindsApart
  <2> QED  BY <1>4, <1>11, <2>1, <2>2, ItemGives, MovedInFront
<1>13. FlatMap(g, B) = <<>> \/ FlatMap(g, HintSays) = <<>>
  <2>1. CASE "system" \notin kinds
    <3>1. Without(HintSays, kinds)  BY <1>2, <2>1, WithoutTold DEF HintSays
    <3> QED  BY <1>2, <3>1, Unseen
  <2>2. CASE kinds = {"system"}
    <3> DEFINE h == [i \in Item |-> FlatMap(g, b[i])]
    <3>1. Gives(g, Happening, Happening)  BY DEF Sees
    <3>2. \A i \in Item : b[i] \in Seq(Happening) /\ Without(b[i], kinds)
      BY <1>5, <2>2, ItemTells
    <3>3. \A i \in Item : h[i] = <<>> /\ h[i] = FlatMap(g, b[i])  BY <3>2, Unseen
    <3>4. Gives(h, Item, Happening)
      <4>1. <<>> \in Seq(Happening)  OBVIOUS
      <4> QED  BY <3>3, <4>1 DEF Gives
    <3> HIDE DEF h
    <3>5. FlatMap(g, B) = FlatMap(h, history)  BY <1>4, <3>1, <3>3, <3>4, FlatMapTwice
    <3>6. \A i \in 1 .. Len(history) : history[i] \in Item  OBVIOUS
    <3>7. Nothings(h, history)  BY <3>3, <3>6 DEF Nothings
    <3> QED  BY <3>4, <3>5, <3>7, FlatMapNothing
  <2> QED  BY <2>1, <2>2, KindsApart
<1>14. Told("system", Leading) = (t \o A) \o HintSays
  <2>1. system \o d \in Text /\ Told("system", system \o d) = t \o A
    BY <1>2, <1>9, TextConcat DEF t
  <2> QED  BY <1>2, <2>1, TextConcat DEF Leading, HintSays, d
<1>15. /\ ResponsesToChat \in Seq(ChatMessage)
       /\ ChatSays(ResponsesToChat) = ((t \o A) \o HintSays) \o B
  <2>1. w \o o \in Seq(ChatMessage) /\ ChatSays(w \o o) = ChatSays(w) \o ChatSays(o)
    BY <1>2, <1>8, ChatSaysConcat
  <2> QED  BY <1>3, <1>8, <1>10, <1>14, <2>1
<1> HIDE DEF A, B
<1> DEFINE F(s) == FlatMap(g, s)
<1>16. /\ \A r, s \in Seq(Happening) : F(r \o s) = F(r) \o F(s)
       /\ \A s \in Seq(Happening) : F(s) \in Seq(Happening)
  BY SeesConcat
<1>17. t \o A \in Seq(Happening) /\ (t \o A) \o HintSays \in Seq(Happening) /\ t \o p \in Seq(Happening)
       /\ A \o B \in Seq(Happening)
  BY <1>2, <1>6, <1>9, <1>10, <1>11, HappeningsConcat
<1> HIDE DEF F
<1>18. F(((t \o A) \o HintSays) \o B) = ((F(t) \o F(A)) \o F(HintSays)) \o F(B)
  <2>1. F(((t \o A) \o HintSays) \o B) = F((t \o A) \o HintSays) \o F(B)  BY <1>10, <1>16, <1>17
  <2>2. F((t \o A) \o HintSays) = F(t \o A) \o F(HintSays)  BY <1>2, <1>16, <1>17
  <2>3. F(t \o A) = F(t) \o F(A)  BY <1>6, <1>9, <1>16
  <2> QED  BY <2>1, <2>2, <2>3
<1>19. F((t \o p) \o HintSays) = (F(t) \o (F(A) \o F(B))) \o F(HintSays)
  <2>1. F((t \o p) \o HintSays) = F(t \o p) \o F(HintSays)  BY <1>2, <1>16, <1>17
  <2>2. F(t \o p) = F(t) \o F(p)  BY <1>6, <1>11, <1>16
  <2>3. F(A \o B) = F(A) \o F(B)  BY <1>9, <1>10, <1>16
  <2>4. F(p) = F(A \o B)  BY <1>12 DEF F
  <2> QED  BY <2>1, <2>2, <2>3, <2>4
<1>20. ((F(t) \o F(A)) \o F(HintSays)) \o F(B) = (F(t) \o (F(A) \o F(B))) \o F(HintSays)
  <2>1. /\ F(t) \in Seq(Happening) /\ F(A) \in Seq(Happening) /\ F(B) \in Seq(Happening)
        /\ F(HintSays) \in Seq(Happening)
    BY <1>2, <1>6, <1>9, <1>10, <1>16
  <2>2. F(B) = <<>> \/ F(HintSays) = <<>>  BY <1>13 DEF F
  <2> DEFINE ft == F(t)
             fa == F(A)
             fb == F(B)
             fh == F(HintSays)
  <2>3. /\ ft \in Seq(Happening) /\ fa \in Seq(Happening) /\ fb \in Seq(Happening)
        /\ fh \in Seq(Happening) /\ (fb = <<>> \/ fh = <<>>)
    BY <2>1, <2>2
  <2> HIDE DEF ft, fa, fb, fh
  <2>4. MayMove(ft, fa, fb, fh)  BY ONLY <2>3, HintLast
  <2> QED  BY <2>4 DEF MayMove, ft, fa, fb, fh
<1>21. F(ChatSays(ResponsesToChat)) = F((t \o p) \o HintSays)
  <2>1. F(ChatSays(ResponsesToChat)) = F(((t \o A) \o HintSays) \o B)  BY <1>15 DEF F
  <2> QED  BY ONLY <2>1, <1>18, <1>19, <1>20
<1> QED  BY <1>15, <1>21 DEF F, t, p

-----------------------------------------------------------------------------
(* From messages with parts to chat messages.                              *)

\* Who speaks in the text of a message, and what else its parts tell.
Speaks(role)  == IF role = "user" THEN "user" ELSE "said"
Rest(role, p) ==
  IF role = "assistant" THEN ToldOf("call", CallOf(p)) ELSE ChatSays(ResultOf(p))

LEMMA PartTells ==
  ASSUME NEW role \in {"user", "assistant"}, NEW p \in Part(role)
  PROVE  /\ Told(Speaks(role), TextOf(p)) \in Seq(Happening)
         /\ Rest(role, p) \in Seq(Happening)
         /\ PartSays(role, p) = Told(Speaks(role), TextOf(p)) \o Rest(role, p)
         /\ Without(Rest(role, p), {"user", "said"})
<1>1. /\ TextOf(p) \in Text /\ CallOf(p) \in Seq(Call) /\ ResultOf(p) \in Seq(ChatMessage)
      /\ PartSays(role, p) \in Seq(Happening)
  BY PartGives DEF Gives, TextFn, CallFn, ResultFn, PartFn, Text
<1>2. Speaks(role) \in {"user", "said"}  BY DEF Speaks
<1>3. Told(Speaks(role), TextOf(p)) \in Seq(Happening)  BY <1>1, <1>2, ToldIs
<1>4. Rest(role, p) \in Seq(Happening)
  <2>1. ToldOf("call", CallOf(p)) \in Seq(Happening)  BY <1>1, ToldOfIs
  <2>2. ChatSays(ResultOf(p)) \in Seq(Happening)  BY <1>1, SaysEach
  <2> QED  BY <2>1, <2>2 DEF Rest
<1>5. CASE /\ TextOf(p) = p.text /\ CallOf(p) = <<>> /\ ResultOf(p) = <<>>
           /\ PartSays(role, p) = Told(Speaks(role), p.text)
  <2>1. Rest(role, p) = <<>>  BY <1>5, ToldNothing, ChatSaysNone DEF Rest
  <2>2. Told(Speaks(role), TextOf(p)) = PartSays(role, p)  BY <1>5
  <2>3. PartSays(role, p) = PartSays(role, p) \o <<>>  BY <1>1, ConcatEmpty
  <2> QED  BY <1>3, <1>4, <2>1, <2>2, <2>3, WithoutTold
<1>6. CASE TextOf(p) = <<>> /\ Rest(role, p) = PartSays(role, p)
             /\ Without(PartSays(role, p), {"user", "said"})
  <2>1. Told(Speaks(role), TextOf(p)) = <<>>  BY <1>6, ToldNothing
  <2>2. PartSays(role, p) = <<>> \o PartSays(role, p)  BY <1>1, ConcatEmpty
  <2> QED  BY <1>3, <1>4, <1>6, <2>1, <2>2
<1>7. CASE /\ role = "assistant" /\ p.id \in Int /\ p.n \in Nat
           /\ TextOf(p) = <<>> /\ CallOf(p) = <<[id |-> p.id, n |-> p.n]>>
           /\ PartSays(role, p) = <<Event("call", p.n, p.id)>>
  <2>1. ToldOf("call", <<[id |-> p.id, n |-> p.n]>>) = <<Event("call", p.n, p.id)>>
    BY DEF ToldOf
  <2>2. Rest(role, p) = PartSays(role, p)  BY <1>7, <2>1 DEF Rest
  <2>3. Without(PartSays(role, p), {"user", "said"})  BY <1>7, WithoutTold
  <2> QED  BY <1>6, <1>7, <2>2, <2>3
<1>8. CASE /\ role = "user" /\ p.id \in Int /\ p.n \in Nat
           /\ TextOf(p) = <<>> /\ ResultOf(p) = <<ToolMessage(p.id, p.n)>>
           /\ PartSays(role, p) = <<Event("result", p.n, p.id)>>
  <2> DEFINE m == ToolMessage(p.id, p.n)
  <2>1. m \in ChatMessage  BY <1>8, MessageMakes, PlainIsChat
  <2>2. m.role = "tool" /\ m.id = p.id /\ m.n = p.n  BY DEF ToolMessage
  <2>3. Rest(role, p) = ChatSays(<<m>>)  BY <1>8 DEF Rest
  <2> HIDE DEF m
  <2>4. Rest(role, p) = MessageSays(m)  BY <2>1, <2>3, ChatSaysOne
  <2>5. MessageSays(m) = PartSays(role, p)  BY <1>8, <2>2 DEF MessageSays
  <2>6. Without(PartSays(role, p), {"user", "said"})  BY <1>8, WithoutTold
  <2> QED  BY <1>6, <1>8, <2>4, <2>5, <2>6
<1> QED  BY <1>5, <1>7, <1>8, PartCases DEF Speaks

\* Without a text part there is no text.
LEMMA PartsText ==
  ASSUME NEW role \in {"user", "assistant"}, NEW s \in Seq(Part(role)),
         ~ \E k \in DOMAIN s : s[k].type = "text"
  PROVE  Each(s, TextOf) = <<>>
<1>1. \A i \in 1 .. Len(s) : s[i] \in Part(role) /\ s[i].type # "text"  OBVIOUS
<1>2. Nothings(TextFn(role), s)  BY <1>1 DEF Nothings, TextFn, TextOf
<1>3. FlatMap(TextFn(role), s) = <<>>  BY <1>2, PartGives, FlatMapNothing
<1> QED  BY <1>3, PartEach

\* What the parts of one role tell, with the text in front of the rest.
LEMMA PartsApart ==
  ASSUME NEW role \in {"user", "assistant"}, NEW s \in Seq(Part(role)),
         NEW kinds \in Kinds, NEW g, Sees(g, kinds), NEW r,
         r = IF role = "assistant" THEN ToldOf("call", Each(s, CallOf))
             ELSE ChatSays(Each(s, ResultOf))
  PROVE  FlatMap(g, Told(Speaks(role), Each(s, TextOf)) \o r) = FlatMap(g, FlatMap(PartFn(role), s))
<1> DEFINE P == Part(role)
           a == [p \in P |-> Told(Speaks(role), TextOf(p))]
           b == [p \in P |-> Rest(role, p)]
           w == Speaks(role)
<1>1. Gives(a, P, Happening) /\ Gives(b, P, Happening)  BY PartTells DEF Gives
<1>2. \A p \in P : /\ a[p] = Told(w, TextOf(p)) /\ b[p] = Rest(role, p)
                   /\ PartFn(role)[p] = PartSays(role, p)
  BY DEF PartFn
<1>3. w \in {"user", "said"}  BY DEF Speaks
<1>4. \A p \in P : /\ TextFn(role)[p] = TextOf(p) /\ CallFn(role)[p] = CallOf(p)
                   /\ ResultFn(role)[p] = ResultOf(p)
                   /\ TextOf(p) \in Text /\ CallOf(p) \in Seq(Call)
                   /\ ResultOf(p) \in Seq(ChatMessage)
  BY PartGives DEF Gives, TextFn, CallFn, ResultFn, Text
<1>5. /\ Each(s, TextOf) = FlatMap(TextFn(role), s) /\ Each(s, CallOf) = FlatMap(CallFn(role), s)
      /\ Each(s, ResultOf) = FlatMap(ResultFn(role), s)
  BY PartEach
<1>6. /\ Each(s, TextOf) \in Text /\ Each(s, CallOf) \in Seq(Call)
      /\ Each(s, ResultOf) \in Seq(ChatMessage)
  BY <1>5, PartGives, FlatMapType DEF Text
<1> HIDE DEF a, b, w
<1>7. FlatMap(a, s) = Told(w, Each(s, TextOf))
  <2>1. Gives(TellFn(w), Nat, Happening)
    BY <1>3, <1>6, ToldIs
  <2>2. \A p \in P : a[p] = FlatMap(TellFn(w), TextFn(role)[p])
    BY <1>2, <1>3, <1>4, ToldIs
  <2>3. FlatMap(TellFn(w), FlatMap(TextFn(role), s)) = FlatMap(a, s)
    BY <1>1, <2>1, <2>2, PartGives, FlatMapTwice
  <2> QED  BY <1>3, <1>5, <1>6, <2>3, ToldIs
<1>8. FlatMap(b, s) = r
  <2>1. CASE role = "assistant"
    <3>1. Gives(TellCallFn("call"), Call, Happening)  BY <1>6, ToldOfIs
    <3>2. \A p \in P : b[p] = FlatMap(TellCallFn("call"), CallFn(role)[p])
      BY <1>2, <1>4, <2>1, ToldOfIs DEF Rest
    <3>3. FlatMap(TellCallFn("call"), FlatMap(CallFn(role), s)) = FlatMap(b, s)
      BY <1>1, <3>1, <3>2, PartGives, FlatMapTwice
    <3> QED  BY <1>5, <1>6, <2>1, <3>3, ToldOfIs
  <2>2. CASE role = "user"
    <3>1. \A p \in P : b[p] = FlatMap(SaysFn, ResultFn(role)[p])
      BY <1>2, <1>4, <2>2, SaysEach DEF Rest
    <3>2. FlatMap(SaysFn, FlatMap(ResultFn(role), s)) = FlatMap(b, s)
      BY <1>1, <3>1, PartGives, SaysGives, FlatMapTwice
    <3> QED  BY <1>5, <1>6, <2>2, <3>2, SaysEach
  <2> QED  BY <2>1, <2>2
<1>9. Parted(PartFn(role), a, b, P)  BY <1>2, PartTells DEF Parted, w
<1>10. Never(a, P, kinds) \/ Never(b, P, kinds)
  <2>1. CASE kinds = {"user", "said"}  BY <1>2, <2>1, PartTells DEF Never
  <2>2. CASE "user" \notin kinds /\ "said" \notin kinds
    BY <1>2, <1>3, <1>4, <2>2, WithoutTold DEF Never
  <2> QED  BY <2>1, <2>2, KindsApart
<1>11. FlatMap(g, FlatMap(a, s) \o FlatMap(b, s)) = FlatMap(g, FlatMap(PartFn(role), s))
  BY <1>1, <1>9, <1>10, PartGives, MovedInFront
<1> QED  BY <1>7, <1>8, <1>11 DEF w

LEMMA OfMessageTells ==
  ASSUME NEW m \in PartsMessage, NEW kinds \in Kinds, NEW g, Sees(g, kinds)
  PROVE  /\ OfMessage(m) \in Seq(Plain) /\ PartsSay(m) \in Seq(Happening)
         /\ FlatMap(g, ChatSays(OfMessage(m))) = FlatMap(g, PartsSay(m))
<1> DEFINE role    == m.role
           text    == Each(m.parts, TextOf)
           calls   == IF role = "assistant" THEN Each(m.parts, CallOf) ELSE <<>>
           results == IF role = "assistant" THEN <<>> ELSE Each(m.parts, ResultOf)
           some    == (\E k \in DOMAIN m.parts : m.parts[k].type = "text") \/ calls # <<>>
           x       == Message(role, text, calls)
           r       == IF role = "assistant" THEN ToldOf("call", Each(m.parts, CallOf))
                      ELSE ChatSays(Each(m.parts, ResultOf))
<1>1. role \in {"user", "assistant"} /\ m.parts \in Seq(Part(role))  BY DEF PartsMessage
<1>2. /\ text \in Text /\ Each(m.parts, CallOf) \in Seq(Call)
      /\ Each(m.parts, ResultOf) \in Seq(Plain)
  BY <1>1, PartEach, PartGives, FlatMapType DEF Text
<1>3. calls \in Seq(Call) /\ results \in Seq(Plain) /\ results \in Seq(ChatMessage)
  <2>1. <<>> \in Seq(Call) /\ <<>> \in Seq(Plain) /\ Seq(Plain) \subseteq Seq(ChatMessage)
    BY PlainIsChat
  <2> QED  BY <1>2, <2>1
<1>4. x \in Plain /\ x \in ChatMessage  BY <1>1, <1>2, <1>3, MessageMakes
<1>5. OfMessage(m) = When(some, x) \o results  BY DEF OfMessage
<1>6. x.role = role /\ x.text = text /\ x.calls = calls  BY DEF Message
<1>7. PartsSay(m) = FlatMap(PartFn(role), m.parts)  BY <1>1, PartEach
<1>8. PartsSay(m) \in Seq(Happening)  BY <1>1, <1>7, PartGives, FlatMapType
<1>9. FlatMap(g, Told(Speaks(role), text) \o r) = FlatMap(g, PartsSay(m))
  BY <1>1, <1>7, PartsApart
<1>10. ~some => text = <<>> /\ calls = <<>>  BY <1>1, PartsText
<1>11. ToldOf("call", calls) \o ChatSays(results) = r
  <2>1. CASE role = "assistant"
    <3>1. ToldOf("call", calls) \in Seq(Happening)  BY <1>3, ToldOfIs
    <3>2. ChatSays(results) = <<>> /\ r = ToldOf("call", calls)  BY <2>1, ChatSaysNone
    <3> QED  BY <3>1, <3>2, ConcatEmpty
  <2>2. CASE role = "user"
    <3>1. ChatSays(results) \in Seq(Happening)  BY <1>3, SaysEach
    <3>2. ToldOf("call", calls) = <<>> /\ r = ChatSays(results)  BY <2>2, ToldNothing
    <3> QED  BY <3>1, <3>2, ConcatEmpty
  <2> QED  BY <1>1, <2>1, <2>2
<1> HIDE DEF role, text, calls, results, some, x, r
<1>12. /\ Told(Speaks(role), text) \in Seq(Happening) /\ ToldOf("call", calls) \in Seq(Happening)
       /\ ChatSays(results) \in Seq(Happening)
  BY <1>2, <1>3, ToldIs, ToldOfIs, SaysEach DEF Speaks
<1>13. /\ When(some, x) \in Seq(Plain) /\ When(some, x) \in Seq(ChatMessage)
       /\ ChatSays(When(some, x)) = Told(Speaks(role), text) \o ToldOf("call", calls)
  <2>1. CASE some
    <3>1. When(some, x) = <<x>>  BY <2>1 DEF When
    <3>2. <<x>> \in Seq(Plain) /\ <<x>> \in Seq(ChatMessage)  BY <1>4, OneType
    <3>3. ChatSays(<<x>>) = MessageSays(x)  BY <1>4, ChatSaysOne
    <3>4. MessageSays(x) = Told(Speaks(role), text) \o ToldOf("call", calls)
      <4>1. CASE role = "assistant"  BY <1>6, <4>1 DEF MessageSays, Speaks
      <4>2. CASE role = "user"
        <5>1. ToldOf("call", calls) = <<>>  BY <4>2, ToldNothing DEF calls
        <5>2. MessageSays(x) = Told(Speaks(role), text)  BY <1>6, <4>2 DEF MessageSays, Speaks
        <5> QED  BY <1>12, <5>1, <5>2, ConcatEmpty
      <4> QED  BY <1>1, <4>1, <4>2
    <3> QED  BY <3>1, <3>2, <3>3, <3>4
  <2>2. CASE ~some
    <3>1. When(some, x) = <<>>  BY <2>2 DEF When
    <3>2. Told(Speaks(role), text) = <<>> /\ ToldOf("call", calls) = <<>>
      BY <1>10, <2>2, ToldNothing
    <3>3. <<>> \in Seq(Plain) /\ <<>> \in Seq(ChatMessage) /\ <<>> \o <<>> = <<>>
      BY ConcatEmpty
    <3> QED  BY <3>1, <3>2, <3>3, ChatSaysNone
  <2> QED  BY <2>1, <2>2
<1>14. OfMessage(m) \in Seq(Plain)  BY <1>3, <1>5, <1>13, ConcatAt
<1>15. ChatSays(OfMessage(m)) = Told(Speaks(role), text) \o r
  <2> DEFINE u == When(some, x)
             t == Told(Speaks(role), text)
             c == ToldOf("call", calls)
             e == ChatSays(results)
  <2>1. u \in Seq(ChatMessage) /\ ChatSays(u) = t \o c /\ OfMessage(m) = u \o results
    BY <1>5, <1>13
  <2>2. t \in Seq(Happening) /\ c \in Seq(Happening) /\ e \in Seq(Happening)  BY <1>12
  <2>3. e = ChatSays(results) /\ c \o e = r  BY <1>11
  <2> HIDE DEF u, t, c, e
  <2>4. ChatSays(u \o results) = ChatSays(u) \o ChatSays(results)
    BY <1>3, <2>1, ChatSaysConcat
  <2>5. ChatSays(OfMessage(m)) = (t \o c) \o e  BY <2>1, <2>3, <2>4
  <2>6. (t \o c) \o e = t \o (c \o e)  BY ONLY <2>2, HappeningsConcat, SMTT(30)
  <2>7. ChatSays(OfMessage(m)) = t \o r  BY <2>3, <2>5, <2>6
  <2> QED  BY <2>7 DEF t
<1> QED  BY <1>8, <1>9, <1>14, <1>15

LEMMA MessageGives ==
  /\ Gives(OfMessageFn, PartsMessage, Plain) /\ Gives(OfMessageFn, PartsMessage, ChatMessage)
  /\ Gives(PartsFn, PartsMessage, Happening)
<1> DEFINE g == [e \in Happening |-> <<>>]
<1>1. {"system"} \in Kinds /\ <<>> \in Seq(Happening)  BY DEF Kinds
<1>2. Sees(g, {"system"})  BY <1>1 DEF Sees, Gives
<1> HIDE DEF g
<1>3. \A m \in PartsMessage : OfMessage(m) \in Seq(Plain) /\ PartsSay(m) \in Seq(Happening)
  BY <1>1, <1>2, OfMessageTells
<1>4. Gives(OfMessageFn, PartsMessage, Plain)  BY <1>3 DEF Gives, OfMessageFn
<1>5. Gives(PartsFn, PartsMessage, Happening)  BY <1>3 DEF Gives, PartsFn
<1> QED  BY <1>4, <1>5, PlainIsChat, GivesMore

LEMMA MessageEach ==
  ASSUME NEW s \in Seq(PartsMessage)
  PROVE  /\ Each(s, OfMessage) = FlatMap(OfMessageFn, s)
         /\ Each(s, PartsSay) = FlatMap(PartsFn, s)
<1>1. \A i \in DOMAIN s : s[i] \in PartsMessage  OBVIOUS
<1>2. [i \in DOMAIN s |-> OfMessage(s[i])] = Pieces(OfMessageFn, s)
  BY <1>1 DEF Pieces, OfMessageFn
<1>3. [i \in DOMAIN s |-> PartsSay(s[i])] = Pieces(PartsFn, s)
  BY <1>1 DEF Pieces, PartsFn
<1> QED  BY <1>2, <1>3 DEF Each, FlatMap

LEMMA AnthropicTell ==
  ASSUME history \in Seq(PartsMessage), system \in Text, NEW kinds \in Kinds, NEW g, Sees(g, kinds)
  PROVE  /\ AnthropicToChat \in Seq(ChatMessage)
         /\ FlatMap(g, ChatSays(AnthropicToChat))
              = FlatMap(g, Told("system", system) \o Each(history, PartsSay))
<1> DEFINE m == Message("system", system, <<>>)
           w == When(system # <<>>, m)
           o == Each(history, OfMessage)
           t == Told("system", system)
           p == Each(history, PartsSay)
           h == [x \in PartsMessage |-> FlatMap(g, PartsSay(x))]
<1>1. Gives(g, Happening, Happening)  BY DEF Sees
<1>2. /\ o = FlatMap(OfMessageFn, history) /\ p = FlatMap(PartsFn, history)
      /\ o \in Seq(ChatMessage) /\ p \in Seq(Happening)
  BY MessageEach, MessageGives, FlatMapType
<1>3. t \in Seq(Happening)  BY ToldIs
<1>4. m \in ChatMessage /\ m.role = "system" /\ m.text = system
  BY MessageMakes, <<>> \in Seq(Call) DEF Message
<1>5. AnthropicToChat = w \o o  BY DEF AnthropicToChat
<1>6. Gives(h, PartsMessage, Happening)
  <2>1. \A x \in PartsMessage : PartsSay(x) \in Seq(Happening)  BY OfMessageTells
  <2>2. \A x \in PartsMessage : FlatMap(g, PartsSay(x)) \in Seq(Happening)
    BY <1>1, <2>1, FlatMapType
  <2> QED  BY <2>2 DEF Gives
<1>7. \A x \in PartsMessage : h[x] = FlatMap(g, PartsFn[x])  BY DEF PartsFn
<1>8. w \in Seq(ChatMessage) /\ ChatSays(w) = t
  <2>1. CASE system # <<>>
    <3>1. w = <<m>>  BY <2>1 DEF When
    <3>2. <<m>> \in Seq(ChatMessage) /\ ChatSays(<<m>>) = MessageSays(m)
      BY <1>4, OneType, ChatSaysOne
    <3>3. MessageSays(m) = t  BY <1>4 DEF MessageSays
    <3> QED  BY <3>1, <3>2, <3>3
  <2>2. CASE system = <<>>
    <3>1. w = <<>>  BY <2>2 DEF When
    <3>2. <<>> \in Seq(ChatMessage)  OBVIOUS
    <3>3. t = <<>>  BY <2>2, ToldNothing
    <3> QED  BY <3>1, <3>2, <3>3, ChatSaysNone
  <2> QED  BY <2>1, <2>2
<1> HIDE DEF m, w, o, t, p, h
<1>9. FlatMap(g, ChatSays(o)) = FlatMap(g, p)
  <2> DEFINE b == [x \in PartsMessage |-> ChatSays(OfMessage(x))]
  <2>1. \A x \in PartsMessage : OfMessageFn[x] = OfMessage(x) /\ OfMessage(x) \in Seq(ChatMessage)
    BY MessageGives DEF Gives, OfMessageFn
  <2>2. \A x \in PartsMessage : ChatSays(OfMessage(x)) \in Seq(Happening)  BY <2>1, SaysEach
  <2>3. Gives(b, PartsMessage, Happening)  BY <2>2 DEF Gives
  <2>4. \A x \in PartsMessage : b[x] = ChatSays(OfMessage(x))  OBVIOUS
  <2> HIDE DEF b
  <2>5. \A x \in PartsMessage : b[x] = FlatMap(SaysFn, OfMessageFn[x])  BY <2>1, <2>4, SaysEach
  <2>6. ChatSays(o) = FlatMap(b, history)
    <3>1. FlatMap(SaysFn, FlatMap(OfMessageFn, history)) = FlatMap(b, history)
      BY <2>3, <2>5, MessageGives, SaysGives, FlatMapTwice
    <3> QED  BY <1>2, <3>1, SaysEach
  <2>7. \A x \in PartsMessage : h[x] = FlatMap(g, b[x])
    <3> SUFFICES ASSUME NEW x \in PartsMessage  PROVE h[x] = FlatMap(g, b[x])
      OBVIOUS
    <3>1. FlatMap(g, ChatSays(OfMessage(x))) = FlatMap(g, PartsSay(x))  BY OfMessageTells
    <3> QED  BY <2>4, <3>1 DEF h
  <2>8. FlatMap(g, FlatMap(b, history)) = FlatMap(h, history)
    BY <1>1, <1>6, <2>3, <2>7, FlatMapTwice
  <2>9. FlatMap(g, FlatMap(PartsFn, history)) = FlatMap(h, history)
    BY <1>1, <1>6, <1>7, MessageGives, FlatMapTwice
  <2> QED  BY <1>2, <2>6, <2>8, <2>9
<1>10. AnthropicToChat \in Seq(ChatMessage) /\ ChatSays(AnthropicToChat) = t \o ChatSays(o)
  BY <1>2, <1>5, <1>8, ChatSaysConcat
<1>11. FlatMap(g, t \o ChatSays(o)) = FlatMap(g, t) \o FlatMap(g, ChatSays(o))
  <2>1. ChatSays(o) \in Seq(Happening)  BY <1>2, SaysEach
  <2> QED  BY ONLY <1>3, <2>1, Sees(g, kinds), SeesConcat
<1>12. FlatMap(g, t \o p) = FlatMap(g, t) \o FlatMap(g, p)
  BY <1>2, <1>3, SeesConcat
<1>13. FlatMap(g, ChatSays(AnthropicToChat)) = FlatMap(g, t \o p)
  BY <1>9, <1>10, <1>11, <1>12
<1> QED  BY <1>10, <1>13 DEF t, p

-----------------------------------------------------------------------------
(* From chat messages to the native form of an upstream.                   *)

\* What of an event is seen in a form whose calls have ids, or have none.
Seen(e, withIds) ==
  IF e.what = "call" /\ ~withIds THEN [e EXCEPT !.id = NoId] ELSE e
SeenFn(withIds) == [e \in Happening |-> <<Seen(e, withIds)>>]

LEMMA SeenIs ==
  ASSUME NEW withIds \in BOOLEAN
  PROVE  /\ \A e \in Happening : Seen(e, withIds) \in Happening /\ Seen(e, withIds).what = e.what
         /\ \A e \in Happening : withIds \/ e.what # "call" => Seen(e, withIds) = e
         /\ Gives(SeenFn(withIds), Happening, Happening)
<1>1. \A e \in Happening : Seen(e, withIds) \in Happening /\ Seen(e, withIds).what = e.what
  BY DEF Happening, Seen, NoId
<1>2. \A e \in Happening : withIds \/ e.what # "call" => Seen(e, withIds) = e
  BY DEF Seen
<1>3. Gives(SeenFn(withIds), Happening, Happening)  BY <1>1, OneType DEF SeenFn, Gives
<1> QED  BY <1>1, <1>2, <1>3

LEMMA SeenSame ==
  ASSUME NEW withIds \in BOOLEAN, NEW s \in Seq(Happening), withIds \/ Without(s, {"call"})
  PROVE  FlatMap(SeenFn(withIds), s) = s
<1>1. \A i \in 1 .. Len(s) : s[i] \in Happening  OBVIOUS
<1>2. \A i \in 1 .. Len(s) : Seen(s[i], withIds) = s[i]  BY <1>1, SeenIs DEF Without
<1>3. Singles(SeenFn(withIds), s, s)  BY <1>1, <1>2 DEF Singles, SeenFn
<1> QED  BY <1>3, SeenIs, FlatMapIs

\* Messages with one part.
LEMMA OnePart ==
  ASSUME NEW role \in {"user", "assistant"}, NEW p \in Part(role), NEW m,
         m = [role |-> role, parts |-> <<p>>]
  PROVE  m \in PartsMessage /\ Each(<<m>>, PartsSay) = PartSays(role, p)
<1>1. <<p>> \in Seq(Part(role))  BY OneType
<1>2. m \in PartsMessage /\ m.role = role /\ m.parts = <<p>>  BY <1>1 DEF PartsMessage
<1>3. PartsSay(m) = FlatMap(PartFn(role), <<p>>)  BY <1>1, <1>2, PartEach
<1>4. FlatMap(PartFn(role), <<p>>) = PartSays(role, p)  BY PartGives, FlatMapOne DEF PartFn
<1>5. Each(<<m>>, PartsSay) = FlatMap(PartsFn, <<m>>)  BY <1>2, OneType, MessageEach
<1>6. FlatMap(PartsFn, <<m>>) = PartsSay(m)  BY <1>2, MessageGives, FlatMapOne DEF PartsFn
<1> QED  BY <1>2, <1>3, <1>4, <1>5, <1>6

LEMMA PartTypes ==
  /\ \A role \in {"user", "assistant"}, text \in Text :
       /\ TextPart(text) \in Part(role)
       /\ PartSays(role, TextPart(text)) = Told(Speaks(role), text)
  /\ \A id \in Int, n \in Nat :
       /\ ResultPart(id, n) \in Part("user")
       /\ PartSays("user", ResultPart(id, n)) = <<Event("result", n, id)>>
  /\ \A withIds \in BOOLEAN, c \in Call :
       /\ UsePart(c, withIds) \in Part("assistant")
       /\ <<Seen(Event("call", c.n, c.id), withIds)>> = PartSays("assistant", UsePart(c, withIds))
<1>1. \A role \in {"user", "assistant"}, text \in Text : TextPart(text) \in TextBlock
  BY DEF TextPart, TextBlock
<1>2. \A role, text : PartSays(role, TextPart(text)) = Told(Speaks(role), text)
  BY DEF TextPart, PartSays, Speaks
<1>3. \A id \in Int, n \in Nat : ResultPart(id, n) \in ToolBlock("user")
  BY DEF ResultPart, ToolBlock
<1>4. \A id, n : PartSays("user", ResultPart(id, n)) = <<Event("result", n, id)>>
  BY DEF ResultPart, PartSays
<1>5. \A withIds \in BOOLEAN, c \in Call : UsePart(c, withIds) \in ToolBlock("assistant")
  BY DEF UsePart, ToolBlock, Call, NoId
<1>6. ASSUME NEW withIds \in BOOLEAN, NEW c \in Call
      PROVE  <<Seen(Event("call", c.n, c.id), withIds)>>
               = PartSays("assistant", UsePart(c, withIds))
  BY DEF UsePart, PartSays, Seen, Event
<1> QED  BY <1>1, <1>2, <1>3, <1>4, <1>5, <1>6 DEF Part

\* The calls of a message, part by part and as they are told.
LEMMA UsesTell ==
  ASSUME NEW withIds \in BOOLEAN, NEW calls \in Seq(Call), NEW uses,
         uses = [k \in DOMAIN calls |-> UsePart(calls[k], withIds)]
  PROVE  /\ uses \in Seq(Part("assistant"))
         /\ FlatMap(PartFn("assistant"), uses)
              = FlatMap(SeenFn(withIds), ToldOf("call", calls))
         /\ Without(FlatMap(PartFn("assistant"), uses), {"system"})
<1> DEFINE told == ToldOf("call", calls)
<1>1. \A k \in 1 .. Len(calls) : calls[k] \in Call  OBVIOUS
<1>2. uses = [k \in 1 .. Len(calls) |-> UsePart(calls[k], withIds)]  OBVIOUS
<1>3. \A k \in 1 .. Len(calls) : uses[k] \in Part("assistant")  BY <1>1, <1>2, PartTypes
<1>4. uses \in Seq(Part("assistant")) /\ Len(uses) = Len(calls)  BY <1>2, <1>3
<1>5. told \in Seq(Happening) /\ Len(told) = Len(calls)  BY ToldOfIs
<1>6. \A k \in 1 .. Len(calls) : told[k] = Event("call", calls[k].n, calls[k].id)
  BY DEF ToldOf
<1>7. \A k \in 1 .. Len(calls) : told[k] \in Happening  BY <1>5
<1>8. \A k \in 1 .. Len(calls) : PartFn("assistant")[uses[k]] = SeenFn(withIds)[told[k]]
  BY <1>1, <1>2, <1>3, <1>6, <1>7, PartTypes DEF PartFn, SeenFn
<1> HIDE DEF told
<1>9. DOMAIN uses = 1 .. Len(calls) /\ DOMAIN told = 1 .. Len(calls)  BY <1>4, <1>5
<1>10. FlatMap(PartFn("assistant"), uses) = FlatMap(SeenFn(withIds), told)
  BY <1>8, <1>9, FlatMapSame
<1> DEFINE t == [k \in 1 .. Len(calls) |-> Seen(told[k], withIds)]
<1>11. \A k \in 1 .. Len(calls) : t[k] \in Happening /\ t[k].what = told[k].what
  BY <1>7, SeenIs
<1>12. t \in Seq(Happening) /\ Len(t) = Len(told)  BY <1>5, <1>11
<1>13. Singles(SeenFn(withIds), told, t)  BY <1>5, <1>7, <1>12 DEF Singles, SeenFn
<1>14. \A k \in DOMAIN t : t[k].what = "call"
  BY <1>6, <1>9, <1>11 DEF Event
<1> HIDE DEF t
<1>15. FlatMap(SeenFn(withIds), told) = t  BY <1>5, <1>12, <1>13, SeenIs, FlatMapIs
<1> QED  BY <1>4, <1>10, <1>14, <1>15 DEF told, Without

LEMMA PartsOfTells ==
  ASSUME NEW withIds \in BOOLEAN, NEW m, m.text \in Text, m.calls \in Seq(Call)
  PROVE  /\ PartsOf(m, withIds) \in Seq(Part("assistant"))
         /\ FlatMap(PartFn("assistant"), PartsOf(m, withIds))
              = FlatMap(SeenFn(withIds), Told("said", m.text) \o ToldOf("call", m.calls))
         /\ Without(FlatMap(PartFn("assistant"), PartsOf(m, withIds)), {"system"})
<1> DEFINE p    == TextPart(m.text)
           w    == When(m.text # <<>>, p)
           uses == [k \in DOMAIN m.calls |-> UsePart(m.calls[k], withIds)]
           said == Told("said", m.text)
           call == ToldOf("call", m.calls)
           f    == PartFn("assistant")
           s    == SeenFn(withIds)
           P    == Part("assistant")
<1>1. p \in P /\ PartSays("assistant", p) = said  BY PartTypes DEF Speaks
<1>2. /\ uses \in Seq(P) /\ FlatMap(f, uses) = FlatMap(s, call)
      /\ Without(FlatMap(f, uses), {"system"})
  BY UsesTell
<1>3. PartsOf(m, withIds) = w \o uses  BY DEF PartsOf
<1>4. /\ said \in Seq(Happening) /\ call \in Seq(Happening)
      /\ Without(said, {"system"}) /\ Without(said, {"call"})
  BY ToldIs, ToldOfIs, WithoutTold
<1>5. Gives(f, P, Happening) /\ Gives(s, Happening, Happening)  BY PartGives, SeenIs
<1>6. FlatMap(s, said) = said  BY <1>4, SeenSame
<1>7. w \in Seq(P) /\ FlatMap(f, w) = said
  <2>1. CASE m.text # <<>>
    <3>1. w = <<p>>  BY <2>1 DEF When
    <3>2. <<p>> \in Seq(P) /\ FlatMap(f, <<p>>) = f[p]  BY <1>1, <1>5, OneType, FlatMapOne
    <3>3. f[p] = said  BY <1>1 DEF PartFn
    <3> QED  BY <3>1, <3>2, <3>3
  <2>2. CASE m.text = <<>>
    <3>1. w = <<>> /\ said = <<>>  BY <2>2, ToldNothing DEF When
    <3>2. <<>> \in Seq(P)  OBVIOUS
    <3> QED  BY <3>1, <3>2, FlatMapEmpty
  <2> QED  BY <2>1, <2>2
<1> HIDE DEF p, w, uses, said, call, f, s, P
<1>8. FlatMap(f, w \o uses) = FlatMap(f, w) \o FlatMap(f, uses)
  <2>1. uses \in Seq(P) /\ w \in Seq(P)  BY <1>2, <1>7
  <2>2. Gives(f, P, Happening)  BY <1>5
  <2> QED  BY ONLY <2>1, <2>2, FlatMapConcat, SMTT(30)
<1>9. FlatMap(s, said \o call) = FlatMap(s, said) \o FlatMap(s, call)
  <2>1. said \in Seq(Happening) /\ call \in Seq(Happening)  BY <1>4
  <2>2. Gives(s, Happening, Happening)  BY <1>5
  <2> QED  BY ONLY <2>1, <2>2, FlatMapConcat, SMTT(30)
<1>10. FlatMap(f, w \o uses) = FlatMap(s, said \o call)
  BY <1>2, <1>6, <1>7, <1>8, <1>9
<1>11. Without(FlatMap(f, w \o uses), {"system"})
  <2> DEFINE u == FlatMap(f, uses)
  <2>1. u \in Seq(Happening)  BY <1>2, <1>5, FlatMapType
  <2>2. FlatMap(f, w \o uses) = said \o u  BY <1>7, <1>8
  <2>3. Without(u, {"system"})  BY <1>2
  <2> HIDE DEF u
  <2>4. Without(said \o u, {"system"})  BY <1>4, <2>1, <2>3 DEF Without
  <2> QED  BY <2>2, <2>4
<1>12. w \o uses \in Seq(P)  BY <1>2, <1>7
<1> QED  BY <1>3, <1>10, <1>11, <1>12 DEF f, s, P, said, call

LEMMA NativeOfTells ==
  ASSUME NEW withIds \in BOOLEAN, NEW m \in ChatMessage
  PROVE  /\ SystemOf(m) \in Text /\ NativeOf(m, withIds) \in Seq(PartsMessage)
         /\ Each(NativeOf(m, withIds), PartsSay) \in Seq(Happening)
         /\ FlatMap(SeenFn(withIds), MessageSays(m))
              = Told("system", SystemOf(m)) \o Each(NativeOf(m, withIds), PartsSay)
         /\ Without(Each(NativeOf(m, withIds), PartsSay), {"system"})
<1> DEFINE r == Each(NativeOf(m, withIds), PartsSay)
<1>1. <<>> \in Seq(PartsMessage) /\ <<>> \in Text /\ <<>> \in Seq(Happening)  BY DEF Text
<1>2. Each(<<>>, PartsSay) = <<>>
  BY <1>1, MessageEach, FlatMapEmpty
<1>3. CASE /\ SystemOf(m) = <<>> /\ NativeOf(m, withIds) \in Seq(PartsMessage)
           /\ r = FlatMap(SeenFn(withIds), MessageSays(m)) /\ Without(r, {"system"})
  <2>1. r \in Seq(Happening)  BY <1>3, MessageEach, MessageGives, FlatMapType
  <2>2. Told("system", SystemOf(m)) = <<>>  BY <1>3, ToldNothing
  <2>3. r = <<>> \o r  BY <2>1, ConcatEmpty
  <2> QED  BY <1>1, <1>3, <2>1, <2>2, <2>3
<1>4. CASE m.role = "system" /\ m.text \in Text /\ MessageSays(m) = Told("system", m.text)
  <2>1. SystemOf(m) = m.text /\ NativeOf(m, withIds) = <<>>
    BY <1>4 DEF SystemOf, NativeOf
  <2>2. r = <<>>  BY <1>2, <2>1
  <2>3. MessageSays(m) \in Seq(Happening) /\ Without(MessageSays(m), {"call"})
    <3>1. Told("system", m.text) \in Seq(Happening)  BY <1>4, ToldIs
    <3>2. Without(Told("system", m.text), {"call"})  BY <1>4, WithoutTold
    <3> QED  BY <1>4, <3>1, <3>2
  <2>4. FlatMap(SeenFn(withIds), MessageSays(m)) = MessageSays(m)  BY <2>3, SeenSame
  <2>5. MessageSays(m) = MessageSays(m) \o <<>>  BY <2>3, ConcatEmpty
  <2> QED  BY <1>1, <1>4, <2>1, <2>2, <2>4, <2>5, WithoutTold
<1>5. CASE m.role = "user" /\ m.text \in Text /\ MessageSays(m) = Told("user", m.text)
  <2> DEFINE p == TextPart(m.text)
             x == [role |-> "user", parts |-> <<p>>]
  <2>1. SystemOf(m) = <<>> /\ NativeOf(m, withIds) = <<x>>  BY <1>5 DEF SystemOf, NativeOf
  <2>2. p \in Part("user") /\ PartSays("user", p) = Told("user", m.text)
    BY <1>5, PartTypes DEF Speaks
  <2>3. x \in PartsMessage /\ Each(<<x>>, PartsSay) = PartSays("user", p)  BY <2>2, OnePart
  <2>4. r = MessageSays(m) /\ NativeOf(m, withIds) \in Seq(PartsMessage)
    BY <1>5, <2>1, <2>2, <2>3, OneType
  <2>5. /\ MessageSays(m) \in Seq(Happening) /\ Without(MessageSays(m), {"call"})
        /\ Without(MessageSays(m), {"system"})
    <3>1. Told("user", m.text) \in Seq(Happening)  BY <1>5, ToldIs
    <3>2. Without(Told("user", m.text), {"call"}) /\ Without(Told("user", m.text), {"system"})
      BY <1>5, WithoutTold
    <3> QED  BY <1>5, <3>1, <3>2
  <2>6. FlatMap(SeenFn(withIds), MessageSays(m)) = MessageSays(m)  BY <2>5, SeenSame
  <2> QED  BY <1>3, <2>1, <2>4, <2>5, <2>6
<1>6. CASE m.role = "tool" /\ m.id \in Int /\ m.n \in Nat
           /\ MessageSays(m) = <<Event("result", m.n, m.id)>>
  <2> DEFINE p == ResultPart(m.id, m.n)
             x == [role |-> "user", parts |-> <<p>>]
  <2>1. SystemOf(m) = <<>> /\ NativeOf(m, withIds) = <<x>>  BY <1>6 DEF SystemOf, NativeOf
  <2>2. p \in Part("user") /\ PartSays("user", p) = <<Event("result", m.n, m.id)>>
    BY <1>6, PartTypes
  <2>3. x \in PartsMessage /\ Each(<<x>>, PartsSay) = PartSays("user", p)  BY <2>2, OnePart
  <2>4. r = MessageSays(m) /\ NativeOf(m, withIds) \in Seq(PartsMessage)
    BY <1>6, <2>1, <2>2, <2>3, OneType
  <2>5. /\ MessageSays(m) \in Seq(Happening) /\ Without(MessageSays(m), {"call"})
        /\ Without(MessageSays(m), {"system"})
    <3>1. Event("result", m.n, m.id) \in Happening  BY <1>6, EventType
    <3>2. MessageSays(m) \in Seq(Happening)  BY <1>6, <3>1, OneType
    <3>3. Without(MessageSays(m), {"call"}) /\ Without(MessageSays(m), {"system"})
      BY <1>6, WithoutTold
    <3> QED  BY <3>2, <3>3
  <2>6. FlatMap(SeenFn(withIds), MessageSays(m)) = MessageSays(m)  BY <2>5, SeenSame
  <2> QED  BY <1>3, <2>1, <2>4, <2>5, <2>6
<1>7. CASE m.role = "assistant" /\ m.text \in Text /\ m.calls \in Seq(Call)
           /\ MessageSays(m) = Told("said", m.text) \o ToldOf("call", m.calls)
  <2> DEFINE parts == PartsOf(m, withIds)
             x == [role |-> "assistant", parts |-> parts]
             says == FlatMap(PartFn("assistant"), parts)
  <2>1. SystemOf(m) = <<>> /\ NativeOf(m, withIds) = When(parts # <<>>, x)
    BY <1>7 DEF SystemOf, NativeOf
  <2>2. /\ parts \in Seq(Part("assistant")) /\ Without(says, {"system"})
        /\ says = FlatMap(SeenFn(withIds), MessageSays(m))
    BY <1>7, PartsOfTells
  <2>3. x \in PartsMessage /\ x.role = "assistant" /\ x.parts = parts
    BY <2>2 DEF PartsMessage
  <2> HIDE DEF parts, x, says
  <2>4. NativeOf(m, withIds) \in Seq(PartsMessage) /\ r = says
    <3>1. CASE parts # <<>>
      <4>1. NativeOf(m, withIds) = <<x>> /\ <<x>> \in Seq(PartsMessage)
        BY <2>1, <2>3, <3>1, OneType DEF When
      <4>2. Each(<<x>>, PartsSay) = FlatMap(PartsFn, <<x>>)  BY <4>1, MessageEach
      <4>3. FlatMap(PartsFn, <<x>>) = PartsSay(x)
        BY <2>3, MessageGives, FlatMapOne DEF PartsFn
      <4>4. PartsSay(x) = says  BY <2>2, <2>3, PartEach DEF says
      <4> QED  BY <4>1, <4>2, <4>3, <4>4
    <3>2. CASE parts = <<>>
      <4>1. NativeOf(m, withIds) = <<>>  BY <2>1, <3>2 DEF When
      <4>2. says = <<>>  BY <3>2, FlatMapEmpty DEF says
      <4> QED  BY <1>1, <1>2, <4>1, <4>2
    <3> QED  BY <3>1, <3>2
  <2> QED  BY <1>3, <2>1, <2>2, <2>4
<1> QED  BY <1>4, <1>5, <1>6, <1>7, MessageCases

LEMMA NativeGives ==
  ASSUME NEW withIds \in BOOLEAN
  PROVE  /\ Gives(SystemFn, ChatMessage, Nat)
         /\ Gives(NativeFn(withIds), ChatMessage, PartsMessage)
<1>1. \A m \in ChatMessage : SystemOf(m) \in Seq(Nat) /\ NativeOf(m, withIds) \in Seq(PartsMessage)
  BY NativeOfTells DEF Text
<1> QED  BY <1>1 DEF Gives, SystemFn, NativeFn

LEMMA NativeEach ==
  ASSUME NEW withIds \in BOOLEAN, NEW chat \in Seq(ChatMessage)
  PROVE  /\ Native(chat, withIds).system = FlatMap(SystemFn, chat)
         /\ Native(chat, withIds).messages = FlatMap(NativeFn(withIds), chat)
<1>1. \A i \in DOMAIN chat : chat[i] \in ChatMessage  OBVIOUS
<1>2. [i \in DOMAIN chat |-> SystemOf(chat[i])] = Pieces(SystemFn, chat)
  BY <1>1 DEF Pieces, SystemFn
<1>3. [i \in DOMAIN chat |-> NativeOf(chat[i], withIds)] = Pieces(NativeFn(withIds), chat)
  BY <1>1 DEF Pieces, NativeFn
<1>4. Native(chat, withIds).system = FlatMap(SystemFn, chat)
  BY <1>2 DEF Native, Each, FlatMap
<1>5. Native(chat, withIds).messages = FlatMap(NativeFn(withIds), chat)
  BY <1>3 DEF Native, Each, FlatMap
<1> QED  BY <1>4, <1>5

LEMMA NativeTell ==
  ASSUME NEW withIds \in BOOLEAN, NEW chat \in Seq(ChatMessage),
         NEW kinds \in Kinds, NEW g, Sees(g, kinds)
  PROVE  /\ NativeSays(Native(chat, withIds)) \in Seq(Happening)
         /\ FlatMap(g, NativeSays(Native(chat, withIds)))
              = FlatMap(g, FlatMap(SeenFn(withIds), ChatSays(chat)))
<1> DEFINE M == ChatMessage
           a == [m \in M |-> Told("system", SystemOf(m))]
           b == [m \in M |-> Each(NativeOf(m, withIds), PartsSay)]
           c == [m \in M |-> FlatMap(SeenFn(withIds), MessageSays(m))]
           d == Native(chat, withIds).system
           o == Native(chat, withIds).messages
           e == SeenFn(withIds)
           n == NativeFn(withIds)
<1>1. \A m \in M : /\ SystemOf(m) \in Text /\ SystemFn[m] = SystemOf(m)
                   /\ n[m] = NativeOf(m, withIds) /\ n[m] \in Seq(PartsMessage)
                   /\ SaysFn[m] = MessageSays(m) /\ SaysFn[m] \in Seq(Happening)
  BY NativeOfTells, SaysGives DEF SystemFn, NativeFn, SaysFn, Gives
<1>2. \A m \in M : /\ a[m] = Told("system", SystemOf(m))
                   /\ b[m] = Each(n[m], PartsSay)
                   /\ c[m] = FlatMap(e, SaysFn[m])
  BY <1>1
<1>3. \A m \in M : c[m] = a[m] \o b[m] /\ Without(b[m], {"system"}) /\ b[m] \in Seq(Happening)
  BY NativeOfTells
<1>4. /\ Gives(e, Happening, Happening) /\ Gives(n, M, PartsMessage)
      /\ Gives(SystemFn, M, Nat)
  BY SeenIs, NativeGives
<1>5. NativeSays(Native(chat, withIds)) = Told("system", d) \o Each(o, PartsSay)
  BY DEF NativeSays
<1>6. d = FlatMap(SystemFn, chat) /\ o = FlatMap(n, chat)  BY NativeEach
<1>7. d \in Text /\ o \in Seq(PartsMessage)  BY <1>4, <1>6, FlatMapType DEF Text
<1> HIDE DEF M, a, b, c, d, o, e, n
<1> USE DEF M
<1>8. \A m \in M : a[m] \in Seq(Happening) /\ c[m] \in Seq(Happening)
  <2>1. \A m \in M : a[m] \in Seq(Happening)  BY <1>1, <1>2, ToldIs
  <2>2. \A m \in M : c[m] \in Seq(Happening)  BY <1>1, <1>2, <1>4, FlatMapType
  <2> QED  BY <2>1, <2>2
<1>9. Gives(a, M, Happening) /\ Gives(b, M, Happening) /\ Gives(c, M, Happening)
  BY <1>3, <1>8 DEF Gives, a, b, c
<1>10. FlatMap(a, chat) = Told("system", d)
  <2>1. Gives(TellFn("system"), Nat, Happening) /\ Told("system", d) = FlatMap(TellFn("system"), d)
    BY <1>7, ToldIs
  <2>2. \A m \in M : a[m] = FlatMap(TellFn("system"), SystemFn[m])
    BY <1>1, <1>2, ToldIs
  <2> QED  BY <1>4, <1>6, <1>9, <2>1, <2>2, FlatMapTwice
<1>11. FlatMap(b, chat) = Each(o, PartsSay)
  <2>1. \A m \in M : b[m] = FlatMap(PartsFn, n[m])  BY <1>1, <1>2, MessageEach
  <2>2. FlatMap(PartsFn, FlatMap(n, chat)) = FlatMap(b, chat)
    BY <1>4, <1>9, <2>1, MessageGives, FlatMapTwice
  <2> QED  BY <1>6, <1>7, <2>2, MessageEach
<1>12. FlatMap(c, chat) = FlatMap(e, ChatSays(chat))
  <2>1. FlatMap(e, FlatMap(SaysFn, chat)) = FlatMap(c, chat)
    BY <1>2, <1>4, <1>9, SaysGives, FlatMapTwice
  <2> QED  BY <2>1, SaysEach
<1>13. NativeSays(Native(chat, withIds)) = FlatMap(a, chat) \o FlatMap(b, chat)
  BY <1>5, <1>10, <1>11
<1>14. FlatMap(a, chat) \in Seq(Happening) /\ FlatMap(b, chat) \in Seq(Happening)
  BY <1>9, FlatMapType
<1>15. NativeSays(Native(chat, withIds)) \in Seq(Happening)
  BY <1>13, <1>14, HappeningsConcat
<1>16. FlatMap(g, FlatMap(a, chat) \o FlatMap(b, chat)) = FlatMap(g, FlatMap(c, chat))
  <2>1. Parted(c, a, b, M)  BY <1>3 DEF Parted
  <2>2. Never(a, M, kinds) \/ Never(b, M, kinds)
    <3>1. CASE kinds = {"system"}  BY <1>3, <3>1 DEF Never
    <3>2. CASE "system" \notin kinds  BY <1>1, <1>2, <3>2, WithoutTold DEF Never
    <3> QED  BY <3>1, <3>2, KindsApart
  <2> QED  BY <1>9, <2>1, <2>2, MovedInFront
<1> QED  BY <1>12, <1>13, <1>15, <1>16 DEF e

-----------------------------------------------------------------------------
(* The inductive invariant.                                                *)

\* What a history is made of.
Form(a) ==
  CASE a = "responses" -> Item
    [] a = "messages" -> PartsMessage
    [] a = "chat" -> ChatMessage

Typed ==
  /\ api \in {"responses", "messages", "chat"}
  /\ upstream \in {"openai", "ollama", "anthropic", "gemini"}
  /\ turn \in {"client", "model", "tools"}
  /\ story \in Seq(Happening) /\ history \in Seq(Form(api))
  /\ system \in Text /\ pending \in Seq(Call)
  /\ hinted \in BOOLEAN /\ (hinted => api = "responses")

\* Every result follows a call with its id, the last of them its own.
EachAnswered(t) ==
  LET before(i) == {j \in 1 .. i - 1 : t[j].what = "call" /\ t[j].id = t[i].id}
  IN  \A i \in DOMAIN t :
        t[i].what = "result" =>
          \E j \in before(i) : t[j].n = t[i].n /\ \A k \in before(i) : k <= j

\* t ends with these calls, and no two of them have the same id.
EndsWithCalls(t, calls) ==
  /\ Len(calls) <= Len(t)
  /\ \A k \in 1 .. Len(calls) :
       t[Len(t) - Len(calls) + k] = Event("call", calls[k].n, calls[k].id)
  /\ \A j, k \in 1 .. Len(calls) : calls[j].id = calls[k].id => j = k

\* The calls and the results of the story.
ToolEvents == FlatMap(KeepFn({"call", "result"}), story)

ConversationInv ==
  /\ Typed /\ HistorySays = story
  /\ EachAnswered(ToolEvents)
  /\ turn = "tools" => EndsWithCalls(ToolEvents, pending)

-----------------------------------------------------------------------------
(* The properties follow from it.                                          *)

LEMMA KeepIs ==
  ASSUME NEW kinds
  PROVE  /\ Sees(KeepFn(kinds), kinds) /\ Gives(KeepFn(kinds), Happening, Happening)
         /\ \A s \in Seq(Happening) : Of(s, kinds) = FlatMap(KeepFn(kinds), s)
<1>1. \A e \in Happening : When(e.what \in kinds, e) \in Seq(Happening)  BY WhenType
<1>2. Gives(KeepFn(kinds), Happening, Happening)  BY <1>1 DEF Gives, KeepFn
<1>3. \A e \in Happening : e.what \notin kinds => KeepFn(kinds)[e] = <<>>
  BY DEF KeepFn, When
<1>4. ASSUME NEW s \in Seq(Happening)
      PROVE  Of(s, kinds) = FlatMap(KeepFn(kinds), s)
  <2>1. \A i \in DOMAIN s : s[i] \in Happening  OBVIOUS
  <2>2. [i \in DOMAIN s |-> When(s[i].what \in kinds, s[i])] = Pieces(KeepFn(kinds), s)
    BY <2>1 DEF Pieces, KeepFn
  <2> QED  BY <2>2 DEF Of, Each, FlatMap
<1> QED  BY <1>2, <1>3, <1>4 DEF Sees

\* The chat messages of a request tell the story and the hint, kind by kind.
LEMMA ChatTells ==
  ASSUME Typed, HistorySays = story, NEW kinds \in Kinds, NEW g, Sees(g, kinds)
  PROVE  /\ ChatRequest \in Seq(ChatMessage)
         /\ FlatMap(g, ChatSays(ChatRequest)) = FlatMap(g, story \o HintSays)
<1>1. CASE api = "responses"
  <2>1. history \in Seq(Item) /\ system \in Text /\ hinted \in BOOLEAN
    BY <1>1 DEF Typed, Form
  <2>2. /\ ChatRequest = ResponsesToChat
        /\ story = Told("system", system) \o Each(history, ItemSays)
    BY <1>1 DEF ChatRequest, HistorySays
  <2> QED  BY <2>1, <2>2, ResponsesTell
<1>2. api # "responses" => story \o HintSays = story
  <2>1. ASSUME api # "responses"  PROVE HintSays = <<>>
    <3>1. HintText = <<>>  BY <2>1, HintIs DEF Typed
    <3> QED  BY <3>1, ToldNothing DEF HintSays
  <2> QED  BY <2>1, ConcatEmpty DEF Typed
<1>3. CASE api = "messages"
  <2>1. history \in Seq(PartsMessage) /\ system \in Text  BY <1>3 DEF Typed, Form
  <2>2. /\ ChatRequest = AnthropicToChat
        /\ story = Told("system", system) \o Each(history, PartsSay)
    BY <1>3 DEF ChatRequest, HistorySays
  <2> QED  BY <1>2, <1>3, <2>1, <2>2, AnthropicTell
<1>4. CASE api = "chat"
  <2>1. history \in Seq(ChatMessage)  BY <1>4 DEF Typed, Form
  <2>2. ChatRequest = history /\ story = Each(history, MessageSays)
    BY <1>4 DEF ChatRequest, HistorySays
  <2> QED  BY <1>2, <1>4, <2>1, <2>2, SaysEach
<1> QED  BY <1>1, <1>3, <1>4 DEF Typed

LEMMA TellableIs ==
  ASSUME Typed
  PROVE  /\ story \o HintSays \in Seq(Happening) /\ Tellable \in Seq(Happening)
         /\ Tellable = FlatMap(SeenFn(upstream # "gemini"), story \o HintSays)
<1> DEFINE ids == upstream # "gemini"
           t == [i \in DOMAIN story |->
                   IF upstream = "gemini" /\ story[i].what = "call"
                   THEN [story[i] EXCEPT !.id = NoId] ELSE story[i]]
           f == SeenFn(ids)
           h == HintSays
<1>1. story \in Seq(Happening) /\ ids \in BOOLEAN  BY DEF Typed
<1>2. \A i \in 1 .. Len(story) : story[i] \in Happening  BY <1>1
<1>3. t = [i \in 1 .. Len(story) |-> Seen(story[i], ids)]
  BY <1>1 DEF Seen
<1>4. Tellable = t \o h  BY DEF Tellable, HintSays
<1> HIDE DEF t, ids
<1>5. \A i \in 1 .. Len(story) : t[i] = Seen(story[i], ids)  BY <1>3
<1>6. \A i \in 1 .. Len(story) : t[i] \in Happening  BY <1>1, <1>2, <1>5, SeenIs
<1>7. t \in Seq(Happening) /\ Len(t) = Len(story)  BY <1>1, <1>3, <1>6
<1>8. Singles(f, story, t)  BY <1>2, <1>5, <1>7 DEF Singles, SeenFn
<1>9. Gives(f, Happening, Happening)  BY <1>1, SeenIs
<1>10. h \in Seq(Happening) /\ FlatMap(f, h) = h
  <2>1. HintText \in Text /\ h \in Seq(Happening)  BY HintIs DEF Typed
  <2>2. Without(h, {"call"})  BY <2>1, WithoutTold DEF HintSays
  <2> QED  BY <1>1, <2>1, <2>2, SeenSame
<1> HIDE DEF f, h
<1>11. FlatMap(f, story) = t  BY <1>1, <1>7, <1>8, <1>9, FlatMapIs
<1>12. FlatMap(f, story \o h) = FlatMap(f, story) \o FlatMap(f, h)
  <2>1. story \in Seq(Happening) /\ h \in Seq(Happening)  BY <1>1, <1>10
  <2> QED  BY ONLY <1>9, <2>1, FlatMapConcat, SMTT(30)
<1>13. story \o h \in Seq(Happening) /\ t \o h \in Seq(Happening)
  BY <1>1, <1>7, <1>10, HappeningsConcat
<1>14. Tellable = FlatMap(f, story \o h)  BY ONLY <1>4, <1>10, <1>11, <1>12
<1>15. Tellable \in Seq(Happening)  BY ONLY <1>4, <1>13
<1> QED  BY ONLY <1>13, <1>14, <1>15 DEF f, h, ids

LEMMA RequestTells ==
  ASSUME Typed, NEW kinds \in Kinds, NEW g, Sees(g, kinds), ChatRequest \in Seq(ChatMessage)
  PROVE  /\ RequestSays \in Seq(Happening)
         /\ FlatMap(g, RequestSays)
              = FlatMap(g, FlatMap(SeenFn(upstream # "gemini"), ChatSays(ChatRequest)))
<1>1. CASE upstream = "anthropic"
  <2>1. RequestSays = NativeSays(Native(ChatRequest, TRUE))
    BY <1>1 DEF RequestSays, AnthropicRequest
  <2>2. (upstream # "gemini") = TRUE  BY <1>1
  <2> QED  BY <2>1, <2>2, NativeTell
<1>2. CASE upstream = "gemini"
  <2>1. RequestSays = NativeSays(Native(ChatRequest, FALSE))
    BY <1>2 DEF RequestSays, GeminiRequest
  <2>2. (upstream # "gemini") = FALSE  BY <1>2
  <2> QED  BY <2>1, <2>2, NativeTell
<1>3. CASE upstream \notin {"anthropic", "gemini"}
  <2>1. RequestSays = ChatSays(ChatRequest)  BY <1>3 DEF RequestSays
  <2>2. (upstream # "gemini") = TRUE  BY <1>3
  <2>3. ChatSays(ChatRequest) \in Seq(Happening)  BY SaysEach
  <2>4. FlatMap(SeenFn(TRUE), ChatSays(ChatRequest)) = ChatSays(ChatRequest)
    BY <2>3, SeenSame
  <2> QED  BY <2>1, <2>2, <2>3, <2>4
<1> QED  BY <1>1, <1>2, <1>3

LEMMA InvSurvives ==
  ConversationInv => StorySurvives
<1> SUFFICES ASSUME ConversationInv, NEW kinds \in Kinds
             PROVE  Of(RequestSays, kinds) = Of(Tellable, kinds)
  BY DEF StorySurvives, Kinds
<1> DEFINE ids == upstream # "gemini"
           keep == KeepFn(kinds)
           e == SeenFn(ids)
           view == [x \in Happening |-> keep[Seen(x, ids)]]
           chat == ChatSays(ChatRequest)
           all == story \o HintSays
<1>1. Typed /\ HistorySays = story /\ all \in Seq(Happening) /\ ids \in BOOLEAN
  BY TellableIs DEF ConversationInv, Typed
<1>2. Sees(keep, kinds) /\ Gives(keep, Happening, Happening)  BY KeepIs
<1>3. Gives(e, Happening, Happening)  BY <1>1, SeenIs
<1>4. \A x \in Happening : Seen(x, ids) \in Happening /\ Seen(x, ids).what = x.what
  BY <1>1, SeenIs
<1>5. \A x \in Happening : view[x] = FlatMap(keep, e[x])
  BY <1>2, <1>4, FlatMapOne DEF SeenFn
<1>6. \A x \in Happening : keep[Seen(x, ids)] \in Seq(Happening)  BY <1>2, <1>4 DEF Gives
<1>7. Gives(view, Happening, Happening)  BY <1>6 DEF Gives
<1>8. \A x \in Happening : x.what \notin kinds => view[x] = <<>>  BY <1>2, <1>4 DEF Sees
<1>9. Sees(view, kinds)  BY <1>7, <1>8 DEF Sees
<1>10. ChatRequest \in Seq(ChatMessage) /\ FlatMap(view, chat) = FlatMap(view, all)
  BY <1>1, <1>9, ChatTells
<1>11. chat \in Seq(Happening)  BY <1>10, SaysEach
<1> HIDE DEF view
<1>12. \A s \in Seq(Happening) : FlatMap(keep, FlatMap(e, s)) = FlatMap(view, s)
  BY <1>2, <1>3, <1>5, <1>7, FlatMapTwice
<1>13. /\ RequestSays \in Seq(Happening)
       /\ FlatMap(keep, RequestSays) = FlatMap(keep, FlatMap(e, chat))
  BY <1>1, <1>2, <1>10, RequestTells
<1>14. Tellable \in Seq(Happening) /\ Tellable = FlatMap(e, all)  BY <1>1, TellableIs
<1> HIDE DEF all
<1>15. FlatMap(keep, RequestSays) = FlatMap(keep, Tellable)
  BY <1>1, <1>10, <1>11, <1>12, <1>13, <1>14
<1> QED  BY <1>13, <1>14, <1>15, KeepIs

LEMMA InvLatest ==
  ConversationInv => LatestCallAnswered
<1> SUFFICES ASSUME ConversationInv  PROVE LatestCallAnswered
  OBVIOUS
<1> DEFINE kinds == {"call", "result"}
<1>1. kinds \in Kinds  BY DEF Kinds
<1>2. /\ ChatRequest \in Seq(ChatMessage)
      /\ FlatMap(KeepFn(kinds), ChatSays(ChatRequest)) = ToolEvents
  <2> DEFINE keep == KeepFn(kinds)
             h == HintSays
  <2>1. Sees(keep, kinds) /\ Typed /\ HistorySays = story /\ story \in Seq(Happening)
    BY KeepIs DEF ConversationInv, Typed
  <2>2. h \in Seq(Happening) /\ Without(h, kinds)
    <3>1. HintText \in Text /\ h \in Seq(Happening)  BY <2>1, HintIs DEF Typed
    <3> QED  BY <3>1, WithoutTold DEF HintSays
  <2>3. ToolEvents = FlatMap(keep, story)  BY DEF ToolEvents
  <2> HIDE DEF kinds, keep, h
  <2>4. FlatMap(keep, h) = <<>>  BY <2>1, <2>2, Unseen
  <2>5. FlatMap(keep, story \o h) = FlatMap(keep, story) \o <<>> /\ FlatMap(keep, story) \in Seq(Happening)
    <3>1. FlatMap(keep, story \o h) = FlatMap(keep, story) \o FlatMap(keep, h)
      BY ONLY <2>1, <2>2, SeesConcat, Zenon
    <3>2. FlatMap(keep, story) \in Seq(Happening)  BY ONLY <2>1, SeesConcat, Zenon
    <3> QED  BY ONLY <2>4, <3>1, <3>2
  <2>6. FlatMap(keep, story \o h) = FlatMap(keep, story)  BY <2>5, ConcatEmpty
  <2>7. ChatRequest \in Seq(ChatMessage) /\ FlatMap(keep, ChatSays(ChatRequest)) = FlatMap(keep, story \o h)
    BY <1>1, <2>1, ChatTells DEF h
  <2> QED  BY <2>3, <2>6, <2>7 DEF keep
<1>3. Of(ChatSays(ChatRequest), kinds) = ToolEvents  BY <1>2, SaysEach, KeepIs
<1>4. EachAnswered(ToolEvents)  BY DEF ConversationInv
<1> QED  BY <1>3, <1>4 DEF LatestCallAnswered, EachAnswered

LEMMA InvOneSystem ==
  ConversationInv => OneSystemInFront
<1> SUFFICES ASSUME Typed, api # "chat", NEW i \in DOMAIN ChatRequest, ChatRequest[i].role = "system"
             PROVE  i = 1
  BY DEF OneSystemInFront, ConversationInv
<1>1. \E w, o : /\ ChatRequest = w \o o /\ o \in Seq(Plain)
                /\ w \in Seq(ChatMessage) /\ Len(w) <= 1
  <2>1. CASE api = "responses"
    <3> DEFINE m == Message("system", Leading, <<>>)
               w == When(HasLeading, m)
               o == Each(history, OfItem)
    <3>1. history \in Seq(Item) /\ system \in Text /\ hinted \in BOOLEAN
      BY <2>1 DEF Typed, Form
    <3>2. o \in Seq(Plain)  BY <3>1, ItemsPlain
    <3>3. m \in ChatMessage  BY <3>1, ResponsesToChatIs, MessageMakes, <<>> \in Seq(Call)
    <3>4. ChatRequest = w \o o  BY <2>1, <3>1, ResponsesToChatIs DEF ChatRequest
    <3> HIDE DEF m, o
    <3>5. w \in Seq(ChatMessage) /\ Len(w) <= 1  BY <3>3 DEF When
    <3> QED  BY <3>2, <3>4, <3>5
  <2>2. CASE api = "messages"
    <3> DEFINE m == Message("system", system, <<>>)
               w == When(system # <<>>, m)
               o == Each(history, OfMessage)
    <3>1. history \in Seq(PartsMessage) /\ system \in Text  BY <2>2 DEF Typed, Form
    <3>2. o \in Seq(Plain)  BY <3>1, MessageEach, MessageGives, FlatMapType
    <3>3. m \in ChatMessage  BY <3>1, MessageMakes, <<>> \in Seq(Call)
    <3>4. ChatRequest = w \o o  BY <2>2 DEF ChatRequest, AnthropicToChat
    <3> HIDE DEF m, o
    <3>5. w \in Seq(ChatMessage) /\ Len(w) <= 1  BY <3>3 DEF When
    <3> QED  BY <3>2, <3>4, <3>5
  <2> QED  BY <2>1, <2>2 DEF Typed
<1>2. PICK w, o : /\ ChatRequest = w \o o /\ o \in Seq(Plain)
                  /\ w \in Seq(ChatMessage) /\ Len(w) <= 1
  BY <1>1
<1>3. o \in Seq(ChatMessage) /\ w \in Seq(ChatMessage)  BY <1>2, PlainIsChat
<1>4. /\ w \o o \in Seq(ChatMessage) /\ Len(w \o o) = Len(w) + Len(o)
      /\ \A k \in 1 .. Len(o) : (w \o o)[Len(w) + k] = o[k]
  BY ONLY <1>3, ConcatAt
<1>5. SUFFICES ASSUME i # 1  PROVE FALSE
  OBVIOUS
<1>6. i \in 1 .. Len(w) + Len(o)  BY <1>2, <1>4
<1>7. i - Len(w) \in 1 .. Len(o)  BY <1>2, <1>3, <1>5, <1>6
<1>8. ChatRequest[i] = o[i - Len(w)]
  <2>1. (w \o o)[Len(w) + (i - Len(w))] = o[i - Len(w)]  BY <1>4, <1>7
  <2>2. Len(w) + (i - Len(w)) = i  BY <1>2, <1>6
  <2> QED  BY <1>2, <2>1, <2>2
<1>9. o[i - Len(w)] \in Plain  BY <1>2, <1>7
<1> QED  BY <1>8, <1>9 DEF Plain

-----------------------------------------------------------------------------
(* What the client writes down tells what happened.                        *)

\* What messages in the form of an API tell.
Tells(a, h) ==
  CASE a = "responses" -> Each(h, ItemSays)
    [] a = "messages" -> Each(h, PartsSay)
    [] a = "chat" -> Each(h, MessageSays)

TellsFn(a) ==
  CASE a = "responses" -> ItemSaysFn [] a = "messages" -> PartsFn [] a = "chat" -> SaysFn

LEMMA TellsIs ==
  ASSUME NEW a \in {"responses", "messages", "chat"}
  PROVE  /\ Gives(TellsFn(a), Form(a), Happening)
         /\ \A h \in Seq(Form(a)) : Tells(a, h) = FlatMap(TellsFn(a), h)
         /\ \A h \in Seq(Form(a)) : Tells(a, h) \in Seq(Happening)
<1>1. Gives(TellsFn(a), Form(a), Happening)
  BY ItemGives, MessageGives, SaysGives DEF TellsFn, Form
<1>2. \A h \in Seq(Form(a)) : Tells(a, h) = FlatMap(TellsFn(a), h)
  <2>1. CASE a = "responses"  BY <2>1, ItemEach DEF Tells, TellsFn, Form
  <2>2. CASE a = "messages"  BY <2>2, MessageEach DEF Tells, TellsFn, Form
  <2>3. CASE a = "chat"  BY <2>3, SaysEach DEF Tells, TellsFn, Form
  <2> QED  BY <2>1, <2>2, <2>3
<1> QED  BY <1>1, <1>2, FlatMapType

\* After one another.
LEMMA TellsConcat ==
  ASSUME NEW a \in {"responses", "messages", "chat"}, NEW h \in Seq(Form(a)), NEW k \in Seq(Form(a))
  PROVE  h \o k \in Seq(Form(a)) /\ Tells(a, h \o k) = Tells(a, h) \o Tells(a, k)
<1>1. h \o k \in Seq(Form(a))  OBVIOUS
<1>2. Gives(TellsFn(a), Form(a), Happening)  BY TellsIs
<1>3. FlatMap(TellsFn(a), h \o k) = FlatMap(TellsFn(a), h) \o FlatMap(TellsFn(a), k)
  BY ONLY <1>2, h \in Seq(Form(a)), k \in Seq(Form(a)), FlatMapConcat
<1> QED  BY <1>1, <1>3, TellsIs

LEMMA TellsOne ==
  ASSUME NEW a \in {"responses", "messages", "chat"}, NEW x \in Form(a)
  PROVE  /\ <<x>> \in Seq(Form(a)) /\ <<>> \in Seq(Form(a))
         /\ Tells(a, <<x>>) = TellsFn(a)[x] /\ Tells(a, <<>>) = <<>>
<1>1. <<x>> \in Seq(Form(a)) /\ <<>> \in Seq(Form(a))  BY OneType
<1>2. Gives(TellsFn(a), Form(a), Happening)  BY TellsIs
<1>3. FlatMap(TellsFn(a), <<x>>) = TellsFn(a)[x]  BY <1>2, FlatMapOne
<1>4. FlatMap(TellsFn(a), <<>>) = <<>>  BY FlatMapEmpty
<1>5. Tells(a, <<x>>) = FlatMap(TellsFn(a), <<x>>)  BY <1>1, TellsIs
<1>6. Tells(a, <<>>) = FlatMap(TellsFn(a), <<>>)  BY <1>1, TellsIs
<1> QED  BY <1>1, <1>3, <1>4, <1>5, <1>6

\* A history that grows tells the story so far, and then what has been added.
LEMMA HistoryGrows ==
  ASSUME Typed, HistorySays = story, NEW added \in Seq(Form(api)), NEW told \in Seq(Happening),
         Tells(api, added) = told,
         history' = history \o added, story' = story \o told,
         UNCHANGED <<api, upstream, system, hinted>>
  PROVE  /\ history' \in Seq(Form(api')) /\ story' \in Seq(Happening)
         /\ HistorySays' = story'
<1>1. /\ api \in {"responses", "messages", "chat"} /\ history \in Seq(Form(api))
      /\ story \in Seq(Happening) /\ system \in Text
  BY DEF Typed
<1>2. /\ history' \in Seq(Form(api))
      /\ Tells(api, history') = Tells(api, history) \o told
  BY <1>1, TellsConcat
<1>3. story' \in Seq(Happening)  BY <1>1, HappeningsConcat
<1>4. CASE api = "chat"
  <2>1. HistorySays = Tells(api, history) /\ HistorySays' = Tells(api, history')
    BY <1>1, <1>4 DEF HistorySays, Tells
  <2> QED  BY <1>2, <1>3, <2>1
<1>5. CASE api # "chat"
  <2> DEFINE s == Told("system", system)
             h == Tells(api, history)
  <2>1. HistorySays = s \o h /\ HistorySays' = s \o Tells(api, history')
    BY <1>1, <1>5 DEF HistorySays, Tells
  <2>2. s \in Seq(Happening) /\ h \in Seq(Happening)  BY <1>1, ToldIs, TellsIs
  <2>3. Tells(api, history') = h \o told  BY <1>2
  <2> HIDE DEF s, h
  <2>4. (s \o h) \o told = s \o (h \o told)
    BY ONLY <2>2, told \in Seq(Happening), HappeningsConcat, SMTT(30)
  <2>5. HistorySays' = (s \o h) \o told  BY <2>1, <2>3, <2>4
  <2>6. story' = (s \o h) \o told  BY <2>1
  <2> QED  BY <1>2, <1>3, <2>5, <2>6
<1> QED  BY <1>4, <1>5

\* Which event a text of a role is.
Who(role) ==
  CASE role = "developer" -> "system" [] role = "user" -> "user" [] role = "assistant" -> "said"

LEMMA SpokenTells ==
  ASSUME api \in {"responses", "messages", "chat"},
         NEW role \in {"user", "assistant", "developer"}, NEW text \in Text,
         role = "developer" => api # "messages", role = "assistant" => api = "responses"
  PROVE  /\ Spoken(role, text) \in Form(api)
         /\ TellsFn(api)[Spoken(role, text)] = Told(Who(role), text)
<1> DEFINE x == Spoken(role, text)
<1>1. CASE api = "responses"
  <2>1. x \in Talk /\ x.type = "message" /\ x.role = role /\ x.text = text
    BY <1>1 DEF Spoken, Talk
  <2>2. x \in Item  BY <2>1 DEF Item
  <2>3. ItemSays(x) = Told(Who(role), text)  BY <2>1 DEF ItemSays, Who
  <2> QED  BY <1>1, <2>2, <2>3 DEF Form, TellsFn, ItemSaysFn
<1>2. CASE api = "messages"
  <2>1. role = "user"  BY <1>2
  <2>2. x = [role |-> "user", parts |-> <<TextPart(text)>>]  BY <1>2, <2>1 DEF Spoken
  <2>3. TextPart(text) \in Part("user") /\ PartSays("user", TextPart(text)) = Told("user", text)
    BY PartTypes DEF Speaks
  <2>4. x \in PartsMessage /\ Each(<<x>>, PartsSay) = Told("user", text)
    BY <2>2, <2>3, OnePart
  <2>5. Each(<<x>>, PartsSay) = Tells(api, <<x>>)  BY <1>2 DEF Tells
  <2>6. Tells(api, <<x>>) = TellsFn(api)[x]  BY <1>2, <2>4, TellsOne DEF Form
  <2> QED  BY <1>2, <2>1, <2>4, <2>5, <2>6 DEF Form, Who
<1>3. CASE api = "chat"
  <2> DEFINE y == Message(IF role = "developer" THEN "system" ELSE role, text, <<>>)
  <2>1. x = y  BY <1>3 DEF Spoken
  <2>2. role \in {"user", "developer"}  BY <1>3
  <2>3. y \in ChatMessage  BY <2>2, MessageMakes, <<>> \in Seq(Call)
  <2>4. y.text = text /\ y.role = IF role = "developer" THEN "system" ELSE role  BY DEF Message
  <2> HIDE DEF y
  <2>5. MessageSays(y) = Told(Who(role), text)  BY <2>2, <2>4 DEF MessageSays, Who
  <2> QED  BY <1>3, <2>1, <2>3, <2>5 DEF Form, TellsFn, SaysFn
<1> QED  BY <1>1, <1>2, <1>3

\* A text of the client's own, or none.
LEMMA SpokenWhen ==
  ASSUME api \in {"responses", "messages", "chat"},
         NEW role \in {"user", "assistant"}, NEW text \in Text, role = "assistant" => api = "responses"
  PROVE  /\ When(text # <<>>, Spoken(role, text)) \in Seq(Form(api))
         /\ Tells(api, When(text # <<>>, Spoken(role, text))) = Told(Who(role), text)
<1> DEFINE x == Spoken(role, text)
<1>1. x \in Form(api) /\ TellsFn(api)[x] = Told(Who(role), text)  BY SpokenTells
<1>2. /\ <<x>> \in Seq(Form(api)) /\ <<>> \in Seq(Form(api))
      /\ Tells(api, <<x>>) = TellsFn(api)[x] /\ Tells(api, <<>>) = <<>>
  BY <1>1, TellsOne
<1> HIDE DEF x
<1>3. CASE text # <<>>
  <2>1. When(text # <<>>, x) = <<x>>  BY <1>3 DEF When
  <2> QED  BY <1>1, <1>2, <2>1 DEF x
<1>4. CASE text = <<>>
  <2>1. When(text # <<>>, x) = <<>>  BY <1>4 DEF When
  <2>2. Told(Who(role), text) = <<>>  BY <1>4, ToldNothing
  <2> QED  BY <1>2, <2>1, <2>2 DEF x
<1> QED  BY <1>3, <1>4

\* Calls, or results, one form for each.
LEMMA ToolsTell ==
  ASSUME NEW a \in {"responses", "chat"}, NEW what \in {"call", "result"}, NEW cs \in Seq(Call),
         NEW xs, DOMAIN xs = DOMAIN cs,
         \A k \in DOMAIN cs : /\ xs[k] \in Form(a)
                              /\ TellsFn(a)[xs[k]] = <<Event(what, cs[k].n, cs[k].id)>>,
         xs = [k \in DOMAIN cs |-> xs[k]]
  PROVE  xs \in Seq(Form(a)) /\ Tells(a, xs) = ToldOf(what, cs)
<1> DEFINE t == ToldOf(what, cs)
<1>1. xs \in Seq(Form(a)) /\ Len(xs) = Len(cs)
  <2>1. xs = [k \in 1 .. Len(cs) |-> xs[k]]  OBVIOUS
  <2>2. \A k \in 1 .. Len(cs) : xs[k] \in Form(a)  OBVIOUS
  <2> QED  BY <2>1, <2>2
<1>2. t \in Seq(Happening) /\ Len(t) = Len(cs)  BY ToldOfIs
<1>3. \A k \in 1 .. Len(cs) : t[k] = Event(what, cs[k].n, cs[k].id)  BY DEF ToldOf
<1>4. \A k \in 1 .. Len(xs) : TellsFn(a)[xs[k]] = <<t[k]>>  BY <1>1, <1>3
<1> HIDE DEF t
<1>5. Singles(TellsFn(a), xs, t)  BY <1>1, <1>2, <1>4 DEF Singles
<1>6. Gives(TellsFn(a), Form(a), Happening)  BY TellsIs
<1>7. FlatMap(TellsFn(a), xs) = t  BY <1>1, <1>2, <1>5, <1>6, FlatMapIs
<1> QED  BY <1>1, <1>7, TellsIs DEF t

LEMMA CallsTell ==
  ASSUME NEW calls \in Seq(Call), NEW xs,
         xs = [k \in DOMAIN calls |->
                 [type |-> "function_call", id |-> calls[k].id, n |-> calls[k].n]]
  PROVE  xs \in Seq(Form("responses")) /\ Tells("responses", xs) = ToldOf("call", calls)
<1>1. ASSUME NEW k \in DOMAIN calls
      PROVE  /\ xs[k] \in Item
             /\ ItemSays(xs[k]) = <<Event("call", calls[k].n, calls[k].id)>>
  <2>1. calls[k] \in Call  OBVIOUS
  <2>2. xs[k] = [type |-> "function_call", id |-> calls[k].id, n |-> calls[k].n]  OBVIOUS
  <2>3. xs[k] \in ToolItem  BY <2>1, <2>2 DEF ToolItem, Call
  <2>4. ItemSays(xs[k]) = <<Event("call", calls[k].n, calls[k].id)>>  BY <2>2 DEF ItemSays
  <2> QED  BY <2>3, <2>4 DEF Item
<1>2. \A k \in DOMAIN calls :
        /\ xs[k] \in Form("responses")
        /\ TellsFn("responses")[xs[k]] = <<Event("call", calls[k].n, calls[k].id)>>
  BY <1>1 DEF Form, TellsFn, ItemSaysFn
<1>3. DOMAIN xs = DOMAIN calls /\ xs = [k \in DOMAIN calls |-> xs[k]]  OBVIOUS
<1> QED  BY <1>2, <1>3, ToolsTell

LEMMA ResultsTell ==
  ASSUME NEW results \in Seq(Call)
  PROVE  /\ LET xs == [k \in DOMAIN results |->
                         [type |-> "function_call_output", id |-> results[k].id, n |-> results[k].n]]
            IN  xs \in Seq(Form("responses")) /\ Tells("responses", xs) = ToldOf("result", results)
         /\ LET xs == [k \in DOMAIN results |-> ToolMessage(results[k].id, results[k].n)]
            IN  xs \in Seq(Form("chat")) /\ Tells("chat", xs) = ToldOf("result", results)
<1>1. ASSUME NEW xs,
             xs = [k \in DOMAIN results |->
                     [type |-> "function_call_output", id |-> results[k].id, n |-> results[k].n]]
      PROVE  xs \in Seq(Form("responses")) /\ Tells("responses", xs) = ToldOf("result", results)
  <2>1. ASSUME NEW k \in DOMAIN results
        PROVE  /\ xs[k] \in Item
               /\ ItemSays(xs[k]) = <<Event("result", results[k].n, results[k].id)>>
    <3>1. results[k] \in Call  OBVIOUS
    <3>2. xs[k] = [type |-> "function_call_output", id |-> results[k].id, n |-> results[k].n]
      BY <1>1
    <3>3. xs[k] \in ToolItem  BY <3>1, <3>2 DEF ToolItem, Call
    <3>4. ItemSays(xs[k]) = <<Event("result", results[k].n, results[k].id)>>
      BY <3>2 DEF ItemSays
    <3> QED  BY <3>3, <3>4 DEF Item
  <2>2. \A k \in DOMAIN results :
          /\ xs[k] \in Form("responses")
          /\ TellsFn("responses")[xs[k]] = <<Event("result", results[k].n, results[k].id)>>
    BY <2>1 DEF Form, TellsFn, ItemSaysFn
  <2>3. DOMAIN xs = DOMAIN results /\ xs = [k \in DOMAIN results |-> xs[k]]  BY <1>1
  <2> QED  BY <2>2, <2>3, ToolsTell
<1>2. ASSUME NEW xs, xs = [k \in DOMAIN results |-> ToolMessage(results[k].id, results[k].n)]
      PROVE  xs \in Seq(Form("chat")) /\ Tells("chat", xs) = ToldOf("result", results)
  <2>1. ASSUME NEW k \in DOMAIN results
        PROVE  /\ xs[k] \in ChatMessage
               /\ MessageSays(xs[k]) = <<Event("result", results[k].n, results[k].id)>>
    <3>1. results[k] \in Call  OBVIOUS
    <3>2. results[k].id \in Int /\ results[k].n \in Nat  BY <3>1 DEF Call
    <3>3. xs[k] = ToolMessage(results[k].id, results[k].n)  BY <1>2
    <3>4. xs[k] \in ChatMessage  BY <3>2, <3>3, MessageMakes, PlainIsChat
    <3>5. MessageSays(xs[k]) = <<Event("result", results[k].n, results[k].id)>>
      BY <3>3 DEF MessageSays, ToolMessage
    <3> QED  BY <3>4, <3>5
  <2>2. \A k \in DOMAIN results :
          /\ xs[k] \in Form("chat")
          /\ TellsFn("chat")[xs[k]] = <<Event("result", results[k].n, results[k].id)>>
    BY <2>1 DEF Form, TellsFn, SaysFn
  <2>3. DOMAIN xs = DOMAIN results /\ xs = [k \in DOMAIN results |-> xs[k]]  BY <1>2
  <2> QED  BY <2>2, <2>3, ToolsTell
<1> QED  BY <1>1, <1>2

LEMMA AnsweredTells ==
  ASSUME api \in {"responses", "messages", "chat"}, NEW text \in Text, NEW calls \in Seq(Call)
  PROVE  /\ Answered(text, calls) \in Seq(Form(api))
         /\ Tells(api, Answered(text, calls)) = Told("said", text) \o ToldOf("call", calls)
<1>1. CASE api = "responses"
  <2> DEFINE w  == When(text # <<>>, Spoken("assistant", text))
             xs == [k \in DOMAIN calls |->
                      [type |-> "function_call", id |-> calls[k].id, n |-> calls[k].n]]
  <2>1. Answered(text, calls) = w \o xs  BY <1>1 DEF Answered, AnswerItems
  <2>2. w \in Seq(Form(api)) /\ Tells(api, w) = Told("said", text)
    BY <1>1, SpokenWhen DEF Who
  <2>3. xs \in Seq(Form(api)) /\ Tells(api, xs) = ToldOf("call", calls)
    BY <1>1, CallsTell
  <2> HIDE DEF w, xs
  <2>4. w \o xs \in Seq(Form(api)) /\ Tells(api, w \o xs) = Tells(api, w) \o Tells(api, xs)
    BY <2>2, <2>3, TellsConcat
  <2> QED  BY <2>1, <2>2, <2>3, <2>4
<1>2. CASE api = "messages"
  <2> DEFINE x == AnswerMessage(text, calls)
             m == Message("assistant", text, calls)
             u == Told("said", text) \o ToldOf("call", calls)
             p == x.parts
  <2>1. /\ x.role = "assistant" /\ x = [role |-> "assistant", parts |-> p]
        /\ p = IF text = <<>> /\ calls = <<>> THEN <<TextPart(<<>>)>> ELSE PartsOf(m, TRUE)
    BY DEF AnswerMessage
  <2>2. u \in Seq(Happening)
    <3>1. Told("said", text) \in Seq(Happening) /\ ToldOf("call", calls) \in Seq(Happening)
      BY ToldIs, ToldOfIs
    <3> QED  BY <3>1, HappeningsConcat
  <2>3. p \in Seq(Part("assistant")) /\ FlatMap(PartFn("assistant"), p) = u
    <3>1. CASE text = <<>> /\ calls = <<>>
      <4> DEFINE q == TextPart(<<>>)
      <4>1. /\ q \in Part("assistant")
            /\ PartSays("assistant", q) = Told("said", <<>>)
        BY <3>1, PartTypes DEF Speaks
      <4>2. p = <<q>>  BY <2>1, <3>1
      <4>3. u = <<>> \o <<>> /\ Told("said", <<>>) = <<>>  BY <3>1, ToldNothing
      <4> HIDE DEF q, p, u
      <4>4. <<q>> \in Seq(Part("assistant"))  BY <4>1, OneType
      <4>5. FlatMap(PartFn("assistant"), <<q>>) = PartSays("assistant", q)
        BY <4>1, PartGives, FlatMapOne DEF PartFn
      <4> QED  BY <4>1, <4>2, <4>3, <4>4, <4>5
    <3>2. CASE ~(text = <<>> /\ calls = <<>>)
      <4>1. m.text = text /\ m.calls = calls  BY DEF Message
      <4>2. p = PartsOf(m, TRUE)  BY <2>1, <3>2
      <4> HIDE DEF m, p
      <4>3. /\ PartsOf(m, TRUE) \in Seq(Part("assistant"))
            /\ FlatMap(PartFn("assistant"), PartsOf(m, TRUE)) = FlatMap(SeenFn(TRUE), u)
        BY <4>1, PartsOfTells
      <4>4. FlatMap(SeenFn(TRUE), u) = u  BY <2>2, SeenSame
      <4> QED  BY <4>2, <4>3, <4>4
    <3> QED  BY <3>1, <3>2
  <2>4. x \in PartsMessage  BY <2>1, <2>3 DEF PartsMessage
  <2>5. PartsSay(x) = u  BY <2>1, <2>3, PartEach
  <2>6. Answered(text, calls) = <<x>>  BY <1>2 DEF Answered
  <2> HIDE DEF x, u, p
  <2>7. /\ <<x>> \in Seq(Form(api)) /\ Tells(api, <<x>>) = TellsFn(api)[x]
    BY <1>2, <2>4, TellsOne DEF Form
  <2>8. TellsFn(api)[x] = u  BY <1>2, <2>4, <2>5 DEF TellsFn, PartsFn
  <2> QED  BY <2>6, <2>7, <2>8 DEF u
<1>3. CASE api = "chat"
  <2> DEFINE x == Message("assistant", text, calls)
  <2>1. x \in ChatMessage  BY MessageMakes
  <2>2. x.role = "assistant" /\ x.text = text /\ x.calls = calls  BY DEF Message
  <2>3. Answered(text, calls) = <<x>>  BY <1>3 DEF Answered
  <2> HIDE DEF x
  <2>4. MessageSays(x) = Told("said", text) \o ToldOf("call", calls)  BY <2>2 DEF MessageSays
  <2>5. <<x>> \in Seq(Form(api)) /\ Tells(api, <<x>>) = TellsFn(api)[x]
    BY <1>3, <2>1, TellsOne DEF Form
  <2>6. TellsFn(api)[x] = MessageSays(x)  BY <1>3, <2>1 DEF TellsFn, SaysFn
  <2> QED  BY <2>3, <2>4, <2>5, <2>6
<1> QED  BY <1>1, <1>2, <1>3

LEMMA ReturnedTells ==
  ASSUME api \in {"responses", "messages", "chat"}, NEW results \in Seq(Call), NEW text \in Text
  PROVE  /\ Returned(results, text) \in Seq(Form(api))
         /\ Tells(api, Returned(results, text)) = ToldOf("result", results) \o Told("user", text)
<1>1. CASE api \in {"responses", "chat"}
  <2> DEFINE w  == When(text # <<>>, Spoken("user", text))
             xs == IF api = "responses"
                   THEN [k \in DOMAIN results |->
                           [type |-> "function_call_output", id |-> results[k].id, n |-> results[k].n]]
                   ELSE [k \in DOMAIN results |-> ToolMessage(results[k].id, results[k].n)]
  <2>1. Returned(results, text) = xs \o w  BY <1>1 DEF Returned
  <2>2. w \in Seq(Form(api)) /\ Tells(api, w) = Told("user", text)
    BY SpokenWhen DEF Who
  <2>3. xs \in Seq(Form(api)) /\ Tells(api, xs) = ToldOf("result", results)
    <3>1. CASE api = "responses"  BY <3>1, ResultsTell
    <3>2. CASE api = "chat"  BY <3>2, ResultsTell
    <3> QED  BY <1>1, <3>1, <3>2
  <2> HIDE DEF w, xs
  <2>4. xs \o w \in Seq(Form(api)) /\ Tells(api, xs \o w) = Tells(api, xs) \o Tells(api, w)
    BY <2>2, <2>3, TellsConcat
  <2> QED  BY <2>1, <2>2, <2>3, <2>4
<1>2. CASE api = "messages"
  <2> DEFINE P == Part("user")
             f == PartFn("user")
             rs == [k \in DOMAIN results |-> ResultPart(results[k].id, results[k].n)]
             q == TextPart(text)
             w == When(text # <<>>, q)
             x == [role |-> "user", parts |-> rs \o w]
             t == ToldOf("result", results)
             u == Told("user", text)
  <2>1. Returned(results, text) = <<x>>  BY <1>2 DEF Returned
  <2>2. \A k \in 1 .. Len(results) : results[k].id \in Int /\ results[k].n \in Nat
    <3>1. \A k \in 1 .. Len(results) : results[k] \in Call  OBVIOUS
    <3>2. \A c \in Call : c.id \in Int /\ c.n \in Nat  BY DEF Call
    <3> QED  BY <3>1, <3>2
  <2>3. rs = [k \in 1 .. Len(results) |-> ResultPart(results[k].id, results[k].n)]  OBVIOUS
  <2>4. \A k \in 1 .. Len(results) :
          rs[k] \in P /\ PartSays("user", rs[k]) = <<Event("result", results[k].n, results[k].id)>>
    BY <2>2, <2>3, PartTypes
  <2>5. rs \in Seq(P) /\ Len(rs) = Len(results)  BY <2>3, <2>4
  <2>6. t \in Seq(Happening) /\ Len(t) = Len(results)  BY ToldOfIs
  <2>7. \A k \in 1 .. Len(results) : t[k] = Event("result", results[k].n, results[k].id)
    BY DEF ToldOf
  <2>8. \A k \in 1 .. Len(results) : f[rs[k]] = <<t[k]>>  BY <2>4, <2>7 DEF PartFn
  <2>9. q \in P /\ f[q] = u  BY PartTypes DEF Speaks, PartFn
  <2>10. Gives(f, P, Happening)  BY PartGives
  <2>11. x.role = "user" /\ x.parts = rs \o w /\ x = [role |-> "user", parts |-> rs \o w]
    OBVIOUS
  <2>12. text = <<>> => u = <<>>  BY ToldNothing
  <2> HIDE DEF P, f, rs, q, x, t, u
  <2>13. Singles(f, rs, t)  BY <2>5, <2>6, <2>8 DEF Singles
  <2>14. FlatMap(f, rs) = t  BY <2>5, <2>6, <2>10, <2>13, FlatMapIs
  <2>15. w \in Seq(P) /\ FlatMap(f, w) = u
    <3>1. CASE text # <<>>
      <4>1. w = <<q>>  BY <3>1 DEF When
      <4>2. <<q>> \in Seq(P) /\ FlatMap(f, <<q>>) = f[q]  BY <2>9, <2>10, OneType, FlatMapOne
      <4> QED  BY <2>9, <4>1, <4>2
    <3>2. CASE text = <<>>
      <4>1. w = <<>>  BY <3>2 DEF When
      <4>2. <<>> \in Seq(P)  OBVIOUS
      <4> QED  BY <2>12, <3>2, <4>1, <4>2, FlatMapEmpty
    <3> QED  BY <3>1, <3>2
  <2> HIDE DEF w
  <2>16. rs \o w \in Seq(P) /\ FlatMap(f, rs \o w) = FlatMap(f, rs) \o FlatMap(f, w)
    <3>1. rs \in Seq(P) /\ w \in Seq(P)  BY <2>5, <2>15
    <3>2. FlatMap(f, rs \o w) = FlatMap(f, rs) \o FlatMap(f, w)
      BY ONLY <2>10, <3>1, FlatMapConcat, SMTT(30)
    <3>3. rs \o w \in Seq(P)  BY ONLY <3>1
    <3> QED  BY <3>2, <3>3
  <2>17. FlatMap(f, rs \o w) = t \o u  BY <2>14, <2>15, <2>16
  <2>18. x \in PartsMessage  BY <2>11, <2>16 DEF PartsMessage, P
  <2>19. PartsSay(x) = t \o u
    <3>1. PartsSay(x) = FlatMap(f, rs \o w)  BY <2>11, <2>16, PartEach DEF P, f
    <3> QED  BY <2>17, <3>1
  <2>20. <<x>> \in Seq(Form(api)) /\ Tells(api, <<x>>) = TellsFn(api)[x]
    BY <1>2, <2>18, TellsOne DEF Form
  <2>21. TellsFn(api)[x] = PartsSay(x)  BY <1>2, <2>18 DEF TellsFn, PartsFn
  <2> QED  BY <2>1, <2>19, <2>20, <2>21 DEF t, u
<1> QED  BY <1>1, <1>2

-----------------------------------------------------------------------------
(* Calls and results in the order of the story.                            *)

\* The last call before i with the id of i is the one i answers.
CallWith(t, j, id) == t[j].what = "call" /\ t[j].id = id
Answers(t, i) ==
  \E j \in 1 .. i - 1 :
    /\ CallWith(t, j, t[i].id) /\ t[j].n = t[i].n
    /\ \A k \in 1 .. i - 1 : CallWith(t, k, t[i].id) => k <= j

LEMMA EachAnsweredIs ==
  ASSUME NEW t \in Seq(Happening)
  PROVE  EachAnswered(t) <=> \A i \in 1 .. Len(t) : t[i].what = "result" => Answers(t, i)
<1>1. DOMAIN t = 1 .. Len(t)  OBVIOUS
<1>2. EachAnswered(t) <=> \A i \in DOMAIN t : t[i].what = "result" => Answers(t, i)
  <2>1. ASSUME NEW i \in 1 .. Len(t)
        PROVE  Answers(t, i)
                 <=> \E j \in {k \in 1 .. i - 1 : t[k].what = "call" /\ t[k].id = t[i].id} :
                       /\ t[j].n = t[i].n
                       /\ \A k \in {k \in 1 .. i - 1 : t[k].what = "call" /\ t[k].id = t[i].id} :
                            k <= j
    BY DEF Answers, CallWith
  <2> QED  BY <1>1, <2>1 DEF EachAnswered
<1> QED  BY <1>1, <1>2

\* What has been answered stays answered.
LEMMA AnswersStay ==
  ASSUME NEW t \in Seq(Happening), NEW u, EachAnswered(t), NEW i \in 1 .. Len(t),
         \A k \in 1 .. Len(t) : u[k] = t[k], u[i].what = "result"
  PROVE  Answers(u, i)
<1>1. t[i] = u[i]  OBVIOUS
<1>2. Answers(t, i)  BY <1>1, EachAnsweredIs
<1>3. \A k \in 1 .. i - 1 : u[k] = t[k]  OBVIOUS
<1> QED  BY <1>1, <1>2, <1>3 DEF Answers, CallWith

\* Two calls of one message never have the same id.
Distinct(calls) == \A j, k \in 1 .. Len(calls) : calls[j].id = calls[k].id => j = k

LEMMA CallsAdded ==
  ASSUME NEW t \in Seq(Happening), EachAnswered(t), NEW calls \in Seq(Call), Distinct(calls)
  PROVE  /\ EachAnswered(t \o ToldOf("call", calls))
         /\ EndsWithCalls(t \o ToldOf("call", calls), calls)
<1> DEFINE v == ToldOf("call", calls)
           u == t \o v
           n == Len(t)
           c == Len(calls)
<1>1. v \in Seq(Happening) /\ Len(v) = c  BY ToldOfIs
<1>2. \A k \in 1 .. c : v[k] = Event("call", calls[k].n, calls[k].id)  BY DEF ToldOf
<1>3. n \in Nat /\ c \in Nat  OBVIOUS
<1>4. /\ u \in Seq(Happening) /\ Len(u) = n + c
      /\ \A i \in 1 .. n : u[i] = t[i]
      /\ \A i \in 1 .. c : u[n + i] = v[i]
  <2>1. /\ t \o v \in Seq(Happening) /\ Len(t \o v) = Len(t) + Len(v)
        /\ \A i \in 1 .. Len(t) : (t \o v)[i] = t[i]
        /\ \A i \in 1 .. Len(v) : (t \o v)[Len(t) + i] = v[i]
    BY ONLY t \in Seq(Happening), <1>1, ConcatAt
  <2> QED  BY <1>1, <2>1
<1>5. \A e : e \in {Event("call", calls[k].n, calls[k].id) : k \in 1 .. c} => e.what = "call"
  BY DEF Event
<1> HIDE DEF u, v, n, c
<1>6. EachAnswered(u)
  <2> SUFFICES ASSUME NEW i \in 1 .. Len(u), u[i].what = "result"  PROVE Answers(u, i)
    BY <1>4, EachAnsweredIs
  <2>1. CASE i \in 1 .. n  BY <1>4, <2>1, AnswersStay DEF n
  <2>2. CASE i \notin 1 .. n
    <3>1. i - n \in 1 .. c  BY <1>3, <1>4, <2>2
    <3>2. u[n + (i - n)] = v[i - n]  BY <1>4, <3>1
    <3>3. n + (i - n) = i  BY <1>3, <1>4
    <3>4. u[i].what = "call"  BY <1>2, <1>5, <3>1, <3>2, <3>3
    <3> QED  BY <3>4
  <2> QED  BY <2>1, <2>2
<1>7. EndsWithCalls(u, calls)
  <2>1. Len(calls) <= Len(u)  BY <1>3, <1>4 DEF c
  <2>2. Len(u) - Len(calls) = n  BY <1>3, <1>4 DEF c
  <2>3. \A k \in 1 .. Len(calls) : u[n + k] = Event("call", calls[k].n, calls[k].id)
    BY <1>2, <1>4 DEF c
  <2> QED  BY <2>1, <2>2, <2>3 DEF EndsWithCalls, Distinct
<1> QED  BY <1>6, <1>7 DEF u, v

LEMMA ResultsAdded ==
  ASSUME NEW t \in Seq(Happening), EachAnswered(t), NEW calls \in Seq(Call), EndsWithCalls(t, calls),
         NEW results \in Seq(Call),
         \A k \in 1 .. Len(results) : \E j \in 1 .. Len(calls) : results[k] = calls[j]
  PROVE  EachAnswered(t \o ToldOf("result", results))
<1> DEFINE v == ToldOf("result", results)
           u == t \o v
           n == Len(t)
           c == Len(calls)
           r == Len(results)
           p == n - c
<1>1. v \in Seq(Happening) /\ Len(v) = r  BY ToldOfIs
<1>2. \A k \in 1 .. r : v[k] = Event("result", results[k].n, results[k].id)  BY DEF ToldOf
<1>3. n \in Nat /\ c \in Nat /\ r \in Nat  OBVIOUS
<1>4. /\ u \in Seq(Happening) /\ Len(u) = n + r
      /\ \A i \in 1 .. n : u[i] = t[i]
      /\ \A i \in 1 .. r : u[n + i] = v[i]
  <2>1. /\ t \o v \in Seq(Happening) /\ Len(t \o v) = Len(t) + Len(v)
        /\ \A i \in 1 .. Len(t) : (t \o v)[i] = t[i]
        /\ \A i \in 1 .. Len(v) : (t \o v)[Len(t) + i] = v[i]
    BY ONLY t \in Seq(Happening), <1>1, ConcatAt
  <2> QED  BY <1>1, <2>1
<1>5. /\ c <= n
      /\ \A k \in 1 .. c : t[p + k] = Event("call", calls[k].n, calls[k].id)
      /\ \A j, k \in 1 .. c : calls[j].id = calls[k].id => j = k
  BY DEF EndsWithCalls
<1>6. \A k \in 1 .. r : \E j \in 1 .. c : results[k] = calls[j]  OBVIOUS
<1>7. p = n - c  OBVIOUS
<1> HIDE DEF u, v, n, c, r, p
<1> SUFFICES ASSUME NEW i \in 1 .. Len(u), u[i].what = "result"  PROVE Answers(u, i)
  BY <1>4, EachAnsweredIs DEF u, v
<1>8. CASE i \in 1 .. n  BY <1>4, <1>8, AnswersStay DEF n
<1>9. CASE i \notin 1 .. n
  <2>1. i - n \in 1 .. r /\ n + (i - n) = i  BY <1>3, <1>4, <1>9
  <2>2. u[i] = v[i - n]  BY <1>4, <2>1
  <2>3. PICK j \in 1 .. c : results[i - n] = calls[j]  BY <1>6, <2>1
  <2>4. u[i] = Event("result", calls[j].n, calls[j].id)  BY <1>2, <2>1, <2>2, <2>3
  <2>5. p + j \in 1 .. n /\ p + j \in 1 .. i - 1  BY <1>3, <1>4, <1>5, <1>7, <1>9
  <2>6. u[p + j] = Event("call", calls[j].n, calls[j].id)  BY <1>4, <1>5, <2>5
  <2>7. CallWith(u, p + j, u[i].id) /\ u[p + j].n = u[i].n
    BY <2>4, <2>6 DEF CallWith, Event
  <2>8. ASSUME NEW k \in 1 .. i - 1, CallWith(u, k, u[i].id), k > p + j
        PROVE  FALSE
    <3>1. CASE k \in 1 .. n
      <4>1. k - p \in 1 .. c /\ p + (k - p) = k  BY <1>3, <1>5, <1>7, <2>8, <3>1
      <4>2. u[k] = Event("call", calls[k - p].n, calls[k - p].id)
        BY <1>4, <1>5, <3>1, <4>1
      <4>3. calls[k - p].id = calls[j].id  BY <2>4, <2>8, <4>2 DEF CallWith, Event
      <4>4. k - p = j  BY <1>5, <4>1, <4>3
      <4> QED  BY <1>3, <1>7, <2>8, <4>4
    <3>2. CASE k \notin 1 .. n
      <4>1. k - n \in 1 .. r /\ n + (k - n) = k  BY <1>3, <1>4, <3>2
      <4>2. u[k] = v[k - n]  BY <1>4, <4>1
      <4>3. v[k - n] = Event("result", results[k - n].n, results[k - n].id)  BY <1>2, <4>1
      <4>4. u[k].what = "result"  BY <4>2, <4>3 DEF Event
      <4> QED  BY <2>8, <4>4 DEF CallWith
    <3> QED  BY <3>1, <3>2
  <2>9. \A k \in 1 .. i - 1 : CallWith(u, k, u[i].id) => k <= p + j
    BY <1>3, <1>7, <2>8
  <2> QED  BY <2>5, <2>7, <2>9 DEF Answers
<1> QED  BY <1>8, <1>9

-----------------------------------------------------------------------------
(* The steps.                                                              *)

\* What is said between calls and results.
LEMMA ToolsSeen ==
  LET kinds == {"call", "result"}
      keep  == KeepFn({"call", "result"})
  IN  /\ Sees(keep, kinds)
      /\ \A what \in {"user", "said", "system"}, ns \in Text :
           FlatMap(keep, Told(what, ns)) = <<>>
      /\ \A what \in kinds, cs \in Seq(Call) :
           FlatMap(keep, ToldOf(what, cs)) = ToldOf(what, cs)
<1> DEFINE kinds == {"call", "result"}
           keep  == KeepFn(kinds)
<1>1. Sees(keep, kinds) /\ Gives(keep, Happening, Happening)  BY KeepIs
<1>2. ASSUME NEW what \in {"user", "said", "system"}, NEW ns \in Text
      PROVE  FlatMap(keep, Told(what, ns)) = <<>>
  <2>1. Told(what, ns) \in Seq(Happening)  BY ToldIs
  <2>2. what \notin kinds  OBVIOUS
  <2>3. Without(Told(what, ns), kinds)  BY <2>2, WithoutTold
  <2> QED  BY <1>1, <2>1, <2>3, Unseen
<1>3. ASSUME NEW what \in kinds, NEW cs \in Seq(Call)
      PROVE  FlatMap(keep, ToldOf(what, cs)) = ToldOf(what, cs)
  <2> DEFINE t == ToldOf(what, cs)
  <2>1. t \in Seq(Happening) /\ \A i \in DOMAIN t : t[i].what = what  BY ToldOfIs
  <2> HIDE DEF t
  <2>2. \A i \in 1 .. Len(t) : t[i] \in Happening /\ t[i].what \in kinds  BY <2>1
  <2>3. Singles(keep, t, t)  BY <2>2 DEF Singles, KeepFn, When
  <2>4. FlatMap(keep, t) = t  BY <1>1, <2>1, <2>3, FlatMapIs
  <2> QED  BY <2>4 DEF t
<1> QED  BY <1>1, <1>2, <1>3

\* The calls and the results of a story that goes on.
LEMMA ToolEventsGrow ==
  ASSUME Typed, NEW told \in Seq(Happening), story' = story \o told
  PROVE  /\ ToolEvents \in Seq(Happening)
         /\ ToolEvents' = ToolEvents \o FlatMap(KeepFn({"call", "result"}), told)
<1> DEFINE keep == KeepFn({"call", "result"})
<1>1. Sees(keep, {"call", "result"})  BY KeepIs
<1>2. story \in Seq(Happening)  BY DEF Typed
<1> HIDE DEF keep
<1>3. /\ FlatMap(keep, story \o told) = FlatMap(keep, story) \o FlatMap(keep, told)
      /\ FlatMap(keep, story) \in Seq(Happening)
  <2>1. Gives(keep, Happening, Happening)  BY <1>1 DEF Sees
  <2>2. FlatMap(keep, story) \in Seq(Happening)  BY ONLY <1>2, <2>1, FlatMapType
  <2>3. FlatMap(keep, story \o told) = FlatMap(keep, story) \o FlatMap(keep, told)
    BY ONLY <1>2, <2>1, told \in Seq(Happening), FlatMapConcat, SMTT(30)
  <2> QED  BY <2>2, <2>3
<1> QED  BY <1>3 DEF keep, ToolEvents

LEMMA ConversationInit ==
  Init => ConversationInv
<1> SUFFICES ASSUME Init  PROVE ConversationInv
  OBVIOUS
<1>1. PICK withSystem \in BOOLEAN :
        /\ story = IF withSystem THEN <<Event("system", 1, 0)>> ELSE <<>>
        /\ system = IF withSystem THEN <<1>> ELSE <<>>
        /\ withSystem => api # "chat"
  BY DEF Init
<1>2. /\ api \in {"responses", "messages", "chat"}
      /\ upstream \in {"openai", "ollama", "anthropic", "gemini"}
      /\ history = <<>> /\ turn = "client" /\ pending = <<>>
      /\ hinted \in BOOLEAN /\ (hinted => api = "responses")
  BY DEF Init
<1>3. story = Told("system", system) /\ system \in Text
  <2>1. CASE withSystem
    <3>1. <<1>> \in Text  BY OneType DEF Text
    <3> QED  BY <1>1, <2>1, <3>1 DEF Told
  <2>2. CASE ~withSystem
    <3>1. <<>> \in Text  BY DEF Text
    <3> QED  BY <1>1, <2>2, <3>1, ToldNothing
  <2> QED  BY <2>1, <2>2
<1>4. story \in Seq(Happening)  BY <1>3, ToldIs
<1>5. Typed
  <2>1. <<>> \in Seq(Form(api)) /\ <<>> \in Seq(Call)  OBVIOUS
  <2> QED  BY <1>2, <1>3, <1>4, <2>1 DEF Typed
<1>6. HistorySays = story
  <2>1. CASE api = "messages"
    <3>1. Each(<<>>, PartsSay) = <<>>
      <4>1. <<>> \in Seq(PartsMessage)  OBVIOUS
      <4> QED  BY <4>1, MessageEach, FlatMapEmpty
    <3>2. HistorySays = story \o <<>>  BY <1>2, <1>3, <2>1, <3>1 DEF HistorySays
    <3> QED  BY <1>4, <3>2, ConcatEmpty
  <2>2. CASE api = "responses"
    <3>1. <<>> \in Seq(Item)  OBVIOUS
    <3>2. Each(<<>>, ItemSays) = <<>>  BY <3>1, ItemEach, FlatMapEmpty
    <3>3. HistorySays = story \o <<>>  BY <1>2, <1>3, <2>2, <3>2 DEF HistorySays
    <3> QED  BY <1>4, <3>3, ConcatEmpty
  <2>3. CASE api = "chat"
    <3>1. <<>> \in Seq(ChatMessage)  OBVIOUS
    <3>2. Each(<<>>, MessageSays) = <<>>  BY <3>1, SaysEach, FlatMapEmpty
    <3> QED  BY <1>1, <1>2, <2>3, <3>2 DEF HistorySays
  <2> QED  BY <1>2, <2>1, <2>2, <2>3
<1>7. ToolEvents = <<>>  BY <1>3, ToolsSeen DEF ToolEvents
<1>8. EachAnswered(<<>>)  BY DEF EachAnswered
<1> QED  BY <1>2, <1>5, <1>6, <1>7, <1>8 DEF ConversationInv

\* The client says something: a text of the user's, or a direction.
LEMMA SpeakStep ==
  ASSUME ConversationInv, Speak \/ Direct
  PROVE  ConversationInv'
<1> DEFINE role == IF Speak THEN "user" ELSE "developer"
           what == IF Speak THEN "user" ELSE "system"
           text == <<Fresh>>
           x == Spoken(role, text)
           t == Told(what, text)
<1>1. /\ Typed /\ HistorySays = story /\ EachAnswered(ToolEvents)
      /\ api \in {"responses", "messages", "chat"} /\ history \in Seq(Form(api))
      /\ story \in Seq(Happening) /\ system \in Text /\ pending \in Seq(Call)
  BY DEF ConversationInv, Typed
<1>2. Fresh \in Nat /\ text \in Text
  <2>1. Fresh \in Nat  BY <1>1 DEF Fresh
  <2> QED  BY <2>1, OneType DEF Text
<1>3. /\ story' = Append(story, Event(what, Fresh, 0))
      /\ history' = Append(history, x)
      /\ role = "developer" => api # "messages"
      /\ UNCHANGED <<api, upstream, system, hinted>>
  BY DEF Speak, Direct
<1>4. turn' \in {"client", "model"} /\ pending' = pending  BY DEF Speak, Direct
<1>5. x \in Form(api) /\ TellsFn(api)[x] = Told(Who(role), text)
  BY <1>1, <1>2, <1>3, SpokenTells
<1>6. Who(role) = what  BY DEF Who
<1>7. t = <<Event(what, Fresh, 0)>>  BY DEF Told
<1>8. t \in Seq(Happening)  BY <1>2, ToldIs
<1>9. FlatMap(KeepFn({"call", "result"}), t) = <<>>  BY <1>2, ToolsSeen
<1> HIDE DEF role, what, text, x, t
<1>10. <<x>> \in Seq(Form(api)) /\ Tells(api, <<x>>) = t
  BY <1>1, <1>5, <1>6, TellsOne DEF t
<1>11. history' = history \o <<x>>  BY <1>1, <1>3, <1>5
<1>12. story' = story \o t
  <2> DEFINE v == Event(what, Fresh, 0)
  <2>1. v \in Happening  BY <1>2, EventType DEF what
  <2>2. story' = Append(story, v) /\ t = <<v>>  BY <1>3, <1>7
  <2> HIDE DEF v
  <2> QED  BY <1>1, <2>1, <2>2
<1>13. history' \in Seq(Form(api')) /\ story' \in Seq(Happening) /\ HistorySays' = story'
  BY <1>1, <1>3, <1>8, <1>10, <1>11, <1>12, HistoryGrows
<1>14. ToolEvents' = ToolEvents
  <2>1. ToolEvents \in Seq(Happening) /\ ToolEvents' = ToolEvents \o <<>>
    BY <1>1, <1>8, <1>9, <1>12, ToolEventsGrow
  <2> QED  BY <2>1, ConcatEmpty
<1>15. Typed'  BY <1>1, <1>3, <1>4, <1>13 DEF Typed
<1>16. EachAnswered(ToolEvents)'  BY <1>1, <1>14 DEF EachAnswered
<1> QED  BY <1>4, <1>13, <1>15, <1>16 DEF ConversationInv

\* Two things told, of which the first or the second is neither call nor result.
LEMMA ToolsOfBoth ==
  ASSUME NEW what \in {"user", "said"}, NEW text \in Text,
         NEW kind \in {"call", "result"}, NEW cs \in Seq(Call)
  PROVE  LET t == Told(what, text)
             c == ToldOf(kind, cs)
             keep == KeepFn({"call", "result"})
         IN  /\ t \in Seq(Happening) /\ c \in Seq(Happening)
             /\ FlatMap(keep, t \o c) = c /\ FlatMap(keep, c \o t) = c
<1> DEFINE t == Told(what, text)
           c == ToldOf(kind, cs)
           keep == KeepFn({"call", "result"})
<1>1. t \in Seq(Happening) /\ c \in Seq(Happening)  BY ToldIs, ToldOfIs
<1>2. Gives(keep, Happening, Happening)  BY KeepIs
<1>3. FlatMap(keep, t) = <<>> /\ FlatMap(keep, c) = c  BY ToolsSeen
<1> HIDE DEF t, c, keep
<1>4. FlatMap(keep, t \o c) = FlatMap(keep, t) \o FlatMap(keep, c)
  BY ONLY <1>1, <1>2, FlatMapConcat, SMTT(30)
<1>5. FlatMap(keep, c \o t) = FlatMap(keep, c) \o FlatMap(keep, t)
  BY ONLY <1>1, <1>2, FlatMapConcat, SMTT(30)
<1>6. <<>> \o c = c /\ c \o <<>> = c  BY <1>1, ConcatEmpty
<1>7. FlatMap(keep, t \o c) = c /\ FlatMap(keep, c \o t) = c  BY <1>3, <1>4, <1>5, <1>6
<1> QED  BY <1>1, <1>7 DEF t, c, keep

LEMMA StoryConcat ==
  ASSUME NEW s \in Seq(Happening), NEW t \in Seq(Happening), NEW u \in Seq(Happening)
  PROVE  (s \o t) \o u = s \o (t \o u) /\ t \o u \in Seq(Happening)
BY HappeningsConcat

\* The model answers: its calls are the last of the story, and have ids of their own.
LEMMA ReplyStep ==
  ASSUME ConversationInv, Reply
  PROVE  ConversationInv'
<1>1. /\ Typed /\ HistorySays = story /\ EachAnswered(ToolEvents)
      /\ api \in {"responses", "messages", "chat"} /\ history \in Seq(Form(api))
      /\ story \in Seq(Happening) /\ system \in Text
  BY DEF ConversationInv, Typed
<1>2. Fresh \in Nat  BY <1>1 DEF Fresh
<1>3. PICK text \in {<<>>, <<Fresh>>}, n \in 0 .. 2 : \E place \in Places(n) :
        LET from  == Len(story) + Len(text)
            calls == [k \in 1 .. n |->
                        [id |-> GivenId(k - 1, place[k], from + k), n |-> from + k]]
        IN  /\ story' = story \o Told("said", text) \o ToldOf("call", calls)
            /\ history' = history \o Answered(text, calls)
            /\ pending' = calls
            /\ turn' = IF n = 0 THEN "client" ELSE "tools"
  BY DEF Reply
<1>21. PICK place \in Places(n) :
        LET from  == Len(story) + Len(text)
            calls == [k \in 1 .. n |->
                        [id |-> GivenId(k - 1, place[k], from + k), n |-> from + k]]
        IN  /\ story' = story \o Told("said", text) \o ToldOf("call", calls)
            /\ history' = history \o Answered(text, calls)
            /\ pending' = calls
            /\ turn' = IF n = 0 THEN "client" ELSE "tools"
  BY <1>3
<1> DEFINE from  == Len(story) + Len(text)
           calls == [k \in 1 .. n |->
                       [id |-> GivenId(k - 1, place[k], from + k), n |-> from + k]]
           s == Told("said", text)
           c == ToldOf("call", calls)
           added == Answered(text, calls)
<1>4. /\ story' = (story \o s) \o c /\ history' = history \o added /\ pending' = calls
      /\ turn' \in {"client", "tools"} /\ UNCHANGED <<api, upstream, system, hinted>>
  BY <1>21 DEF Reply
<1>5. text \in Text
  <2>1. <<>> \in Text /\ <<Fresh>> \in Text  BY <1>2, OneType DEF Text
  <2> QED  BY <2>1
<1>6. from \in Nat
  <2>1. Len(story) \in Nat /\ Len(text) \in Nat  BY <1>1, <1>5 DEF Text
  <2> QED  BY <2>1
<1> HIDE DEF from
<1>7. \A k \in 1 .. n : calls[k] \in Call
  <2>1. \A k \in 1 .. n : from + k \in Nat /\ k - 1 \in Int  BY <1>6
  <2>2. \A k \in 1 .. n : place[k] \in Int  BY DEF Places
  <2>3. \A k \in 1 .. n : GivenId(k - 1, place[k], from + k) \in Int  BY <2>1, <2>2 DEF GivenId
  <2> QED  BY <2>1, <2>3 DEF Call
<1>8. n \in Nat  OBVIOUS
<1>9. calls \in Seq(Call) /\ Len(calls) = n  BY <1>7, <1>8
<1>10. Distinct(calls)
  <2> SUFFICES ASSUME NEW j \in 1 .. n, NEW k \in 1 .. n, calls[j].id = calls[k].id
               PROVE  j = k
    BY <1>9 DEF Distinct
  <2>1. /\ calls[j].id = GivenId(j - 1, place[j], from + j)
        /\ calls[k].id = GivenId(k - 1, place[k], from + k)
    OBVIOUS
  <2>2. j \in Int /\ k \in Int  OBVIOUS
  <2>3. place[j] = place[k] => j = k
    <3>1. /\ place[j] \in Int /\ place[k] \in Int
          /\ j < k => place[j] < place[k]
          /\ k < j => place[k] < place[j]
      BY DEF Places
    <3> QED  BY <2>2, <3>1
  <2> QED  BY <1>6, <2>1, <2>2, <2>3 DEF GivenId
<1> HIDE DEF calls
<1>11. added \in Seq(Form(api)) /\ Tells(api, added) = s \o c
  BY <1>1, <1>5, <1>9, AnsweredTells
<1>12. /\ s \in Seq(Happening) /\ c \in Seq(Happening)
       /\ FlatMap(KeepFn({"call", "result"}), s \o c) = c
  BY <1>5, <1>9, ToolsOfBoth
<1>13. EachAnswered(ToolEvents \o c) /\ EndsWithCalls(ToolEvents \o c, calls)
  <2>1. ToolEvents \in Seq(Happening)
    <3>1. Gives(KeepFn({"call", "result"}), Happening, Happening)  BY KeepIs
    <3> QED  BY <1>1, <3>1, FlatMapType DEF ToolEvents
  <2> QED  BY <1>1, <1>9, <1>10, <2>1, CallsAdded
<1> HIDE DEF s, c, added
<1> DEFINE told == s \o c
<1>14. story' = story \o told /\ told \in Seq(Happening)
  <2>1. (story \o s) \o c = story \o (s \o c) /\ s \o c \in Seq(Happening)
    BY ONLY <1>1, <1>12, StoryConcat
  <2> QED  BY <1>4, <2>1
<1>15. FlatMap(KeepFn({"call", "result"}), told) = c /\ Tells(api, added) = told
  BY <1>11, <1>12
<1> HIDE DEF told
<1>16. history' \in Seq(Form(api')) /\ story' \in Seq(Happening) /\ HistorySays' = story'
  BY <1>1, <1>4, <1>11, <1>14, <1>15, HistoryGrows
<1>17. ToolEvents' = ToolEvents \o c  BY <1>1, <1>14, <1>15, ToolEventsGrow
<1>18. EachAnswered(ToolEvents)' /\ EndsWithCalls(ToolEvents, pending)'
  BY <1>4, <1>13, <1>17 DEF EachAnswered, EndsWithCalls
<1>19. Typed'  BY <1>1, <1>4, <1>9, <1>16 DEF Typed
<1> QED  BY <1>16, <1>18, <1>19 DEF ConversationInv

LEMMA ReverseIs ==
  ASSUME NEW S, NEW s \in Seq(S)
  PROVE  /\ Reverse(s) \in Seq(S) /\ Len(Reverse(s)) = Len(s)
         /\ \A k \in 1 .. Len(s) : \E j \in 1 .. Len(s) : Reverse(s)[k] = s[j]
<1> DEFINE m == Len(s)
           r == Reverse(s)
<1>1. m \in Nat /\ \A k \in 1 .. m : m - k + 1 \in 1 .. m  OBVIOUS
<1>2. r = [k \in 1 .. m |-> s[m - k + 1]]  BY DEF Reverse
<1>3. \A j \in 1 .. m : s[j] \in S  OBVIOUS
<1> HIDE DEF m, r
<1>4. \A k \in 1 .. m : r[k] \in S  BY <1>1, <1>2, <1>3
<1>5. r \in Seq(S) /\ Len(r) = m  BY <1>1, <1>2, <1>4
<1>6. \A k \in 1 .. m : \E j \in 1 .. m : r[k] = s[j]  BY <1>1, <1>2
<1> QED  BY <1>5, <1>6 DEF m, r

\* The results come back in either order, with or without a text.
LEMMA ReturnStep ==
  ASSUME ConversationInv, Return
  PROVE  ConversationInv'
<1>1. /\ Typed /\ HistorySays = story /\ EachAnswered(ToolEvents)
      /\ api \in {"responses", "messages", "chat"} /\ history \in Seq(Form(api))
      /\ story \in Seq(Happening) /\ system \in Text /\ pending \in Seq(Call)
  BY DEF ConversationInv, Typed
<1>2. EndsWithCalls(ToolEvents, pending)  BY DEF ConversationInv, Return
<1>3. PICK results \in {pending, Reverse(pending)}, withText \in BOOLEAN :
        LET text == IF withText THEN <<Fresh + Len(pending)>> ELSE <<>>
        IN  /\ story' = story \o ToldOf("result", results) \o Told("user", text)
            /\ history' = history \o Returned(results, text)
  BY DEF Return
<1> DEFINE text  == IF withText THEN <<Fresh + Len(pending)>> ELSE <<>>
           c == ToldOf("result", results)
           s == Told("user", text)
           added == Returned(results, text)
<1>4. /\ story' = (story \o c) \o s /\ history' = history \o added /\ pending' = <<>>
      /\ turn' \in {"client", "model"} /\ UNCHANGED <<api, upstream, system, hinted>>
  BY <1>3 DEF Return
<1>5. text \in Text
  <2>1. Fresh + Len(pending) \in Nat
    <3>1. Len(story) \in Nat /\ Len(pending) \in Nat  BY <1>1
    <3> QED  BY <3>1 DEF Fresh
  <2>2. <<>> \in Text /\ <<Fresh + Len(pending)>> \in Text  BY <2>1, OneType DEF Text
  <2> QED  BY <2>2
<1>6. /\ results \in Seq(Call)
      /\ \A k \in 1 .. Len(results) : \E j \in 1 .. Len(pending) : results[k] = pending[j]
  <2>1. CASE results = pending  BY <1>1, <2>1
  <2>2. CASE results = Reverse(pending)
    <3>1. /\ Reverse(pending) \in Seq(Call) /\ Len(Reverse(pending)) = Len(pending)
          /\ \A k \in 1 .. Len(pending) :
               \E j \in 1 .. Len(pending) : Reverse(pending)[k] = pending[j]
      BY <1>1, ReverseIs
    <3> QED  BY <2>2, <3>1
  <2> QED  BY <2>1, <2>2
<1> HIDE DEF text
<1>7. added \in Seq(Form(api)) /\ Tells(api, added) = c \o s
  BY <1>1, <1>5, <1>6, ReturnedTells
<1>8. /\ s \in Seq(Happening) /\ c \in Seq(Happening)
      /\ FlatMap(KeepFn({"call", "result"}), c \o s) = c
  BY <1>5, <1>6, ToolsOfBoth
<1>9. EachAnswered(ToolEvents \o c)
  <2>1. ToolEvents \in Seq(Happening)
    <3>1. Gives(KeepFn({"call", "result"}), Happening, Happening)  BY KeepIs
    <3> QED  BY <1>1, <3>1, FlatMapType DEF ToolEvents
  <2> QED  BY <1>1, <1>2, <1>6, <2>1, ResultsAdded
<1> HIDE DEF s, c, added
<1> DEFINE told == c \o s
<1>10. story' = story \o told /\ told \in Seq(Happening)
  <2>1. (story \o c) \o s = story \o (c \o s) /\ c \o s \in Seq(Happening)
    BY ONLY <1>1, <1>8, StoryConcat
  <2> QED  BY <1>4, <2>1
<1>11. FlatMap(KeepFn({"call", "result"}), told) = c /\ Tells(api, added) = told
  BY <1>7, <1>8
<1> HIDE DEF told
<1>12. history' \in Seq(Form(api')) /\ story' \in Seq(Happening) /\ HistorySays' = story'
  BY <1>1, <1>4, <1>7, <1>10, <1>11, HistoryGrows
<1>13. ToolEvents' = ToolEvents \o c  BY <1>1, <1>10, <1>11, ToolEventsGrow
<1>14. EachAnswered(ToolEvents)'  BY <1>9, <1>13 DEF EachAnswered
<1>15. Typed'
  <2>1. <<>> \in Seq(Call)  OBVIOUS
  <2> QED  BY <1>1, <1>4, <1>12, <2>1 DEF Typed
<1> QED  BY <1>4, <1>12, <1>14, <1>15 DEF ConversationInv

LEMMA ConversationStutters ==
  ASSUME ConversationInv, UNCHANGED vars
  PROVE  ConversationInv'
<1>1. UNCHANGED <<api, upstream, story, history, system, hinted, turn, pending>>  BY DEF vars
<1>2. Typed'  BY <1>1 DEF ConversationInv, Typed
<1>3. HistorySays' = story'  BY <1>1 DEF ConversationInv, HistorySays
<1>4. ToolEvents' = ToolEvents  BY <1>1 DEF ToolEvents
<1>5. EachAnswered(ToolEvents)' /\ (turn' = "tools" => EndsWithCalls(ToolEvents, pending)')
  BY <1>1, <1>4 DEF ConversationInv, EachAnswered, EndsWithCalls
<1> QED  BY <1>2, <1>3, <1>5 DEF ConversationInv

\* The history in the form of the client tells the story, and every result has
\* its call before it.
THEOREM ConversationKept ==
  Spec => []ConversationInv
<1>1. ConversationInv /\ [Next]_vars => ConversationInv'
  <2> SUFFICES ASSUME ConversationInv, [Next]_vars  PROVE ConversationInv'
    OBVIOUS
  <2>1. CASE Speak \/ Direct  BY <2>1, SpeakStep
  <2>2. CASE Reply  BY <2>2, ReplyStep
  <2>3. CASE Return  BY <2>3, ReturnStep
  <2>4. CASE UNCHANGED vars  BY <2>4, ConversationStutters
  <2> QED  BY <2>1, <2>2, <2>3, <2>4 DEF Next
<1> QED  BY <1>1, ConversationInit, PTL DEF Spec

\* No turn loses, doubles or reorders what the model has to go by, whichever two
\* APIs are joined and however long the conversation; the proxy's hint is all that
\* comes to it (responses_to_chat.py:155-244, 305-310, anthropic.py:72-118, 336-400,
\* gemini.py:64-123).
THEOREM ConversationStorySurvives ==
  Spec => []StorySurvives
BY ConversationKept, InvSurvives, PTL

\* The last call with the id of a result is the call it answers, also where ids are
\* made from places and come back (gemini.py:202, ollama_native.py:261).
THEOREM ConversationLatestCallAnswered ==
  Spec => []LatestCallAnswered
BY ConversationKept, InvLatest, PTL

\* Chat upstreams get one system message, in front, whether the client has
\* instructions, gives directions later, and the proxy adds its hint or not
\* (responses_to_chat.py:202-244, 305-310, anthropic.py:61-70).
THEOREM ConversationOneSystemInFront ==
  Spec => []OneSystemInFront
BY ConversationKept, InvOneSystem, PTL
=============================================================================
