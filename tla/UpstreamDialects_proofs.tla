----------------------- MODULE UpstreamDialects_proofs -----------------------
(***************************************************************************)
(* Proofs about the translated streams of UpstreamDialects: what Only      *)
(* selects, which units a reply has, the inductive invariant, and from it  *)
(* that a client that streams gets the answer of one that does not, that   *)
(* the chunks are a chat stream, and the protocol of /v1/messages.         *)
(***************************************************************************)
EXTENDS UpstreamDialects, SequenceLaws, FiniteSetTheorems, TLAPS

-----------------------------------------------------------------------------
(* Selections.                                                             *)

Sieve(E, S) == [e \in E |-> IF e \in S THEN <<e>> ELSE <<>>]

LEMMA SieveGives ==
  ASSUME NEW E, NEW S
  PROVE  Gives(Sieve(E, S), E, E \cap S) /\ Gives(Sieve(E, S), E, E)
<1>1. ASSUME NEW e \in E
      PROVE  /\ (IF e \in S THEN <<e>> ELSE <<>>) \in Seq(E \cap S)
             /\ (IF e \in S THEN <<e>> ELSE <<>>) \in Seq(E)
  <2>1. CASE e \in S
    <3>1. e \in E \cap S  BY <2>1
    <3> QED  BY <2>1, <3>1
  <2>2. CASE e \notin S  BY <2>2
  <2> QED  BY <2>1, <2>2
<1> QED  BY <1>1 DEF Sieve, Gives

LEMMA OnlyIsFlatMap ==
  ASSUME NEW E, NEW S, NEW s \in Seq(E)
  PROVE  Only(s, S) = FlatMap(Sieve(E, S), s)
<1>1. \A i \in DOMAIN s : s[i] \in E  OBVIOUS
<1>2. [i \in DOMAIN s |-> IF s[i] \in S THEN <<s[i]>> ELSE <<>>]
        = [i \in DOMAIN s |-> Sieve(E, S)[s[i]]]
  BY <1>1 DEF Sieve
<1> QED  BY <1>2 DEF Only, FlatMap, Pieces

LEMMA OnlyEmpty ==
  ASSUME NEW S
  PROVE  Only(<<>>, S) = <<>>
<1>1. Only(<<>>, S) = FlatMap(Sieve({}, S), <<>>)
  <2>1. <<>> \in Seq({})  OBVIOUS
  <2> QED  BY <2>1, OnlyIsFlatMap
<1> QED  BY <1>1, FlatMapEmpty

LEMMA OnlyType ==
  ASSUME NEW E, NEW S, NEW s \in Seq(E)
  PROVE  Only(s, S) \in Seq(E \cap S) /\ Only(s, S) \in Seq(E)
<1>1. FlatMap(Sieve(E, S), s) \in Seq(E \cap S)
  <2> DEFINE R == E \cap S
  <2>1. Gives(Sieve(E, S), E, R)  BY SieveGives
  <2> HIDE DEF R
  <2>2. FlatMap(Sieve(E, S), s) \in Seq(R)  BY <2>1, FlatMapType
  <2> QED  BY <2>2 DEF R
<1>2. FlatMap(Sieve(E, S), s) \in Seq(E)
  <2>1. Gives(Sieve(E, S), E, E)  BY SieveGives
  <2> QED  BY <2>1, FlatMapType
<1> QED  BY <1>1, <1>2, OnlyIsFlatMap

LEMMA OnlyConcat ==
  ASSUME NEW E, NEW S, NEW s \in Seq(E), NEW t \in Seq(E)
  PROVE  Only(s \o t, S) = Only(s, S) \o Only(t, S)
<1>1. s \o t \in Seq(E)  OBVIOUS
<1>2. Gives(Sieve(E, S), E, E)  BY SieveGives
<1>3. FlatMap(Sieve(E, S), s \o t) = FlatMap(Sieve(E, S), s) \o FlatMap(Sieve(E, S), t)
  BY <1>2, FlatMapConcat
<1>4. /\ Only(s \o t, S) = FlatMap(Sieve(E, S), s \o t)
      /\ Only(s, S) = FlatMap(Sieve(E, S), s) /\ Only(t, S) = FlatMap(Sieve(E, S), t)
  BY <1>1, OnlyIsFlatMap
<1> QED  BY <1>3, <1>4

LEMMA OnlyAppend ==
  ASSUME NEW E, NEW S, NEW s \in Seq(E), NEW e \in E
  PROVE  /\ Only(Append(s, e), S) = IF e \in S THEN Append(Only(s, S), e) ELSE Only(s, S)
         /\ Only(s, S) \in Seq(E)
<1> DEFINE f == Sieve(E, S)
           o == Only(s, S)
<1>1. Append(s, e) \in Seq(E)  OBVIOUS
<1>2. Gives(f, E, E) /\ f[e] = IF e \in S THEN <<e>> ELSE <<>>  BY SieveGives DEF Sieve
<1>3. Only(Append(s, e), S) = FlatMap(f, Append(s, e)) /\ o = FlatMap(f, s)
  BY <1>1, OnlyIsFlatMap
<1> HIDE DEF f
<1>4. FlatMap(f, Append(s, e)) = FlatMap(f, s) \o f[e]
  <2>1. Gives(f, E, E)  BY <1>2
  <2> QED  BY ONLY <2>1, FlatMapAppend
<1>5. o \in Seq(E)  BY OnlyType
<1> HIDE DEF o
<1>6. o \o <<e>> = Append(o, e) /\ o \o <<>> = o  BY <1>5
<1>7. Only(Append(s, e), S) = IF e \in S THEN Append(o, e) ELSE o
  BY <1>2, <1>3, <1>4, <1>6
<1> QED  BY <1>5, <1>7 DEF o

LEMMA OnlyOne ==
  ASSUME NEW e, NEW S
  PROVE  Only(<<e>>, S) = IF e \in S THEN <<e>> ELSE <<>>
<1> DEFINE f == Sieve({e}, S)
<1>1. e \in {e} /\ <<e>> \in Seq({e})  OBVIOUS
<1>2. Gives(f, {e}, {e}) /\ f[e] = IF e \in S THEN <<e>> ELSE <<>>  BY SieveGives DEF Sieve
<1>3. Only(<<e>>, S) = FlatMap(f, <<e>>)  BY <1>1, OnlyIsFlatMap
<1> HIDE DEF f
<1>4. FlatMap(f, <<e>>) = f[e]  BY <1>1, <1>2, FlatMapOne
<1> QED  BY <1>2, <1>3, <1>4

\* How many are selected.
LEMMA OnlyCounts ==
  ASSUME NEW E, NEW S, NEW R, E \subseteq S \cup R, E \cap S \cap R = {}
  PROVE  \A s \in Seq(E) : Len(Only(s, S)) + Len(Only(s, R)) = Len(s)
<1> DEFINE T == {s \in Seq(E) : Len(Only(s, S)) + Len(Only(s, R)) = Len(s)}
<1>1. <<>> \in T  BY OnlyEmpty
<1>2. ASSUME NEW s \in Seq(E), NEW e \in E, s \in T  PROVE Append(s, e) \in T
  <2> DEFINE o == Only(s, S)
             p == Only(s, R)
  <2>1. /\ o \in Seq(E) /\ p \in Seq(E)
        /\ Only(Append(s, e), S) = IF e \in S THEN Append(o, e) ELSE o
        /\ Only(Append(s, e), R) = IF e \in R THEN Append(p, e) ELSE p
    BY OnlyAppend
  <2>2. Len(o) + Len(p) = Len(s)  BY <1>2
  <2>3. e \in S <=> e \notin R  OBVIOUS
  <2>4. Append(s, e) \in Seq(E) /\ Len(Append(s, e)) = Len(s) + 1  OBVIOUS
  <2> HIDE DEF o, p
  <2> QED  BY <2>1, <2>2, <2>3, <2>4
<1> HIDE DEF T
<1>3. Seq(E) \subseteq T  BY <1>1, <1>2, SeqInduction
<1> QED  BY <1>3 DEF T

LEMMA OnlyOrElse ==
  ASSUME NEW E, NEW S
  PROVE  \A s \in Seq(E) :
           /\ Len(Only(s, S)) <= Len(s)
           /\ Only(s, S) = <<>> <=> \A i \in DOMAIN s : s[i] \notin S
<1> DEFINE T == {s \in Seq(E) : /\ Len(Only(s, S)) <= Len(s)
                                /\ Only(s, S) = <<>> <=> \A i \in DOMAIN s : s[i] \notin S}
<1>1. <<>> \in T  BY OnlyEmpty
<1>2. ASSUME NEW s \in Seq(E), NEW e \in E, s \in T  PROVE Append(s, e) \in T
  <2> DEFINE o == Only(s, S)
             t == Append(s, e)
  <2>1. o \in Seq(E) /\ Only(t, S) = IF e \in S THEN Append(o, e) ELSE o
    BY OnlyAppend
  <2>2. Len(o) <= Len(s) /\ (o = <<>> <=> \A i \in DOMAIN s : s[i] \notin S)  BY <1>2
  <2>3. /\ t \in Seq(E) /\ Len(t) = Len(s) + 1 /\ t[Len(s) + 1] = e
        /\ DOMAIN t = 1 .. Len(s) + 1 /\ DOMAIN s = 1 .. Len(s) /\ Len(s) \in Nat
        /\ \A i \in 1 .. Len(s) : t[i] = s[i]
    OBVIOUS
  <2> HIDE DEF o, t
  <2>4. Len(Only(t, S)) <= Len(t)  BY <2>1, <2>2, <2>3
  <2>5. Only(t, S) = <<>> <=> \A i \in DOMAIN t : t[i] \notin S
    <3>1. CASE e \in S
      <4>1. Len(s) + 1 \in DOMAIN t  BY <2>3
      <4>2. Append(o, e) # <<>>  BY <2>1
      <4> QED  BY <2>1, <2>3, <3>1, <4>1, <4>2
    <3>2. CASE e \notin S
      <4>1. (\A i \in DOMAIN t : t[i] \notin S) <=> \A i \in DOMAIN s : s[i] \notin S
        BY <2>3, <3>2
      <4> QED  BY <2>1, <2>2, <3>2, <4>1
    <3> QED  BY <3>1, <3>2
  <2> QED  BY <2>3, <2>4, <2>5 DEF t
<1> HIDE DEF T
<1>3. Seq(E) \subseteq T  BY <1>1, <1>2, SeqInduction
<1> QED  BY <1>3 DEF T

LEMMA OnlyAll ==
  ASSUME NEW E, NEW S, E \subseteq S
  PROVE  \A s \in Seq(E) : Only(s, S) = s
<1> DEFINE T == {s \in Seq(E) : Only(s, S) = s}
<1>1. <<>> \in T  BY OnlyEmpty
<1>2. ASSUME NEW s \in Seq(E), NEW e \in E, s \in T  PROVE Append(s, e) \in T
  <2>1. Only(Append(s, e), S) = Append(Only(s, S), e)  BY OnlyAppend
  <2> QED  BY <1>2, <2>1
<1> HIDE DEF T
<1>3. Seq(E) \subseteq T  BY <1>1, <1>2, SeqInduction
<1> QED  BY <1>3 DEF T

-----------------------------------------------------------------------------
(* The units of a reply.                                                   *)

\* The pieces of texts and of arguments.
Fragment == (1 .. MaxBlocks) \X (0 .. 2)

Setting == dialect \in DOMAIN Reasons /\ reply \in Replies /\ reason \in Reasons[dialect]

UnitsFn == [k \in DOMAIN reply |-> UnitsOf(k)]

LEMMA ReplyFacts ==
  ASSUME Setting
  PROVE  /\ reply \in Seq({"text", "call"}) /\ Len(reply) \in 0 .. MaxBlocks
         /\ DOMAIN reply = 1 .. Len(reply) /\ DOMAIN reply \subseteq 1 .. MaxBlocks
         /\ InOrder \in Seq(DOMAIN reply) /\ Len(InOrder) = Len(reply)
         /\ Blocks("text") \cup Blocks("call") = DOMAIN reply
         /\ Blocks("text") \cap Blocks("call") = {}
<1>1. PICK n \in 0 .. MaxBlocks : reply \in [1 .. n -> {"text", "call"}]  BY DEF Setting, Replies
<1>2. /\ reply \in Seq({"text", "call"}) /\ Len(reply) \in 0 .. MaxBlocks
      /\ DOMAIN reply = 1 .. Len(reply) /\ DOMAIN reply \subseteq 1 .. MaxBlocks
  BY <1>1, DialectsAssumption
<1>3. \A k \in DOMAIN reply : reply[k] \in {"text", "call"}  BY <1>1
<1> QED  BY <1>2, <1>3 DEF InOrder, Blocks

LEMMA UnitsOfType ==
  ASSUME Setting, NEW k \in DOMAIN reply
  PROVE  /\ UnitsOf(k) \in Seq(Fragment)
         /\ \A w \in {"text", "call"} : reply[k] = w => UnitsOf(k) \in Seq(UnitsIn(w))
         /\ reply[k] = "call" /\ dialect # "anthropic" => UnitsOf(k) = <<<<k, 0>>>>
         /\ reply[k] = "text" \/ dialect = "anthropic" => UnitsOf(k) = <<<<k, 1>>, <<k, 2>>>>
<1>1. k \in 1 .. MaxBlocks  BY ReplyFacts
<1>2. \A j \in 0 .. 2 : <<k, j>> \in Fragment  BY <1>1 DEF Fragment
<1>3. \A w \in {"text", "call"}, j \in 0 .. 2 : reply[k] = w => <<k, j>> \in UnitsIn(w)
  BY DEF UnitsIn, Blocks
<1>4. UnitsOf(k) = <<<<k, 0>>>> \/ UnitsOf(k) = <<<<k, 1>>, <<k, 2>>>>  BY DEF UnitsOf
<1>5. ASSUME NEW S, \A j \in 0 .. 2 : <<k, j>> \in S  PROVE UnitsOf(k) \in Seq(S)
  <2> DEFINE a == <<k, 0>>
             b == <<k, 1>>
             c == <<k, 2>>
  <2>1. a \in S /\ b \in S /\ c \in S  BY <1>5
  <2>2. UnitsOf(k) = <<a>> \/ UnitsOf(k) = <<b, c>>  BY <1>4
  <2> HIDE DEF a, b, c
  <2>3. <<a>> \in Seq(S) /\ <<b, c>> \in Seq(S)  BY <2>1
  <2>4. CASE UnitsOf(k) = <<a>>  BY ONLY <2>3, <2>4
  <2>5. CASE UnitsOf(k) = <<b, c>>  BY ONLY <2>3, <2>5
  <2> QED  BY ONLY <2>2, <2>4, <2>5
<1>6. UnitsOf(k) \in Seq(Fragment)  BY <1>2, <1>5
<1>7. ASSUME NEW w \in {"text", "call"}, reply[k] = w  PROVE UnitsOf(k) \in Seq(UnitsIn(w))
  <2>1. \A j \in 0 .. 2 : <<k, j>> \in UnitsIn(w)  BY <1>3, <1>7
  <2> QED  BY <1>5, <2>1
<1>8. /\ reply[k] = "call" /\ dialect # "anthropic" => UnitsOf(k) = <<<<k, 0>>>>
      /\ reply[k] = "text" \/ dialect = "anthropic" => UnitsOf(k) = <<<<k, 1>>, <<k, 2>>>>
  BY DEF UnitsOf
<1> QED  BY <1>6, <1>7, <1>8

LEMMA UnitsFnGives ==
  ASSUME Setting
  PROVE  /\ Gives(UnitsFn, DOMAIN reply, Fragment)
         /\ \A bs \in Seq(DOMAIN reply) : UnitsOfAll(bs) = FlatMap(UnitsFn, bs)
<1>1. \A k \in DOMAIN reply : UnitsOf(k) \in Seq(Fragment)  BY UnitsOfType
<1>2. Gives(UnitsFn, DOMAIN reply, Fragment)  BY <1>1 DEF UnitsFn, Gives
<1>3. ASSUME NEW bs \in Seq(DOMAIN reply)
      PROVE  [i \in DOMAIN bs |-> UnitsOf(bs[i])] = Pieces(UnitsFn, bs)
  <2>1. \A i \in DOMAIN bs : bs[i] \in DOMAIN reply  OBVIOUS
  <2> QED  BY <2>1 DEF UnitsFn, Pieces
<1> QED  BY <1>2, <1>3 DEF UnitsOfAll, FlatMap

\* Flattening blocks and then selecting the units of one kind is the same as
\* selecting the blocks of that kind first.
LEMMA UnitsOfKind ==
  ASSUME Setting, NEW w \in {"text", "call"}, NEW bs \in Seq(DOMAIN reply)
  PROVE  Only(UnitsOfAll(bs), UnitsIn(w)) = UnitsOfAll(Only(bs, Blocks(w)))
<1> DEFINE D == DOMAIN reply
           S == UnitsIn(w)
           B == Blocks(w)
           g == Sieve(Fragment, S)
           b == Sieve(D, B)
           h == [k \in D |-> FlatMap(g, UnitsFn[k])]
<1>1. Gives(UnitsFn, D, Fragment) /\ Gives(g, Fragment, Fragment) /\ Gives(b, D, D)
  BY UnitsFnGives, SieveGives
<1>2. ASSUME NEW k \in D  PROVE h[k] = FlatMap(UnitsFn, b[k]) /\ h[k] \in Seq(Fragment)
  <2>1. UnitsFn[k] = UnitsOf(k) /\ UnitsOf(k) \in Seq(Fragment)  BY UnitsOfType DEF UnitsFn
  <2>2. h[k] = Only(UnitsOf(k), S)
    <3>1. FlatMap(g, UnitsOf(k)) = Only(UnitsOf(k), S)  BY <2>1, OnlyIsFlatMap
    <3> QED  BY <2>1, <3>1
  <2>3. CASE reply[k] = w
    <3>1. UnitsOf(k) \in Seq(S)  BY <2>3, UnitsOfType
    <3>2. Only(UnitsOf(k), S) = UnitsOf(k)  BY <3>1, OnlyAll
    <3>3. b[k] = <<k>>  BY <2>3 DEF Sieve, Blocks
    <3>4. FlatMap(UnitsFn, <<k>>) = UnitsFn[k]  BY <1>1, FlatMapOne
    <3> QED  BY <2>1, <2>2, <3>2, <3>3, <3>4
  <2>4. CASE reply[k] # w
    <3>1. b[k] = <<>>  BY <2>4 DEF Sieve, Blocks
    <3>2. \A j : <<k, j>> \notin S  BY <2>4 DEF UnitsIn, Blocks
    <3>3. UnitsOf(k) = <<<<k, 0>>>> \/ UnitsOf(k) = <<<<k, 1>>, <<k, 2>>>>  BY DEF UnitsOf
    <3>4. \A i \in DOMAIN UnitsOf(k) : UnitsOf(k)[i] \notin S  BY <3>2, <3>3
    <3>5. Only(UnitsOf(k), S) = <<>>  BY <2>1, <3>4, OnlyOrElse
    <3>6. FlatMap(UnitsFn, <<>>) = <<>>  BY FlatMapEmpty
    <3>7. <<>> \in Seq(Fragment)  OBVIOUS
    <3> QED  BY <2>2, <3>1, <3>5, <3>6, <3>7
  <2> QED  BY <2>3, <2>4
<1>3. Gives(h, D, Fragment)  BY <1>2 DEF Gives
<1>4. FlatMap(g, FlatMap(UnitsFn, bs)) = FlatMap(h, bs)
  <2>1. \A k \in D : h[k] = FlatMap(g, UnitsFn[k])  OBVIOUS
  <2> HIDE DEF h, g
  <2> QED  BY <1>1, <1>3, <2>1, FlatMapTwice
<1>5. FlatMap(UnitsFn, FlatMap(b, bs)) = FlatMap(h, bs)
  <2>1. \A k \in D : h[k] = FlatMap(UnitsFn, b[k])  BY <1>2
  <2> HIDE DEF h, b
  <2> QED  BY <1>1, <1>3, <2>1, FlatMapTwice
<1>6. UnitsOfAll(bs) = FlatMap(UnitsFn, bs) /\ UnitsOfAll(bs) \in Seq(Fragment)
  BY <1>1, UnitsFnGives, FlatMapType
<1>7. Only(UnitsOfAll(bs), S) = FlatMap(g, UnitsOfAll(bs))  BY <1>6, OnlyIsFlatMap
<1>8. Only(bs, B) = FlatMap(b, bs) /\ Only(bs, B) \in Seq(D)  BY OnlyIsFlatMap, OnlyType
<1>9. UnitsOfAll(Only(bs, B)) = FlatMap(UnitsFn, Only(bs, B))  BY <1>8, UnitsFnGives
<1> QED  BY <1>4, <1>5, <1>6, <1>7, <1>8, <1>9

-----------------------------------------------------------------------------
(* All units, and how many blocks they stand for.                          *)

LEMMA UnitsType ==
  ASSUME Setting
  PROVE  /\ Order \in Seq(DOMAIN reply) /\ Units \in Seq(Fragment)
         /\ \A w \in {"text", "call"} : Only(InOrder, Blocks(w)) \in Seq(DOMAIN reply)
<1>1. InOrder \in Seq(DOMAIN reply)  BY ReplyFacts
<1>2. \A w \in {"text", "call"} : Only(InOrder, Blocks(w)) \in Seq(DOMAIN reply)
  BY <1>1, OnlyType
<1>3. Only(InOrder, Blocks("text")) \o Only(InOrder, Blocks("call")) \in Seq(DOMAIN reply)
  <2>1. /\ Only(InOrder, Blocks("text")) \in Seq(DOMAIN reply)
        /\ Only(InOrder, Blocks("call")) \in Seq(DOMAIN reply)
    BY <1>2
  <2> QED  BY <2>1, ConcatProperties
<1>4. Order \in Seq(DOMAIN reply)  BY <1>1, <1>3 DEF Order
<1>5. Units = FlatMap(UnitsFn, Order) /\ Gives(UnitsFn, DOMAIN reply, Fragment)
  BY <1>4, UnitsFnGives DEF Units
<1>6. Units \in Seq(Fragment)  BY <1>4, <1>5, FlatMapType
<1> QED  BY <1>2, <1>4, <1>6

\* Whatever the order of sending, each kind comes in the order of the reply.
LEMMA KindsInOrder ==
  ASSUME Setting, NEW w \in {"text", "call"}
  PROVE  Only(Units, UnitsIn(w)) = UnitsOfAll(Only(InOrder, Blocks(w)))
<1> DEFINE A == Only(InOrder, Blocks("text"))
           B == Only(InOrder, Blocks("call"))
<1>1. /\ InOrder \in Seq(DOMAIN reply)
      /\ A \in Seq(DOMAIN reply) /\ B \in Seq(DOMAIN reply)
  BY ReplyFacts, UnitsType
<1>2. Only(Units, UnitsIn(w)) = UnitsOfAll(Only(Order, Blocks(w)))
  BY UnitsType, UnitsOfKind DEF Units
<1>3. CASE dialect # "ollama"
  BY <1>2, <1>3 DEF Order
<1>4. CASE dialect = "ollama"
  <2>1. Order = A \o B  BY <1>4 DEF Order
  <2>2. Only(A \o B, Blocks(w)) = Only(A, Blocks(w)) \o Only(B, Blocks(w))
    <3>1. A \in Seq(DOMAIN reply) /\ B \in Seq(DOMAIN reply)  BY <1>1
    <3> HIDE DEF A, B
    <3> QED  BY <3>1, OnlyConcat
  <2>3. A \in Seq(Blocks("text")) /\ B \in Seq(Blocks("call"))
    <3>1. /\ A \in Seq(DOMAIN reply \cap Blocks("text"))
          /\ B \in Seq(DOMAIN reply \cap Blocks("call"))
      BY <1>1, OnlyType
    <3>2. /\ DOMAIN reply \cap Blocks("text") = Blocks("text")
          /\ DOMAIN reply \cap Blocks("call") = Blocks("call")
      BY DEF Blocks
    <3> QED  BY <3>1, <3>2
  <2>4. Blocks("text") \cap Blocks("call") = {}  BY ReplyFacts
  <2> HIDE DEF A, B
  <2>5. CASE w = "text"
    <3>1. Only(A, Blocks(w)) = A  BY <2>3, <2>5, OnlyAll
    <3>2. \A i \in DOMAIN B : B[i] \notin Blocks(w)  BY <2>3, <2>4, <2>5
    <3>3. Only(B, Blocks(w)) = <<>>  BY <2>3, <3>2, OnlyOrElse
    <3>4. A \o <<>> = A  BY <1>1
    <3>5. Only(Order, Blocks(w)) = A  BY <2>1, <2>2, <3>1, <3>3, <3>4
    <3> QED  BY <1>2, <2>5, <3>5 DEF A
  <2>6. CASE w = "call"
    <3>1. Only(B, Blocks(w)) = B  BY <2>3, <2>6, OnlyAll
    <3>2. \A i \in DOMAIN A : A[i] \notin Blocks(w)  BY <2>3, <2>4, <2>6
    <3>3. Only(A, Blocks(w)) = <<>>  BY <2>3, <3>2, OnlyOrElse
    <3>4. <<>> \o B = B  BY <1>1
    <3>5. Only(Order, Blocks(w)) = B  BY <2>1, <2>2, <3>1, <3>3, <3>4
    <3> QED  BY <1>2, <2>6, <3>5 DEF B
  <2> QED  BY <2>5, <2>6
<1> QED  BY <1>3, <1>4

\* A call that is sent whole is one unit.
LEMMA WholeCalls ==
  ASSUME Setting, dialect # "anthropic"
  PROVE  LET cs == Only(InOrder, Blocks("call"))
         IN  Only(Units, UnitsIn("call")) = [i \in DOMAIN cs |-> <<cs[i], 0>>]
<1> DEFINE cs == Only(InOrder, Blocks("call"))
           us == [i \in DOMAIN cs |-> <<cs[i], 0>>]
           D == DOMAIN reply
           C == Blocks("call")
<1>1. InOrder \in Seq(D) /\ cs \in Seq(D) /\ cs \in Seq(C)
  <2>1. InOrder \in Seq(D)  BY ReplyFacts
  <2>2. cs \in Seq(D \cap C) /\ cs \in Seq(D)  BY <2>1, OnlyType
  <2>3. D \cap C = C  BY DEF Blocks
  <2> QED  BY <2>1, <2>2, <2>3
<1>2. Only(Units, UnitsIn("call")) = FlatMap(UnitsFn, cs)
  <2>1. Only(Units, UnitsIn("call")) = UnitsOfAll(cs)  BY KindsInOrder
  <2> QED  BY <1>1, <2>1, UnitsFnGives
<1>3. ASSUME NEW i \in 1 .. Len(cs)
      PROVE  UnitsFn[cs[i]] = <<<<cs[i], 0>>>> /\ <<cs[i], 0>> \in Fragment
  <2>1. cs[i] \in D /\ cs[i] \in C  BY <1>1
  <2>2. UnitsOf(cs[i]) = <<<<cs[i], 0>>>>  BY <2>1, UnitsOfType DEF Blocks
  <2>3. cs[i] \in 1 .. MaxBlocks  BY <2>1, ReplyFacts
  <2> QED  BY <2>1, <2>2, <2>3 DEF UnitsFn, Fragment
<1> HIDE DEF cs
<1>4. us \in Seq(Fragment) /\ Len(us) = Len(cs) /\ \A i \in 1 .. Len(cs) : us[i] = <<cs[i], 0>>
  <2>1. Len(cs) \in Nat /\ DOMAIN cs = 1 .. Len(cs)  BY <1>1
  <2>2. us \in [1 .. Len(cs) -> Fragment]  BY <1>3, <2>1
  <2>3. us \in Seq(Fragment) /\ Len(us) = Len(cs)  BY <2>1, <2>2
  <2> QED  BY <2>1, <2>3
<1>5. FlatMap(UnitsFn, cs) = us
  <2>1. Gives(UnitsFn, D, Fragment)  BY UnitsFnGives
  <2>2. Singles(UnitsFn, cs, us)  BY <1>3, <1>4 DEF Singles
  <2>3. cs \in Seq(D) /\ us \in Seq(Fragment)  BY <1>1, <1>4
  <2> HIDE DEF us, D
  <2> QED  BY ONLY <2>1, <2>2, <2>3, FlatMapIs
<1> QED  BY <1>2, <1>5 DEF cs

\* What Anthropic sends is block after block, each in two units.
NumbersTo(n) == [i \in 1 .. n |-> i]

LEMMA NumbersAppend ==
  ASSUME NEW n \in Nat
  PROVE  /\ NumbersTo(n + 1) = Append(NumbersTo(n), n + 1)
         /\ \A m \in Nat : n <= m => NumbersTo(n) \in Seq(1 .. m)
  BY DEF NumbersTo

Paired(u, n) ==
  /\ u \in Seq(Fragment) /\ Len(u) = 2 * n
  /\ \A k \in 1 .. n : u[2 * k - 1] = <<k, 1>> /\ u[2 * k] = <<k, 2>>

LEMMA PairedMore ==
  ASSUME NEW n \in Nat, n + 1 <= MaxBlocks, NEW u, Paired(u, n)
  PROVE  Paired(u \o <<<<n + 1, 1>>, <<n + 1, 2>>>>, n + 1)
<1> DEFINE a == <<n + 1, 1>>
           b == <<n + 1, 2>>
           v == u \o <<a, b>>
<1>1. a \in Fragment /\ b \in Fragment  BY DialectsAssumption DEF Fragment
<1>2. u \in Seq(Fragment) /\ Len(u) = 2 * n  BY DEF Paired
<1>3. /\ v \in Seq(Fragment) /\ Len(v) = 2 * n + 2
      /\ \A i \in 1 .. 2 * n : v[i] = u[i]
      /\ v[2 * n + 1] = a /\ v[2 * n + 2] = b
  <2> HIDE DEF a, b, v
  <2>1. <<a, b>> \in Seq(Fragment) /\ Len(<<a, b>>) = 2 /\ <<a, b>>[1] = a /\ <<a, b>>[2] = b
    BY <1>1
  <2> DEFINE w == <<a, b>>
  <2>2. w \in Seq(Fragment) /\ Len(w) = 2 /\ w[1] = a /\ w[2] = b  BY <2>1
  <2> HIDE DEF w
  <2>3. /\ u \o w \in Seq(Fragment) /\ Len(u \o w) = Len(u) + Len(w)
        /\ \A i \in 1 .. Len(u) : (u \o w)[i] = u[i]
        /\ \A i \in 1 .. Len(w) : (u \o w)[Len(u) + i] = w[i]
    <3>1. ASSUME NEW x \in Seq(Fragment), NEW y \in Seq(Fragment)
          PROVE  /\ x \o y \in Seq(Fragment) /\ Len(x \o y) = Len(x) + Len(y)
                 /\ \A i \in 1 .. Len(x) : (x \o y)[i] = x[i]
                 /\ \A i \in 1 .. Len(y) : (x \o y)[Len(x) + i] = y[i]
      BY ConcatAt
    <3>2. u \in Seq(Fragment) /\ w \in Seq(Fragment)  BY <1>2, <2>2
    <3> QED  BY ONLY <3>1, <3>2
  <2>4. v = u \o w  BY DEF v, w
  <2>5. v[2 * n + 1] = a /\ v[2 * n + 2] = b
    <3>1. 1 \in 1 .. 2 /\ 2 \in 1 .. 2  OBVIOUS
    <3> QED  BY <1>2, <2>2, <2>3, <2>4, <3>1
  <2>6. v \in Seq(Fragment) /\ Len(v) = 2 * n + 2 /\ \A i \in 1 .. 2 * n : v[i] = u[i]
    BY <1>2, <2>2, <2>3, <2>4
  <2> QED  BY <2>5, <2>6
<1>4. ASSUME NEW k \in 1 .. n + 1
      PROVE  v[2 * k - 1] = <<k, 1>> /\ v[2 * k] = <<k, 2>>
  <2> HIDE DEF v
  <2>1. CASE k = n + 1
    <3>1. 2 * k - 1 = 2 * n + 1 /\ 2 * k = 2 * n + 2  BY <2>1
    <3> QED  BY <1>3, <2>1, <3>1
  <2>2. CASE k # n + 1
    <3>1. k \in 1 .. n /\ 2 * k - 1 \in 1 .. 2 * n /\ 2 * k \in 1 .. 2 * n  BY <2>2
    <3>2. u[2 * k - 1] = <<k, 1>> /\ u[2 * k] = <<k, 2>>  BY <3>1 DEF Paired
    <3> QED  BY <1>3, <3>1, <3>2
  <2> QED  BY <2>1, <2>2
<1>5. Len(v) = 2 * (n + 1)  BY <1>3
<1> HIDE DEF v
<1>6. Paired(v, n + 1)  BY <1>3, <1>4, <1>5 DEF Paired
<1> QED  BY <1>6 DEF v

LEMMA TwoUnitsEach ==
  ASSUME Setting, dialect = "anthropic"
  PROVE  Paired(Units, Len(reply))
<1> DEFINE U(n) == UnitsOfAll(NumbersTo(n))
           T == {n \in Nat : n <= Len(reply) => Paired(U(n), n)}
           D == DOMAIN reply
<1>1. Len(reply) \in Nat /\ D = 1 .. Len(reply) /\ Len(reply) <= MaxBlocks
      /\ MaxBlocks \in Nat
  BY ReplyFacts, DialectsAssumption
<1>2. 0 \in T
  <2>1. NumbersTo(0) = <<>> /\ <<>> \in Seq(D)  BY DEF NumbersTo
  <2>2. U(0) = <<>>  BY <2>1, UnitsFnGives, FlatMapEmpty
  <2> HIDE DEF U
  <2>3. Paired(<<>>, 0)  BY DEF Paired
  <2> QED  BY <2>2, <2>3
<1>3. ASSUME NEW n \in 0 .. Len(reply) - 1, n \in T  PROVE n + 1 \in T
  <2>1. n \in Nat /\ n + 1 <= Len(reply) /\ n + 1 <= MaxBlocks  BY <1>1
  <2>2. Paired(U(n), n)  BY <1>1, <1>3, <2>1
  <2>3. /\ NumbersTo(n) \in Seq(D) /\ n + 1 \in D
        /\ NumbersTo(n + 1) = Append(NumbersTo(n), n + 1) /\ NumbersTo(n + 1) \in Seq(D)
    <3>1. n <= Len(reply) /\ n + 1 \in Nat /\ n + 1 \in D  BY <1>1, <2>1
    <3>2. NumbersTo(n) \in Seq(D) /\ NumbersTo(n + 1) = Append(NumbersTo(n), n + 1)
      BY <1>1, <2>1, <3>1, NumbersAppend
    <3>3. NumbersTo(n + 1) \in Seq(D)
      BY <1>1, <2>1, <3>1, NumbersAppend
    <3> QED  BY <3>1, <3>2, <3>3
  <2>4. U(n + 1) = U(n) \o UnitsFn[n + 1]
    <3>1. /\ U(n) = FlatMap(UnitsFn, NumbersTo(n))
          /\ U(n + 1) = FlatMap(UnitsFn, NumbersTo(n + 1))
          /\ Gives(UnitsFn, D, Fragment)
      BY <2>3, UnitsFnGives
    <3>2. FlatMap(UnitsFn, Append(NumbersTo(n), n + 1))
            = FlatMap(UnitsFn, NumbersTo(n)) \o UnitsFn[n + 1]
      BY <2>3, <3>1, FlatMapAppend
    <3> QED  BY <2>3, <3>1, <3>2
  <2>5. UnitsFn[n + 1] = <<<<n + 1, 1>>, <<n + 1, 2>>>>
    BY <2>3, UnitsOfType DEF UnitsFn
  <2> HIDE DEF U
  <2>6. Paired(U(n + 1), n + 1)  BY <2>1, <2>2, <2>4, <2>5, PairedMore
  <2> QED  BY <2>1, <2>6
<1> HIDE DEF T
<1>4. 0 .. Len(reply) \subseteq T  BY <1>1, <1>2, <1>3, InductionUpTo
<1>5. Len(reply) \in T  BY <1>1, <1>4
<1>6. Units = U(Len(reply))
  <2>1. InOrder = NumbersTo(Len(reply))  BY <1>1 DEF InOrder, NumbersTo
  <2> QED  BY <2>1 DEF Units, Order
<1> HIDE DEF U
<1> QED  BY <1>1, <1>5, <1>6 DEF T

-----------------------------------------------------------------------------
(* Chunks, and what they say.                                              *)

Finishes == {"stop", "length", "content_filter", "tool_calls"}
CallRec  == [index : Nat, id : Nat, args : Seq(Fragment)]

RoleChunks    == {RoleChunk}
ContentChunks == {TextChunk(us) : us \in Seq(Fragment)}
OpenChunks    == {OpenChunk(i, k, u) : i \in Nat, k \in Nat, u \in Fragment}
MoreChunks    == {MoreChunk(i, u) : i \in Nat, u \in Fragment}
FinishChunks  == {FinishChunk(f) : f \in Finishes}
Chunk == RoleChunks \cup ContentChunks \cup OpenChunks \cup MoreChunks \cup FinishChunks

TextOf(c)  == IF c.kind = "content" THEN c.units ELSE <<>>
CallsOf(c) == IF c.kind = "call" /\ c.id # <<>>
              THEN <<[index |-> c.index, id |-> c.id[1], args |-> <<c.unit>>]>> ELSE <<>>

TextFn  == [c \in Chunk |-> TextOf(c)]
CallsFn == [c \in Chunk |-> CallsOf(c)]

\* The text in a queue of chunks, and the calls it opens.
TextIn(q)  == FlatMap(TextFn, q)
CallsIn(q) == FlatMap(CallsFn, q)

WellMade(c) ==
  /\ c.kind \in {"role", "content", "call", "finish"}
  /\ c.kind = "role" <=> c = RoleChunk
  /\ c.kind = "content" => c.units \in Seq(Fragment) /\ c = TextChunk(c.units)
  /\ c.kind = "call" => c.index \in Nat /\ c.unit \in Fragment
  /\ c.kind = "call" /\ c.id # <<>> =>
       c.id[1] \in Nat /\ c = OpenChunk(c.index, c.id[1], c.unit)
  /\ c.kind = "finish" => c.why \in Finishes /\ c = FinishChunk(c.why)

LEMMA ChunkKinds ==
  ASSUME NEW c \in Chunk
  PROVE  WellMade(c)
<1>1. CASE c = RoleChunk  BY <1>1 DEF RoleChunk, WellMade
<1>2. ASSUME NEW us \in Seq(Fragment), c = TextChunk(us)  PROVE WellMade(c)
  BY <1>2 DEF TextChunk, RoleChunk, WellMade
<1>3. ASSUME NEW i \in Nat, NEW k \in Nat, NEW u \in Fragment, c = OpenChunk(i, k, u)
      PROVE  WellMade(c)
  <2>1. c.kind = "call" /\ c.index = i /\ c.id = <<k>> /\ c.unit = u /\ c # RoleChunk
    BY <1>3 DEF OpenChunk, RoleChunk
  <2>2. c.id[1] = k  BY <2>1
  <2> QED  BY <1>3, <2>1, <2>2 DEF WellMade
<1>4. ASSUME NEW i \in Nat, NEW u \in Fragment, c = MoreChunk(i, u)  PROVE WellMade(c)
  BY <1>4 DEF MoreChunk, RoleChunk, WellMade
<1>5. ASSUME NEW f \in Finishes, c = FinishChunk(f)  PROVE WellMade(c)
  BY <1>5 DEF FinishChunk, RoleChunk, WellMade
<1>6. \/ c = RoleChunk \/ \E us \in Seq(Fragment) : c = TextChunk(us)
      \/ \E i \in Nat, k \in Nat, u \in Fragment : c = OpenChunk(i, k, u)
      \/ \E i \in Nat, u \in Fragment : c = MoreChunk(i, u)
      \/ \E f \in Finishes : c = FinishChunk(f)
  BY DEF Chunk, RoleChunks, ContentChunks, OpenChunks, MoreChunks, FinishChunks
<1> QED  BY <1>1, <1>2, <1>3, <1>4, <1>5, <1>6

LEMMA ChunkMakes ==
  /\ RoleChunk \in Chunk
  /\ \A us \in Seq(Fragment) : TextChunk(us) \in Chunk
  /\ \A i \in Nat, k \in Nat, u \in Fragment : OpenChunk(i, k, u) \in Chunk
  /\ \A i \in Nat, u \in Fragment : MoreChunk(i, u) \in Chunk
  /\ \A f \in Finishes : FinishChunk(f) \in Chunk
BY DEF Chunk, RoleChunks, ContentChunks, OpenChunks, MoreChunks, FinishChunks

LEMMA ChunkSays ==
  Gives(TextFn, Chunk, Fragment) /\ Gives(CallsFn, Chunk, CallRec)
<1>1. ASSUME NEW c \in Chunk  PROVE TextOf(c) \in Seq(Fragment) /\ CallsOf(c) \in Seq(CallRec)
  <2>1. WellMade(c)  BY ChunkKinds
  <2>2. TextOf(c) \in Seq(Fragment)  BY <2>1 DEF TextOf, WellMade
  <2>3. ASSUME c.kind = "call", c.id # <<>>
        PROVE  [index |-> c.index, id |-> c.id[1], args |-> <<c.unit>>] \in CallRec
    <3>1. c.index \in Nat /\ c.id[1] \in Nat /\ c.unit \in Fragment
      BY <2>1, <2>3 DEF WellMade
    <3>2. <<c.unit>> \in Seq(Fragment)  BY <3>1
    <3> QED  BY <3>1, <3>2 DEF CallRec
  <2>4. CallsOf(c) \in Seq(CallRec)  BY <2>3 DEF CallsOf
  <2> QED  BY <2>2, <2>4
<1> QED  BY <1>1 DEF Gives, TextFn, CallsFn

LEMMA QueueSays ==
  ASSUME NEW s \in Seq(Chunk), NEW t \in Seq(Chunk)
  PROVE  /\ TextIn(s) \in Seq(Fragment) /\ CallsIn(s) \in Seq(CallRec)
         /\ TextIn(s \o t) = TextIn(s) \o TextIn(t)
         /\ CallsIn(s \o t) = CallsIn(s) \o CallsIn(t)
<1>1. TextIn(s) \in Seq(Fragment)  BY ChunkSays, FlatMapType DEF TextIn
<1>2. CallsIn(s) \in Seq(CallRec)  BY ChunkSays, FlatMapType DEF CallsIn
<1>3. TextIn(s \o t) = TextIn(s) \o TextIn(t)  BY ChunkSays, FlatMapConcat DEF TextIn
<1>4. CallsIn(s \o t) = CallsIn(s) \o CallsIn(t)  BY ChunkSays, FlatMapConcat DEF CallsIn
<1> QED  BY <1>1, <1>2, <1>3, <1>4

\* The chunks of one event, put together: the role first, the finish last.
MaybeRole(r)      == r \in {<<>>, <<RoleChunk>>}
MaybeFinish(f, x) == f \in {<<>>, <<FinishChunk(x)>>}

\* q is r, d and f in this order, and says what d says.
Glued(q, r, d, f, x) ==
  /\ q \in Seq(Chunk) /\ Len(q) = Len(r) + Len(d) + Len(f)
  /\ \A i \in 1 .. Len(r) : q[i] = RoleChunk
  /\ \A i \in 1 .. Len(d) : q[Len(r) + i] = d[i]
  /\ \A i \in 1 .. Len(f) : q[Len(r) + Len(d) + i] = FinishChunk(x)
  /\ TextIn(q) = TextIn(d) /\ CallsIn(q) = CallsIn(d)

LEMMA PutTogether ==
  ASSUME NEW r, MaybeRole(r), NEW d \in Seq(Chunk),
         NEW x \in Finishes, NEW f, MaybeFinish(f, x)
  PROVE  Glued((r \o d) \o f, r, d, f, x)
<1> DEFINE q == (r \o d) \o f
<1>0. r \in {<<>>, <<RoleChunk>>} /\ f \in {<<>>, <<FinishChunk(x)>>}
  BY DEF MaybeRole, MaybeFinish
<1>1. r \in Seq(Chunk) /\ f \in Seq(Chunk)
  <2>1. RoleChunk \in Chunk /\ FinishChunk(x) \in Chunk  BY ChunkMakes
  <2>2. ASSUME NEW c \in Chunk  PROVE <<c>> \in Seq(Chunk) /\ <<>> \in Seq(Chunk)
    OBVIOUS
  <2>3. /\ <<RoleChunk>> \in Seq(Chunk) /\ <<FinishChunk(x)>> \in Seq(Chunk)
        /\ <<>> \in Seq(Chunk)
    BY ONLY <2>1, <2>2
  <2>4. CASE r = <<>>
    <3>1. CASE f = <<>>  BY ONLY <2>3, <2>4, <3>1
    <3>2. CASE f = <<FinishChunk(x)>>  BY ONLY <2>3, <2>4, <3>2
    <3> QED  BY <1>0, <3>1, <3>2
  <2>5. CASE r = <<RoleChunk>>
    <3>1. CASE f = <<>>  BY ONLY <2>3, <2>5, <3>1
    <3>2. CASE f = <<FinishChunk(x)>>  BY ONLY <2>3, <2>5, <3>2
    <3> QED  BY <1>0, <3>1, <3>2
  <2> QED  BY <1>0, <2>4, <2>5
<1>2. \A i \in 1 .. Len(r) : r[i] = RoleChunk  BY <1>0
<1>3. \A i \in 1 .. Len(f) : f[i] = FinishChunk(x)  BY <1>0
<1>4. TextIn(r) = <<>> /\ CallsIn(r) = <<>> /\ TextIn(f) = <<>> /\ CallsIn(f) = <<>>
  <2>1. RoleChunk \in Chunk /\ FinishChunk(x) \in Chunk  BY ChunkMakes
  <2>2. TextFn[RoleChunk] = <<>> /\ CallsFn[RoleChunk] = <<>>
    BY <2>1 DEF TextFn, CallsFn, TextOf, CallsOf, RoleChunk
  <2>3. TextFn[FinishChunk(x)] = <<>> /\ CallsFn[FinishChunk(x)] = <<>>
    BY <2>1 DEF TextFn, CallsFn, TextOf, CallsOf, FinishChunk
  <2>4. /\ Nothings(TextFn, r) /\ Nothings(CallsFn, r)
        /\ Nothings(TextFn, f) /\ Nothings(CallsFn, f)
    BY <1>2, <1>3, <2>2, <2>3 DEF Nothings
  <2> QED  BY <1>1, <2>4, ChunkSays, FlatMapNothing DEF TextIn, CallsIn
<1>5. TextIn(d) \in Seq(Fragment) /\ CallsIn(d) \in Seq(CallRec)
  BY ChunkSays, FlatMapType DEF TextIn, CallsIn
<1> HIDE DEF q
<1>6. /\ r \o d \in Seq(Chunk) /\ Len(r \o d) = Len(r) + Len(d)
      /\ \A i \in 1 .. Len(r) : (r \o d)[i] = r[i]
      /\ \A i \in 1 .. Len(d) : (r \o d)[Len(r) + i] = d[i]
  BY <1>1, ConcatAt
<1>7. /\ q \in Seq(Chunk) /\ Len(q) = Len(r \o d) + Len(f)
      /\ \A i \in 1 .. Len(r \o d) : q[i] = (r \o d)[i]
      /\ \A i \in 1 .. Len(f) : q[Len(r \o d) + i] = f[i]
  <2> DEFINE a == r \o d
  <2>1. a \in Seq(Chunk)  BY <1>6
  <2> HIDE DEF a
  <2>2. /\ a \o f \in Seq(Chunk) /\ Len(a \o f) = Len(a) + Len(f)
        /\ \A i \in 1 .. Len(a) : (a \o f)[i] = a[i]
        /\ \A i \in 1 .. Len(f) : (a \o f)[Len(a) + i] = f[i]
    BY <1>1, <2>1, ConcatAt
  <2> QED  BY <2>2 DEF a, q
<1>8. Len(r) \in Nat /\ Len(d) \in Nat /\ Len(f) \in Nat  BY <1>1
<1>9. /\ \A i \in 1 .. Len(r) : q[i] = RoleChunk
      /\ \A i \in 1 .. Len(d) : q[Len(r) + i] = d[i]
      /\ \A i \in 1 .. Len(f) : q[Len(r) + Len(d) + i] = FinishChunk(x)
  <2>1. ASSUME NEW i \in 1 .. Len(r)  PROVE q[i] = RoleChunk
    <3>1. i \in 1 .. Len(r \o d)  BY <1>6, <1>8
    <3> QED  BY <1>2, <1>6, <1>7, <3>1
  <2>2. ASSUME NEW i \in 1 .. Len(d)  PROVE q[Len(r) + i] = d[i]
    <3>1. Len(r) + i \in 1 .. Len(r \o d)  BY <1>6, <1>8
    <3> QED  BY <1>6, <1>7, <3>1
  <2>3. \A i \in 1 .. Len(f) : q[Len(r) + Len(d) + i] = FinishChunk(x)
    BY <1>3, <1>6, <1>7, <1>8
  <2> QED  BY <2>1, <2>2, <2>3
<1>10. TextIn(q) = TextIn(d) /\ CallsIn(q) = CallsIn(d)
  <2> DEFINE a == r \o d
             t == TextIn(d)
             u == CallsIn(d)
  <2>1. TextIn(a) = TextIn(r) \o t /\ CallsIn(a) = CallsIn(r) \o u
    BY <1>1, QueueSays
  <2>2. a \in Seq(Chunk) /\ t \in Seq(Fragment) /\ u \in Seq(CallRec)  BY <1>5, <1>6
  <2> HIDE DEF a, t, u
  <2>3. TextIn(a \o f) = TextIn(a) \o TextIn(f) /\ CallsIn(a \o f) = CallsIn(a) \o CallsIn(f)
    BY <1>1, <2>2, QueueSays
  <2>4. <<>> \o t = t /\ t \o <<>> = t /\ <<>> \o u = u /\ u \o <<>> = u  BY <2>2
  <2>5. TextIn(a \o f) = t /\ CallsIn(a \o f) = u  BY ONLY <1>4, <2>1, <2>3, <2>4
  <2> QED  BY <2>5 DEF q, a, t, u
<1>12. Len(q) = Len(r) + Len(d) + Len(f)  BY <1>6, <1>7
<1>13. Glued(q, r, d, f, x)  BY ONLY <1>7, <1>9, <1>10, <1>12 DEF Glued
<1> QED  BY <1>13 DEF q

\* What an event says: its text, then its calls, numbered on.
NumberedFrom(cs, first) ==
  [i \in DOMAIN cs |-> [index |-> first + i - 1, id |-> first + i - 1, args |-> <<cs[i]>>]]

Opening(cs, first) == [i \in DOMAIN cs |-> OpenChunk(first + i - 1, first + i - 1, cs[i])]

Said(ts, cs, first) ==
  (IF ts = <<>> THEN <<>> ELSE <<TextChunk(ts)>>) \o Opening(cs, first)

LEMMA OpeningSays ==
  ASSUME NEW cs \in Seq(Fragment), NEW first \in Nat
  PROVE  /\ Opening(cs, first) \in Seq(Chunk) /\ Len(Opening(cs, first)) = Len(cs)
         /\ \A i \in 1 .. Len(cs) :
              Opening(cs, first)[i].kind = "call" /\ Opening(cs, first)[i].id # <<>>
         /\ TextIn(Opening(cs, first)) = <<>>
         /\ CallsIn(Opening(cs, first)) = NumberedFrom(cs, first)
         /\ NumberedFrom(cs, first) \in Seq(CallRec)
<1> DEFINE o == Opening(cs, first)
           n == NumberedFrom(cs, first)
<1>1. ASSUME NEW i \in 1 .. Len(cs)
      PROVE  /\ o[i] = OpenChunk(first + i - 1, first + i - 1, cs[i]) /\ o[i] \in Chunk
             /\ o[i].kind = "call" /\ o[i].id # <<>>
             /\ n[i] \in CallRec /\ TextFn[o[i]] = <<>> /\ CallsFn[o[i]] = <<n[i]>>
  <2>1. first + i - 1 \in Nat /\ cs[i] \in Fragment /\ i \in DOMAIN cs  OBVIOUS
  <2>2. o[i] = OpenChunk(first + i - 1, first + i - 1, cs[i])  BY <2>1 DEF Opening
  <2>3. o[i] \in Chunk  BY <2>1, <2>2, ChunkMakes
  <2>4. n[i] = [index |-> first + i - 1, id |-> first + i - 1, args |-> <<cs[i]>>]
    BY <2>1 DEF NumberedFrom
  <2>5. n[i] \in CallRec
    <3>1. <<cs[i]>> \in Seq(Fragment)  BY <2>1
    <3> QED  BY <2>1, <2>4, <3>1 DEF CallRec
  <2> HIDE DEF o, n
  <2>6. /\ o[i].kind = "call" /\ o[i].index = first + i - 1
        /\ o[i].id = <<first + i - 1>> /\ o[i].unit = cs[i]
    BY <2>2 DEF OpenChunk
  <2>7. o[i].id # <<>> /\ o[i].id[1] = first + i - 1  BY <2>6
  <2>8. TextOf(o[i]) = <<>>  BY <2>6 DEF TextOf
  <2>9. CallsOf(o[i]) = <<n[i]>>  BY <2>4, <2>6, <2>7 DEF CallsOf
  <2> QED  BY <2>2, <2>3, <2>5, <2>6, <2>7, <2>8, <2>9 DEF TextFn, CallsFn
<1>2. Len(cs) \in Nat /\ DOMAIN cs = 1 .. Len(cs)  OBVIOUS
<1>3. o \in Seq(Chunk) /\ Len(o) = Len(cs)
  <2>1. DOMAIN o = 1 .. Len(cs) /\ o = [i \in 1 .. Len(cs) |-> o[i]]  BY <1>2 DEF Opening
  <2> HIDE DEF o
  <2> QED  BY <1>1, <1>2, <2>1
<1>4. n \in Seq(CallRec) /\ Len(n) = Len(cs)
  <2>1. DOMAIN n = 1 .. Len(cs) /\ n = [i \in 1 .. Len(cs) |-> n[i]]  BY <1>2 DEF NumberedFrom
  <2> HIDE DEF n
  <2> QED  BY <1>1, <1>2, <2>1
<1> HIDE DEF o, n
<1>5. Nothings(TextFn, o) /\ Singles(CallsFn, o, n)
  BY <1>1, <1>3, <1>4 DEF Nothings, Singles
<1>6. TextIn(o) = <<>>  BY <1>3, <1>5, ChunkSays, FlatMapNothing DEF TextIn
<1>7. CallsIn(o) = n  BY <1>3, <1>4, <1>5, ChunkSays, FlatMapIs DEF CallsIn
<1>8. \A i \in 1 .. Len(cs) : o[i].kind = "call" /\ o[i].id # <<>>  BY <1>1
<1> QED  BY <1>3, <1>4, <1>6, <1>7, <1>8 DEF o, n

LEMMA SaidIs ==
  ASSUME NEW ts \in Seq(Fragment), NEW cs \in Seq(Fragment), NEW first \in Nat
  PROVE  LET d == Said(ts, cs, first)
         IN  /\ d \in Seq(Chunk)
             /\ \A i \in 1 .. Len(d) :
                  \/ d[i].kind = "content" /\ d[i].units = ts /\ ts # <<>>
                  \/ d[i].kind = "call" /\ d[i].id # <<>>
             /\ TextIn(d) = ts
             /\ CallsIn(d) = NumberedFrom(cs, first)
<1> DEFINE o == Opening(cs, first)
           d == Said(ts, cs, first)
           n == NumberedFrom(cs, first)
<1>1. /\ o \in Seq(Chunk) /\ Len(o) = Len(cs) /\ n \in Seq(CallRec)
      /\ \A i \in 1 .. Len(cs) : o[i].kind = "call" /\ o[i].id # <<>>
      /\ TextIn(o) = <<>> /\ CallsIn(o) = n
  BY OpeningSays
<1>2. CASE ts = <<>>
  <2>1. d = <<>> \o o  BY <1>2 DEF Said
  <2> HIDE DEF o, d, n
  <2>2. d = o  BY <1>1, <2>1
  <2> QED  BY <1>1, <1>2, <2>2 DEF d, n
<1>3. CASE ts # <<>>
  <2> DEFINE c == TextChunk(ts)
             p == <<c>>
  <2>1. c \in Chunk /\ c.kind = "content" /\ c.units = ts
    BY ChunkMakes DEF TextChunk
  <2>2. d = p \o o  BY <1>3 DEF Said
  <2>3. TextIn(p) = ts /\ CallsIn(p) = <<>>
    <3>1. TextFn[c] = ts /\ CallsFn[c] = <<>>
      BY <2>1 DEF TextFn, CallsFn, TextOf, CallsOf
    <3> HIDE DEF c
    <3>2. FlatMap(TextFn, <<c>>) = TextFn[c] /\ FlatMap(CallsFn, <<c>>) = CallsFn[c]
      BY <2>1, ChunkSays, FlatMapOne
    <3> QED  BY <3>1, <3>2 DEF TextIn, CallsIn
  <2> HIDE DEF o, d, n, c
  <2>4. p \in Seq(Chunk) /\ Len(p) = 1 /\ p[1] = c  BY <2>1
  <2> HIDE DEF p
  <2>5. TextIn(p \o o) = TextIn(p) \o TextIn(o) /\ CallsIn(p \o o) = CallsIn(p) \o CallsIn(o)
    BY <1>1, <2>4, QueueSays
  <2>6. ts \o <<>> = ts /\ <<>> \o n = n  BY <1>1
  <2>7. /\ p \o o \in Seq(Chunk) /\ Len(p \o o) = Len(p) + Len(o)
        /\ \A i \in 1 .. Len(p) : (p \o o)[i] = p[i]
        /\ \A i \in 1 .. Len(o) : (p \o o)[Len(p) + i] = o[i]
    <3>1. p \in Seq(Chunk) /\ o \in Seq(Chunk)  BY <1>1, <2>4
    <3> QED  BY ONLY <3>1, ConcatAt, SMTT(30)
  <2>8. ASSUME NEW i \in 1 .. Len(d)
        PROVE  \/ d[i].kind = "content" /\ d[i].units = ts /\ ts # <<>>
               \/ d[i].kind = "call" /\ d[i].id # <<>>
    <3>1. CASE i = 1  BY <1>3, <2>1, <2>2, <2>4, <2>7, <3>1
    <3>2. CASE i # 1
      <4>1. PICK j \in 1 .. Len(o) : i = 1 + j
        <5>1. Len(d) = 1 + Len(o) /\ Len(o) \in Nat  BY <1>1, <2>2, <2>4, <2>7
        <5>2. i - 1 \in 1 .. Len(o) /\ i = 1 + (i - 1)  BY <3>2, <5>1
        <5> QED  BY <5>2
      <4>2. d[i] = o[j]  BY <2>2, <2>4, <2>7, <4>1
      <4> QED  BY <1>1, <4>1, <4>2
    <3> QED  BY <3>1, <3>2
  <2>9. TextIn(d) = ts /\ CallsIn(d) = n  BY ONLY <1>1, <2>2, <2>3, <2>5, <2>6
  <2>10. d \in Seq(Chunk)  BY <2>2, <2>7
  <2> QED  BY <2>8, <2>9, <2>10 DEF d, n
<1> QED  BY <1>2, <1>3

LEMMA NumberedMore ==
  ASSUME NEW cs \in Seq(Fragment), NEW ds \in Seq(Fragment)
  PROVE  NumberedFrom(cs \o ds, 0) = NumberedFrom(cs, 0) \o NumberedFrom(ds, Len(cs))
<1> DEFINE a == NumberedFrom(cs, 0)
           b == NumberedFrom(ds, Len(cs))
           c == NumberedFrom(cs \o ds, 0)
<1>1. /\ cs \o ds \in Seq(Fragment) /\ Len(cs \o ds) = Len(cs) + Len(ds)
      /\ \A i \in 1 .. Len(cs) : (cs \o ds)[i] = cs[i]
      /\ \A i \in 1 .. Len(ds) : (cs \o ds)[Len(cs) + i] = ds[i]
  BY ConcatAt
<1>2. /\ DOMAIN cs = 1 .. Len(cs) /\ DOMAIN ds = 1 .. Len(ds) /\ Len(cs) \in Nat /\ Len(ds) \in Nat
      /\ DOMAIN (cs \o ds) = 1 .. Len(cs) + Len(ds)
  BY <1>1
<1>3. a \in Seq(CallRec) /\ b \in Seq(CallRec) /\ c \in Seq(CallRec)
  BY <1>1, <1>2, OpeningSays
<1>4. Len(a) = Len(cs) /\ Len(b) = Len(ds) /\ Len(c) = Len(cs) + Len(ds)
  <2>1. DOMAIN a = 1 .. Len(cs) /\ DOMAIN b = 1 .. Len(ds) /\ DOMAIN c = 1 .. Len(cs) + Len(ds)
    BY <1>2 DEF NumberedFrom
  <2> HIDE DEF a, b, c
  <2> QED  BY <1>2, <1>3, <2>1
<1>5. ASSUME NEW i \in 1 .. Len(cs)  PROVE c[i] = a[i]
  BY <1>1, <1>2 DEF NumberedFrom
<1>6. ASSUME NEW i \in 1 .. Len(ds)  PROVE c[Len(cs) + i] = b[i]
  <2>1. Len(cs) + i \in 1 .. Len(cs) + Len(ds) /\ 0 + (Len(cs) + i) - 1 = Len(cs) + i - 1
    BY <1>2
  <2>2. (cs \o ds)[Len(cs) + i] = ds[i]  BY <1>1
  <2> QED  BY <1>2, <2>1, <2>2 DEF NumberedFrom
<1> HIDE DEF a, b, c
<1>7. /\ a \o b \in Seq(CallRec) /\ Len(a \o b) = Len(a) + Len(b)
      /\ \A i \in 1 .. Len(a) : (a \o b)[i] = a[i]
      /\ \A i \in 1 .. Len(b) : (a \o b)[Len(a) + i] = b[i]
  BY <1>3, ConcatAt
<1>8. ASSUME NEW i \in 1 .. Len(c)  PROVE c[i] = (a \o b)[i]
  <2>1. CASE i \in 1 .. Len(cs)  BY <1>4, <1>5, <1>7, <2>1
  <2>2. CASE i \notin 1 .. Len(cs)
    <3>1. PICK j \in 1 .. Len(ds) : i = Len(cs) + j
      <4>1. i - Len(cs) \in 1 .. Len(ds) /\ i = Len(cs) + (i - Len(cs))  BY <1>2, <1>4, <2>2
      <4> QED  BY <4>1
    <3> QED  BY <1>4, <1>6, <1>7, <3>1
  <2> QED  BY <2>1, <2>2
<1>9. c = a \o b  BY <1>3, <1>4, <1>7, <1>8, SeqEqual
<1> QED  BY <1>9 DEF a, b, c

-----------------------------------------------------------------------------
(* The invariant.                                                          *)

TextUnits  == UnitsIn("text")
CallUnits  == UnitsIn("call")
CallBlocks == Blocks("call")

SentUnits == SubSeq(Units, 1, sent)
TextSent  == Only(SentUnits, TextUnits)
CallsSent == Only(SentUnits, CallUnits)

\* The events of /v1/messages.
EventNames == {"message_start", "content_block_start", "content_block_delta",
               "content_block_stop", "message_delta", "message_stop"}

Typed ==
  /\ Setting
  /\ reason = "tool_use" => CallBlocks # {}
  /\ sent \in 0 .. Len(Units)
  /\ stage \in {"start", "body", "ending", "sent", "broken"}
  /\ stage = "sent" => sent = Len(Units)
  /\ role \in BOOLEAN /\ finish \in Finishes \cup {"none"}
  /\ text \in Seq(Fragment) /\ calls \in Seq(CallRec)
  /\ outbox \in Seq(Chunk)
  /\ told \in Seq(EventNames)

\* A queue of chunks with the role where it must come and the finish where it may.
Arranged(q, first, last, why) ==
  /\ \A i \in 1 .. Len(q) : q[i].kind = "role" => i = 1 /\ first
  /\ first => q # <<>> /\ q[1].kind = "role"
  /\ \A i \in 1 .. Len(q) : q[i].kind = "finish" => i = Len(q) /\ last /\ q[i].why = why
  /\ last => q # <<>> /\ q[Len(q)].kind = "finish"
  /\ \A i \in 1 .. Len(q) : q[i].kind = "content" => Len(q[i].units) \in 1 .. 2

\* The role comes first, the finish last.
InPlace ==
  /\ outbox # <<>> => Arranged(outbox, ~role, stage = "sent", FullFinish)
  /\ outbox = <<>> => /\ role \/ stage \in {"start", "broken"}
                      /\ stage = "sent" => finish # "none"
  /\ stage = "start" => ~role /\ outbox = <<>>
  /\ finish # "none" => outbox = <<>> /\ stage = "sent" /\ finish = FullFinish

\* No text is lost on the way.
TextInv == text \o TextIn(outbox) = TextSent

\* Anthropic: a unit, a chunk.
ChunkOf(B, u) ==
  IF u[1] \notin B THEN TextChunk(<<u>>)
  ELSE IF u[2] = 1 THEN OpenChunk(u[1] - 1, u[1], u)
  ELSE MoreChunk(u[1] - 1, u)

\* Where the upstream is: between two blocks, or in one.
AtBlock ==
  /\ open \in 0 .. Len(reply)
  /\ open = 0 => \E b \in 0 .. Len(reply) :
                   sent = 2 * b /\ DOMAIN tool = CallBlocks \cap (1 .. b)
  /\ open # 0 => /\ sent \in 2 * open - 2 .. 2 * open
                 /\ DOMAIN tool = CallBlocks \cap (1 .. open)
                 /\ open \in CallBlocks => (tool[open] <=> sent > 2 * open - 2)
  /\ stage = "start" => sent = 0 /\ open = 0
  /\ stage \in {"ending", "sent"} => sent = Len(Units) /\ open = 0

\* The calls opened by the first n units, and their arguments.
Opened(B, n) == Only(NumbersTo((n + 1) \div 2), B)

CallAfter(k, n) ==
  [index |-> k - 1, id |-> k,
   args |-> IF n = 2 * k - 1 THEN <<<<k, 1>>>> ELSE <<<<k, 1>>, <<k, 2>>>>]

CallsAfter(B, n) == [i \in DOMAIN Opened(B, n) |-> CallAfter(Opened(B, n)[i], n)]

AnthropicInv ==
  dialect = "anthropic" =>
    /\ AtBlock
    /\ \/ /\ outbox = <<>> \/ outbox = <<RoleChunk>> \/ outbox = <<FinishChunk(FullFinish)>>
          /\ calls = CallsAfter(CallBlocks, sent)
       \/ /\ sent > 0 /\ outbox = <<ChunkOf(CallBlocks, Units[sent])>>
          /\ calls = CallsAfter(CallBlocks, sent - 1)

\* Gemini and Ollama: the calls are numbered as they come.
WholeInv ==
  dialect # "anthropic" =>
    /\ \A i \in 1 .. Len(outbox) : outbox[i].kind = "call" => outbox[i].id # <<>>
    /\ calls \o CallsIn(outbox) = NumberedFrom(CallsSent, 0)
    /\ stage # "ending" /\ (stage = "start" => sent = 0)
    /\ dialect = "gemini" => DOMAIN tool = 1 .. Len(CallsSent)
    /\ dialect = "ollama" /\ stage \notin {"sent", "broken"} => CallsSent = <<>>

Ends == {"content_block_stop", "message_delta", "message_stop"}

\* The order of the events, of any sequence of them.
Protocol(t) ==
  LET at(e)   == {i \in DOMAIN t : t[i] = e}
      ends(i) == t[i] \in {"content_block_stop", "message_delta", "message_stop"}
  IN  /\ \A i, j \in DOMAIN t : t[i] = t[j] => i = j \/ t[i] = "content_block_delta"
      /\ \A i \in DOMAIN t : t[i] = "message_start" <=> i = 1
      /\ \A i \in DOMAIN t :
           t[i] \in {"content_block_delta", "content_block_stop"} =>
             \E j \in at("content_block_start") : j < i
      /\ \A i, j \in DOMAIN t : i < j /\ ends(i) => ends(j)
      /\ at("message_stop") # {} =>
           /\ t[Len(t)] = "message_stop" /\ t[Len(t) - 1] = "message_delta"
           /\ at("content_block_start") # {} => t[Len(t) - 2] = "content_block_stop"

OnlyEnd == <<"message_delta", "message_stop">>

\* The events of /v1/messages end when everything has been told.
ToldInv ==
  /\ role => told # <<>> /\ Protocol(told)
  /\ ~role => /\ NothingHeard
              /\ told = <<>> \/ (told = OnlyEnd /\ stage = "broken" /\ outbox = <<>>)
  /\ (\E i \in DOMAIN told : told[i] \in Ends) =>
       /\ stage \in {"sent", "broken"} /\ outbox = <<>>
       /\ told[Len(told)] = "message_stop"

DialectsInv ==
  Typed /\ InPlace /\ TextInv /\ AnthropicInv /\ WholeInv /\ ToldInv

-----------------------------------------------------------------------------
(* What no step changes, and what sending does.                            *)

Fixed == dialect' = dialect /\ reply' = reply /\ reason' = reason

LEMMA FixedFacts ==
  ASSUME Fixed
  PROVE  /\ Setting' <=> Setting
         /\ Units' = Units /\ CallBlocks' = CallBlocks
         /\ TextUnits' = TextUnits /\ CallUnits' = CallUnits
         /\ FullText' = FullText /\ FullCalls' = FullCalls /\ FullFinish' = FullFinish
BY DEF Fixed, Setting, Units, UnitsOfAll, UnitsOf, Order, InOrder, Blocks, UnitsIn, CallBlocks,
       TextUnits, CallUnits, FullText, FullCalls, FullFinish, FinishOf, OllamaFinish, Mapped

LEMMA NextFixed ==
  ASSUME [Next]_vars
  PROVE  Fixed
BY DEF Next, vars, Fixed, MessageStart, BlockStart, BlockDelta, BlockStop, MessageDelta,
       MessageStop, GeminiChunk, OllamaStart, OllamaLine, BreakOff, Deliver, EndMessage

LEMMA KindsOfUnits ==
  ASSUME Setting
  PROVE  /\ Units \in Seq(TextUnits \cup CallUnits)
         /\ TextUnits \cap CallUnits = {}
<1>1. TextUnits \cap CallUnits = {}
  BY ReplyFacts DEF TextUnits, CallUnits, UnitsIn
<1>2. ASSUME NEW k \in DOMAIN reply  PROVE UnitsOf(k) \in Seq(TextUnits \cup CallUnits)
  <2>1. reply[k] = "text" \/ reply[k] = "call"  BY ReplyFacts
  <2>2. UnitsOf(k) \in Seq(TextUnits) \/ UnitsOf(k) \in Seq(CallUnits)
    BY <2>1, UnitsOfType DEF TextUnits, CallUnits
  <2> QED  BY <2>2
<1>3. Gives(UnitsFn, DOMAIN reply, TextUnits \cup CallUnits)  BY <1>2 DEF Gives, UnitsFn
<1>4. Order \in Seq(DOMAIN reply) /\ Units = FlatMap(UnitsFn, Order)
  BY UnitsType, UnitsFnGives DEF Units
<1> DEFINE K == TextUnits \cup CallUnits
<1>5. Gives(UnitsFn, DOMAIN reply, K)  BY <1>3
<1> HIDE DEF K
<1>6. Units \in Seq(K)  BY <1>4, <1>5, FlatMapType
<1> QED  BY <1>1, <1>6 DEF K

\* n units more.
NextUnits(n) == SubSeq(Units, sent + 1, sent + n)

LEMMA SendMore ==
  ASSUME Setting, sent \in 0 .. Len(Units), NEW n \in Nat, sent + n <= Len(Units)
  PROVE  LET us == NextUnits(n)
         IN  /\ us \in Seq(Fragment) /\ Len(us) = n
             /\ \A i \in 1 .. n : us[i] = Units[sent + i]
             /\ Len(Only(us, TextUnits)) + Len(Only(us, CallUnits)) = n
             /\ Only(us, TextUnits) \in Seq(Fragment) /\ Only(us, CallUnits) \in Seq(Fragment)
             /\ Only(SubSeq(Units, 1, sent + n), TextUnits) = TextSent \o Only(us, TextUnits)
             /\ Only(SubSeq(Units, 1, sent + n), CallUnits) = CallsSent \o Only(us, CallUnits)
             /\ TextSent \in Seq(Fragment) /\ CallsSent \in Seq(Fragment)
<1> DEFINE us == NextUnits(n)
           all == Units
           from == SentUnits
           K == TextUnits \cup CallUnits
<1>1. all \in Seq(Fragment) /\ all \in Seq(K)  BY UnitsType, KindsOfUnits
<1>2. us = SubSeq(all, sent + 1, sent + n) /\ from = SubSeq(all, 1, sent)
  BY DEF NextUnits, SentUnits
<1> HIDE DEF us, all, from
<1>3. /\ us \in Seq(Fragment) /\ Len(us) = n /\ \A i \in 1 .. n : us[i] = all[sent + i]
      /\ from \in Seq(Fragment)
      /\ SubSeq(all, 1, sent + n) = from \o us
  <2>1. sent \in Nat /\ sent + n \in Nat /\ sent + n <= Len(all)  BY DEF all
  <2>2. us \in Seq(Fragment) /\ Len(us) = n  BY <1>1, <1>2, <2>1
  <2>3. \A i \in 1 .. n : us[i] = all[sent + i]  BY <1>1, <1>2, <2>1
  <2>4. from \in Seq(Fragment)  BY <1>1, <1>2, <2>1
  <2>5. SubSeq(all, 1, sent) \o SubSeq(all, sent + 1, sent + n) = SubSeq(all, 1, sent + n)
    <3>1. 1 \in 1 .. Len(all) + 1 /\ sent \in 1 - 1 .. Len(all) /\ sent + n \in sent .. Len(all)
      BY <1>1, <2>1
    <3> QED  BY <1>1, <3>1, ConcatAdjacentSubSeq
  <2> QED  BY <1>2, <2>2, <2>3, <2>4, <2>5
<1>4. us \in Seq(K)
  <2>1. sent \in Nat /\ sent + n \in Nat /\ sent + n <= Len(all)  BY DEF all
  <2> HIDE DEF K
  <2> QED  BY <1>1, <1>2, <2>1
<1>5. Len(Only(us, TextUnits)) + Len(Only(us, CallUnits)) = n
  <2>1. K \subseteq TextUnits \cup CallUnits /\ K \cap TextUnits \cap CallUnits = {}
    BY KindsOfUnits
  <2> HIDE DEF K
  <2>2. \A s \in Seq(K) : Len(Only(s, TextUnits)) + Len(Only(s, CallUnits)) = Len(s)
    BY <2>1, OnlyCounts
  <2> QED  BY <1>3, <1>4, <2>2
<1>6. /\ Only(us, TextUnits) \in Seq(Fragment) /\ Only(us, CallUnits) \in Seq(Fragment)
      /\ Only(from, TextUnits) \in Seq(Fragment) /\ Only(from, CallUnits) \in Seq(Fragment)
  BY <1>3, OnlyType
<1>7. /\ Only(from \o us, TextUnits) = Only(from, TextUnits) \o Only(us, TextUnits)
      /\ Only(from \o us, CallUnits) = Only(from, CallUnits) \o Only(us, CallUnits)
  BY <1>3, OnlyConcat
<1>8. TextSent = Only(from, TextUnits) /\ CallsSent = Only(from, CallUnits)
  BY DEF TextSent, CallsSent, from
<1>9. Only(SubSeq(all, 1, sent + n), TextUnits) = TextSent \o Only(us, TextUnits)
      /\ Only(SubSeq(all, 1, sent + n), CallUnits) = CallsSent \o Only(us, CallUnits)
  BY <1>3, <1>7, <1>8
<1> QED  BY <1>3, <1>5, <1>6, <1>8, <1>9 DEF us, all

-----------------------------------------------------------------------------
(* Why an answer finishes, and the calls of a whole answer.                *)

LEMMA FullCallsFacts ==
  ASSUME Setting
  PROVE  LET cs == Only(InOrder, CallBlocks)
         IN  /\ cs \in Seq(CallBlocks) /\ cs \in Seq(DOMAIN reply)
             /\ cs = <<>> <=> CallBlocks = {}
             /\ FullCalls = [i \in DOMAIN cs |-> UnitsOf(cs[i])]
             /\ FullCalls = <<>> <=> CallBlocks = {}
<1> DEFINE cs == Only(InOrder, CallBlocks)
           D == DOMAIN reply
<1>1. InOrder \in Seq(D) /\ \A k \in D : k \in DOMAIN InOrder /\ InOrder[k] = k
  BY ReplyFacts DEF InOrder
<1>2. CallBlocks \subseteq D  BY DEF CallBlocks, Blocks
<1>3. cs \in Seq(CallBlocks) /\ cs \in Seq(D)
  <2>1. cs \in Seq(D \cap CallBlocks) /\ cs \in Seq(D)  BY <1>1, OnlyType
  <2>2. D \cap CallBlocks = CallBlocks  BY <1>2
  <2> QED  BY <2>1, <2>2
<1>4. cs = <<>> <=> \A i \in DOMAIN InOrder : InOrder[i] \notin CallBlocks  BY <1>1, OnlyOrElse
<1>5. (\A i \in DOMAIN InOrder : InOrder[i] \notin CallBlocks) <=> CallBlocks = {}
  <2>1. \A i \in DOMAIN InOrder : InOrder[i] \in D  BY <1>1
  <2> QED  BY <1>1, <1>2, <2>1
<1>6. FullCalls = [i \in DOMAIN cs |-> UnitsOf(cs[i])]  BY DEF FullCalls, CallBlocks
<1> HIDE DEF cs, D
<1>7. FullCalls = <<>> <=> cs = <<>>
  <2>1. DOMAIN FullCalls = DOMAIN cs  BY <1>6
  <2>2. ASSUME cs = <<>>  PROVE FullCalls = <<>>
    <3>1. FullCalls = [i \in {} |-> UnitsOf(cs[i])]  BY <1>6, <2>2
    <3> QED  BY <3>1
  <2>3. ASSUME cs # <<>>  PROVE FullCalls # <<>>
    <3>1. 1 \in DOMAIN cs  BY <1>3, <2>3
    <3> QED  BY <2>1, <3>1
  <2> QED  BY <2>2, <2>3
<1> QED  BY <1>3, <1>4, <1>5, <1>6, <1>7 DEF cs, D

\* The finish of a whole answer is one of chat's, and says tool_calls only of calls.
LEMMA FinishFacts ==
  ASSUME Setting, reason = "tool_use" => CallBlocks # {}
  PROVE  /\ FullFinish \in Finishes /\ FullFinish # "none"
         /\ FullFinish = "tool_calls" => CallBlocks # {}
         /\ \A h \in BOOLEAN : FinishOf(h) \in Finishes /\ OllamaFinish(h) \in Finishes
<1>1. \A r : Mapped(r) \in Finishes /\ (Mapped(r) = "tool_calls" => r = "tool_use")
  BY DEF Mapped, Finishes
<1>2. \A h \in BOOLEAN : FinishOf(h) \in Finishes /\ OllamaFinish(h) \in Finishes
  BY <1>1 DEF FinishOf, OllamaFinish, Finishes
<1>3. FullCalls = <<>> <=> CallBlocks = {}  BY FullCallsFacts
<1>4. FullFinish \in Finishes
  <2>1. (FullCalls # <<>>) \in BOOLEAN  OBVIOUS
  <2>2. CASE FullCalls # <<>>
    <3>1. FinishOf(TRUE) \in Finishes /\ OllamaFinish(TRUE) \in Finishes  BY <1>2
    <3> QED  BY <1>1, <2>2 DEF FullFinish, FinishOf, OllamaFinish, Finishes
  <2>3. CASE FullCalls = <<>>  BY <1>1, <2>3 DEF FullFinish, FinishOf, OllamaFinish, Finishes
  <2> QED  BY <2>2, <2>3
<1>5. ASSUME FullFinish = "tool_calls", CallBlocks = {}  PROVE FALSE
  BY <1>1, <1>3, <1>5 DEF FullFinish, FinishOf, OllamaFinish
<1>6. "none" \notin Finishes  BY DEF Finishes
<1> QED  BY <1>2, <1>4, <1>5, <1>6

-----------------------------------------------------------------------------
(* An upstream that sends: what is invariant, whatever the dialect.        *)

\* The upstream has sent n units more, and the translator has made chunks of them.
Emits(n) ==
  /\ outbox = <<>> /\ stage \notin {"sent", "broken"}
  /\ stage' \in {"body", "ending", "sent"}
  /\ Fixed /\ UNCHANGED <<role, text, calls, finish, told>>
  /\ n \in Nat /\ sent' = sent + n /\ sent + n <= Len(Units)
  /\ stage' = "sent" => sent' = Len(Units)
  /\ outbox' \in Seq(Chunk)
  /\ outbox' # <<>> => Arranged(outbox', stage = "start", stage' = "sent", FullFinish)
  /\ outbox' = <<>> => stage # "start" /\ stage' # "sent"
  /\ TextIn(outbox') = Only(NextUnits(n), TextUnits)

LEMMA EmitsTyped ==
  ASSUME Typed, NEW n, Emits(n)
  PROVE  Typed'
<1>1. Fixed  BY DEF Emits
<1>2. Setting' /\ (reason' = "tool_use" => CallBlocks' # {})  BY <1>1, FixedFacts DEF Typed, Fixed
<1>3. sent' \in 0 .. Len(Units)'
  <2>1. Units' = Units /\ Len(Units)' = Len(Units)  BY <1>1, FixedFacts
  <2>2. Len(Units) \in Nat  BY UnitsType DEF Typed
  <2> QED  BY <2>1, <2>2 DEF Emits, Typed
<1>4. stage' = "sent" => sent' = Len(Units)'  BY <1>1, FixedFacts DEF Emits
<1> QED  BY <1>2, <1>3, <1>4 DEF Emits, Typed

LEMMA EmitsText ==
  ASSUME Typed, TextInv, NEW n, Emits(n)
  PROVE  TextInv'
<1>1. Fixed /\ n \in Nat /\ sent + n <= Len(Units) /\ Setting /\ sent \in 0 .. Len(Units)
  BY DEF Emits, Typed
<1>2. TextSent' = TextSent \o Only(NextUnits(n), TextUnits)
  <2>1. Only(SubSeq(Units, 1, sent + n), TextUnits) = TextSent \o Only(NextUnits(n), TextUnits)
    BY <1>1, SendMore
  <2>2. Units' = Units /\ TextUnits' = TextUnits /\ sent' = sent + n  BY <1>1, FixedFacts DEF Emits
  <2> QED  BY <2>1, <2>2 DEF TextSent, SentUnits
<1>3. text = TextSent
  <2>1. TextIn(<<>>) = <<>>  BY FlatMapEmpty DEF TextIn
  <2>2. text \o <<>> = text  BY DEF Typed
  <2> QED  BY <2>1, <2>2 DEF TextInv, Emits
<1>4. text' = text /\ TextIn(outbox)' = Only(NextUnits(n), TextUnits)  BY DEF Emits, TextIn
<1> QED  BY <1>2, <1>3, <1>4 DEF TextInv

LEMMA EmitsInPlace ==
  ASSUME Typed, InPlace, NEW n, Emits(n)
  PROVE  InPlace'
<1>1. FullFinish' = FullFinish  BY FixedFacts DEF Emits
<1>2. role' = role /\ finish' = finish /\ role \in BOOLEAN  BY DEF Emits, Typed
<1>3. ~role <=> stage = "start"  BY DEF Emits, InPlace
<1>4. stage' # "start" /\ stage' # "broken"  BY DEF Emits
<1>5. finish = "none"  BY DEF Emits, InPlace
<1>6. (outbox # <<>> => Arranged(outbox, ~role, stage = "sent", FullFinish))'
  <2>1. (stage = "start") = (~role)  BY <1>2, <1>3
  <2>2. outbox' # <<>> => Arranged(outbox', ~role, stage' = "sent", FullFinish)
    BY <2>1 DEF Emits
  <2> QED  BY <1>1, <1>2, <2>2 DEF Arranged
<1>7. (outbox = <<>> => (role \/ stage \in {"start", "broken"}) /\ (stage = "sent" => finish # "none"))'
  BY <1>2, <1>3 DEF Emits
<1> QED  BY <1>2, <1>4, <1>5, <1>6, <1>7 DEF InPlace

LEMMA EmitsTold ==
  ASSUME Typed, ToldInv, NEW n, Emits(n)
  PROVE  ToldInv'
<1>1. /\ told' = told /\ stage \notin {"sent", "broken"}
      /\ UNCHANGED <<role, text, calls, finish>>
  BY DEF Emits
<1>2. Protocol(told)' <=> Protocol(told)  BY <1>1 DEF Protocol
<1>3. NothingHeard' <=> NothingHeard  BY <1>1 DEF NothingHeard
<1>4. ~(\E i \in DOMAIN told : told[i] \in Ends)  BY <1>1 DEF ToldInv
<1> QED  BY <1>1, <1>2, <1>3, <1>4 DEF ToldInv

LEMMA EmitsWhole ==
  ASSUME Typed, WholeInv, NEW n, Emits(n), dialect # "anthropic",
         \A i \in 1 .. Len(outbox') : outbox'[i].kind = "call" => outbox'[i].id # <<>>,
         CallsIn(outbox') = NumberedFrom(Only(NextUnits(n), CallUnits), Len(CallsSent)),
         stage' # "ending", stage' # "start",
         dialect = "gemini" => DOMAIN tool' = 1 .. Len(CallsSent \o Only(NextUnits(n), CallUnits)),
         dialect = "ollama" /\ stage' # "sent" => Only(NextUnits(n), CallUnits) = <<>>
  PROVE  WholeInv'
<1>1. Fixed /\ n \in Nat /\ sent + n <= Len(Units) /\ Setting /\ sent \in 0 .. Len(Units)
  BY DEF Emits, Typed
<1> DEFINE us == Only(NextUnits(n), CallUnits)
<1>2. CallsSent' = CallsSent \o us /\ us \in Seq(Fragment) /\ CallsSent \in Seq(Fragment)
  <2>1. /\ Only(SubSeq(Units, 1, sent + n), CallUnits) = CallsSent \o us
        /\ us \in Seq(Fragment) /\ CallsSent \in Seq(Fragment)
    BY <1>1, SendMore
  <2>2. Units' = Units /\ CallUnits' = CallUnits /\ sent' = sent + n  BY <1>1, FixedFacts DEF Emits
  <2>3. CallsSent' = Only(SubSeq(Units, 1, sent + n), CallUnits)  BY <2>2 DEF CallsSent, SentUnits
  <2> QED  BY <2>1, <2>3
<1>3. calls = NumberedFrom(CallsSent, 0)
  <2>1. CallsIn(<<>>) = <<>>  BY FlatMapEmpty DEF CallsIn
  <2>2. calls \o <<>> = calls  BY DEF Typed
  <2> QED  BY <2>1, <2>2 DEF WholeInv, Emits
<1>4. CallsIn(outbox)' = NumberedFrom(us, Len(CallsSent))  BY DEF CallsIn
<1> HIDE DEF us
<1>5. calls' \o CallsIn(outbox)' = NumberedFrom(CallsSent', 0)
  <2>1. calls' = calls  BY DEF Emits
  <2>2. NumberedFrom(CallsSent \o us, 0) = NumberedFrom(CallsSent, 0) \o NumberedFrom(us, Len(CallsSent))
    BY <1>2, NumberedMore
  <2> QED  BY <1>2, <1>3, <1>4, <2>1, <2>2
<1>6. NumberedFrom(CallsSent, 0)' = NumberedFrom(CallsSent', 0)  BY DEF NumberedFrom
<1>7. (dialect = "ollama" /\ stage \notin {"sent", "broken"} => CallsSent = <<>>)'
  <2>1. dialect' = dialect  BY <1>1 DEF Fixed
  <2>2. ASSUME dialect = "ollama", stage' # "sent"  PROVE CallsSent' = <<>>
    <3>1. CallsSent = <<>> /\ us = <<>>  BY <2>2 DEF WholeInv, Emits, us
    <3>2. <<>> \o <<>> = <<>>  OBVIOUS
    <3> QED  BY <1>2, <3>1, <3>2
  <2> QED  BY <2>1, <2>2
<1>8. (dialect = "gemini" => DOMAIN tool = 1 .. Len(CallsSent))'
  BY <1>1, <1>2 DEF Fixed, us
<1> QED  BY <1>5, <1>6, <1>7, <1>8 DEF WholeInv

-----------------------------------------------------------------------------
(* Gemini and Ollama.                                                      *)

\* The chunks q of an event: the role in r, what it says, the finish in f.
Composition(q, r, f, x, ts, cs, first) ==
  /\ q \in Seq(Chunk) /\ Arranged(q, r # <<>>, f # <<>>, x)
  /\ TextIn(q) = ts /\ CallsIn(q) = NumberedFrom(cs, first)
  /\ \A i \in 1 .. Len(q) : q[i].kind = "call" => q[i].id # <<>>
  /\ q = <<>> => r = <<>> /\ f = <<>>

LEMMA Composed ==
  ASSUME NEW r, MaybeRole(r), NEW x \in Finishes, NEW f, MaybeFinish(f, x),
         NEW ts \in Seq(Fragment), NEW cs \in Seq(Fragment), NEW first \in Nat, Len(ts) <= 2
  PROVE  Composition((r \o Said(ts, cs, first)) \o f, r, f, x, ts, cs, first)
<1> DEFINE d == Said(ts, cs, first)
           q == (r \o d) \o f
<1>1. /\ d \in Seq(Chunk) /\ TextIn(d) = ts /\ CallsIn(d) = NumberedFrom(cs, first)
      /\ \A i \in 1 .. Len(d) :
           \/ d[i].kind = "content" /\ d[i].units = ts /\ ts # <<>>
           \/ d[i].kind = "call" /\ d[i].id # <<>>
  BY SaidIs
<1> HIDE DEF d
<1>2. /\ q \in Seq(Chunk) /\ Len(q) = Len(r) + Len(d) + Len(f)
      /\ \A i \in 1 .. Len(r) : q[i] = RoleChunk
      /\ \A i \in 1 .. Len(d) : q[Len(r) + i] = d[i]
      /\ \A i \in 1 .. Len(f) : q[Len(r) + Len(d) + i] = FinishChunk(x)
      /\ TextIn(q) = TextIn(d) /\ CallsIn(q) = CallsIn(d)
  <2>1. Glued((r \o d) \o f, r, d, f, x)  BY <1>1, PutTogether
  <2> QED  BY ONLY <2>1 DEF Glued
<1>3. /\ Len(r) \in {0, 1} /\ (r # <<>> <=> Len(r) = 1)
      /\ Len(f) \in {0, 1} /\ (f # <<>> <=> Len(f) = 1) /\ Len(d) \in Nat
  <2>1. ASSUME NEW c  PROVE Len(<<c>>) = 1 /\ <<c>> # <<>>  OBVIOUS
  <2>2. Len(<<>>) = 0  OBVIOUS
  <2>3. Len(r) \in {0, 1} /\ (r # <<>> <=> Len(r) = 1)
    <3>1. CASE r = <<>>  BY <2>2, <3>1
    <3>2. CASE r = <<RoleChunk>>  BY <2>1, <3>2
    <3> QED  BY <3>1, <3>2 DEF MaybeRole
  <2>4. Len(f) \in {0, 1} /\ (f # <<>> <=> Len(f) = 1)
    <3>1. CASE f = <<>>  BY <2>2, <3>1
    <3>2. CASE f = <<FinishChunk(x)>>  BY <2>1, <3>2
    <3> QED  BY <3>1, <3>2 DEF MaybeFinish
  <2>5. Len(d) \in Nat  BY <1>1
  <2> QED  BY <2>3, <2>4, <2>5
<1> DEFINE lr == Len(r)
           ld == Len(d)
           lf == Len(f)
           lq == Len(q)
<1>a. lr \in {0, 1} /\ lf \in {0, 1} /\ ld \in Nat /\ lq = lr + ld + lf  BY <1>2, <1>3
<1> HIDE DEF q
<1>4. ASSUME NEW i \in 1 .. Len(q)
      PROVE  \/ r # <<>> /\ i = 1 /\ q[i] = RoleChunk
             \/ f # <<>> /\ i = Len(q) /\ q[i] = FinishChunk(x)
             \/ q[i].kind = "content" /\ q[i].units = ts /\ ts # <<>>
             \/ q[i].kind = "call" /\ q[i].id # <<>>
  <2>1. CASE i <= Len(r)
    <3>1. i = 1 /\ lr = 1
      <4>1. i \in 1 .. lq /\ i <= lr  BY <2>1
      <4> HIDE DEF lr, ld, lf, lq
      <4> QED  BY <1>a, <4>1
    <3>2. i \in 1 .. Len(r) /\ r # <<>>  BY <1>3, <3>1
    <3> QED  BY <1>2, <3>1, <3>2
  <2>2. CASE i > Len(r) /\ i <= Len(r) + Len(d)
    <3>1. i - lr \in 1 .. ld /\ lr + (i - lr) = i
      <4>1. i \in 1 .. lq /\ i > lr /\ i <= lr + ld  BY <2>2
      <4> HIDE DEF lr, ld, lf, lq
      <4> QED  BY <1>a, <4>1
    <3>2. q[i] = d[i - Len(r)]  BY <1>2, <3>1
    <3> QED  BY <1>1, <3>1, <3>2
  <2>3. CASE i > Len(r) + Len(d)
    <3>1. lf = 1 /\ i = lr + ld + 1 /\ i = lq
      <4>1. i \in 1 .. lq /\ i > lr + ld  BY <2>3
      <4> HIDE DEF lr, ld, lf, lq
      <4> QED  BY <1>a, <4>1
    <3>2. q[i] = FinishChunk(x)
      <4>1. 1 \in 1 .. Len(f)  BY <3>1
      <4> QED  BY <1>2, <3>1, <4>1
    <3> QED  BY <1>3, <3>1, <3>2
  <2>4. i <= lr \/ (i > lr /\ i <= lr + ld) \/ i > lr + ld
    <3>1. i \in 1 .. lq  OBVIOUS
    <3> HIDE DEF lr, ld, lf, lq
    <3> QED  BY <1>a, <3>1
  <2> QED  BY <2>1, <2>2, <2>3, <2>4
<1>5. RoleChunk.kind = "role" /\ FinishChunk(x).kind = "finish" /\ FinishChunk(x).why = x
  BY DEF RoleChunk, FinishChunk
<1>6. r # <<>> => q # <<>> /\ q[1] = RoleChunk
  <2> SUFFICES ASSUME r # <<>> PROVE q # <<>> /\ q[1] = RoleChunk  OBVIOUS
  <2>1. lr = 1  BY <1>3
  <2>2. lq > 0
    <3> HIDE DEF lr, ld, lf, lq
    <3> QED  BY <1>a, <2>1
  <2>3. 1 \in 1 .. Len(r) /\ q # <<>>  BY <2>1, <2>2
  <2> QED  BY <1>2, <2>3
<1>7. f # <<>> => q # <<>> /\ q[Len(q)] = FinishChunk(x)
  <2> SUFFICES ASSUME f # <<>> PROVE q # <<>> /\ q[Len(q)] = FinishChunk(x)  OBVIOUS
  <2>1. lf = 1  BY <1>3
  <2>2. lq > 0 /\ lq = lr + ld + 1
    <3> HIDE DEF lr, ld, lf, lq
    <3> QED  BY <1>a, <2>1
  <2>3. 1 \in 1 .. Len(f) /\ q # <<>>  BY <2>1, <2>2
  <2> QED  BY <1>2, <2>2, <2>3
<1>8. ts # <<>> => Len(ts) \in 1 .. 2
  <2> DEFINE k == Len(ts)
  <2>1. k \in Nat /\ (ts # <<>> => k # 0) /\ k <= 2  OBVIOUS
  <2> HIDE DEF k
  <2>2. ts # <<>> => k \in 1 .. 2  BY <2>1
  <2> QED  BY <2>2 DEF k
<1>9. Arranged(q, r # <<>>, f # <<>>, x)  BY <1>4, <1>5, <1>6, <1>7, <1>8 DEF Arranged
<1>10. \A i \in 1 .. Len(q) : q[i].kind = "call" => q[i].id # <<>>  BY <1>4, <1>5
<1>11. q = <<>> => r = <<>> /\ f = <<>>  BY <1>6, <1>7
<1>12. Composition(q, r, f, x, ts, cs, first)
  BY <1>1, <1>2, <1>9, <1>10, <1>11 DEF Composition
<1> QED  BY <1>12 DEF q, d

LEMMA DeltaIsSaid ==
  ASSUME NEW n, NEW first
  PROVE  /\ DeltaChunks(n, first)
              = Said(Only(NextUnits(n), TextUnits), Only(NextUnits(n), CallUnits), first)
         /\ CallsAmong(n) = Len(Only(NextUnits(n), CallUnits))
BY DEF DeltaChunks, CallsAmong, Said, Opening, NextUnits, TextUnits, CallUnits

\* When everything has been sent, calls have been seen if there are any.
LEMMA AllCallsSent ==
  ASSUME Setting, dialect # "anthropic"
  PROVE  /\ Only(Units, CallUnits) = <<>> <=> FullCalls = <<>>
         /\ Len(Only(Units, CallUnits)) <= MaxBlocks
<1> DEFINE cs == Only(InOrder, CallBlocks)
           us == Only(Units, CallUnits)
<1>1. us = [i \in DOMAIN cs |-> <<cs[i], 0>>]  BY WholeCalls DEF CallBlocks, CallUnits
<1>2. /\ cs \in Seq(DOMAIN reply) /\ (cs = <<>> <=> CallBlocks = {})
      /\ (FullCalls = <<>> <=> CallBlocks = {})
  BY FullCallsFacts
<1>3. us \in Seq(Fragment)
  <2>1. Units \in Seq(Fragment)  BY UnitsType
  <2> QED  BY <2>1, OnlyType
<1>4. Len(cs) <= MaxBlocks
  <2>1. InOrder \in Seq(DOMAIN reply) /\ Len(InOrder) <= MaxBlocks /\ Len(InOrder) \in Nat
    BY ReplyFacts, DialectsAssumption
  <2>2. Len(cs) <= Len(InOrder)  BY <2>1, OnlyOrElse
  <2> QED  BY <1>2, <2>1, <2>2, DialectsAssumption
<1> HIDE DEF cs, us
<1>5. DOMAIN us = DOMAIN cs  BY <1>1
<1>6. Len(us) = Len(cs)  BY <1>2, <1>3, <1>5
<1>7. us = <<>> <=> cs = <<>>  BY <1>2, <1>3, <1>6
<1> QED  BY <1>2, <1>4, <1>6, <1>7 DEF us

LEMMA NothingNext ==
  ASSUME Setting, sent \in 0 .. Len(Units)
  PROVE  NextUnits(0) = <<>> /\ \A S : Only(NextUnits(0), S) = <<>>
<1>1. NextUnits(0) \in Seq(Fragment) /\ Len(NextUnits(0)) = 0
  <2>1. 0 \in Nat /\ sent + 0 <= Len(Units)  BY UnitsType
  <2> QED  BY <2>1, SendMore
<1>2. NextUnits(0) = <<>>  BY <1>1
<1> QED  BY <1>2, OnlyEmpty

\* The role goes out on its own.
LEMMA RoleEmits ==
  ASSUME Typed, stage = "start", stage' = "body", outbox = <<>>, outbox' = <<RoleChunk>>,
         sent' = sent, Fixed, UNCHANGED <<role, text, calls, finish, told>>
  PROVE  Emits(0) /\ CallsIn(outbox') = <<>>
<1>1. \A S : Only(NextUnits(0), S) = <<>>  BY NothingNext DEF Typed
<1> DEFINE q == <<RoleChunk>>
<1>2. q \in Seq(Chunk) /\ Len(q) = 1 /\ q[1] = RoleChunk
  BY ChunkMakes
<1>3. TextIn(q) = <<>> /\ CallsIn(q) = <<>>
  <2>1. RoleChunk \in Chunk  BY ChunkMakes
  <2>2. TextFn[RoleChunk] = <<>> /\ CallsFn[RoleChunk] = <<>>
    BY <2>1 DEF TextFn, CallsFn, TextOf, CallsOf, RoleChunk
  <2>3. FlatMap(TextFn, <<RoleChunk>>) = TextFn[RoleChunk]
        /\ FlatMap(CallsFn, <<RoleChunk>>) = CallsFn[RoleChunk]
    BY <2>1, ChunkSays, FlatMapOne
  <2> QED  BY <2>2, <2>3 DEF TextIn, CallsIn
<1>4. RoleChunk.kind = "role"  BY DEF RoleChunk
<1>5. outbox' = q  OBVIOUS
<1>6. Arranged(q, stage = "start", stage' = "sent", FullFinish)
  <2>1. \A i \in 1 .. Len(q) : i = 1 /\ q[i].kind = "role"  BY <1>2, <1>4
  <2>2. q # <<>>  OBVIOUS
  <2> HIDE DEF q
  <2> QED  BY <1>2, <1>4, <2>1, <2>2 DEF Arranged
<1>7. sent' = sent + 0 /\ sent + 0 <= Len(Units) /\ sent \in Nat  BY UnitsType DEF Typed
<1> HIDE DEF q
<1>8. q # <<>>  BY <1>2
<1>9. Emits(0)  BY <1>1, <1>2, <1>3, <1>5, <1>6, <1>7, <1>8 DEF Emits
<1> QED  BY <1>3, <1>5, <1>9

-----------------------------------------------------------------------------
(* Each upstream's steps are such.                                         *)

LEMMA MessageStartEmits ==
  ASSUME Typed, InPlace, MessageStart
  PROVE  Emits(0)
BY RoleEmits DEF MessageStart, Reading, Fixed, consumer, translator

LEMMA OllamaStartEmits ==
  ASSUME Typed, OllamaStart
  PROVE  Emits(0) /\ CallsIn(outbox') = <<>>
BY RoleEmits DEF OllamaStart, Reading, Fixed, consumer, translator

\* The finish goes out on its own.
LEMMA FinishEmits ==
  ASSUME Typed, stage = "ending", stage' = "sent", outbox = <<>>,
         outbox' = <<FinishChunk(FullFinish)>>, sent = Len(Units),
         sent' = sent, Fixed, UNCHANGED <<role, text, calls, finish, told>>
  PROVE  Emits(0)
<1>1. \A S : Only(NextUnits(0), S) = <<>>  BY NothingNext DEF Typed
<1> DEFINE c == FinishChunk(FullFinish)
           q == <<c>>
<1>2. c \in Chunk /\ c.kind = "finish" /\ c.why = FullFinish
  BY ChunkMakes, FinishFacts DEF FinishChunk, Typed
<1>3. TextFn[c] = <<>>  BY <1>2 DEF TextFn, TextOf
<1> HIDE DEF c
<1>4. q \in Seq(Chunk) /\ Len(q) = 1 /\ q[1] = c  BY <1>2
<1>5. TextIn(q) = <<>>
  <2>1. FlatMap(TextFn, <<c>>) = TextFn[c]  BY <1>2, ChunkSays, FlatMapOne
  <2> QED  BY <1>3, <2>1 DEF TextIn
<1>6. outbox' = q  BY DEF c
<1> HIDE DEF q
<1>7. q # <<>>  BY <1>4
<1>8. Arranged(q, stage = "start", stage' = "sent", FullFinish)
  <2>1. \A i \in 1 .. Len(q) : i = 1 /\ q[i] = c  BY <1>4
  <2> QED  BY <1>2, <1>4, <1>7, <2>1 DEF Arranged
<1>9. sent' = sent + 0 /\ sent + 0 <= Len(Units) /\ sent \in Nat  BY UnitsType DEF Typed
<1> QED  BY <1>1, <1>4, <1>5, <1>6, <1>7, <1>8, <1>9 DEF Emits

\* When Anthropic's message ends, the calls it knows are those of the whole answer.
LEMMA AllBlocksPassed ==
  ASSUME Typed, AnthropicInv, dialect = "anthropic", open = 0, sent = Len(Units)
  PROVE  DOMAIN tool = CallBlocks /\ sent = 2 * Len(reply)
<1>1. Paired(Units, Len(reply)) /\ Len(reply) \in Nat /\ CallBlocks \subseteq 1 .. Len(reply)
  BY TwoUnitsEach, ReplyFacts DEF Typed, CallBlocks, Blocks
<1>2. PICK b \in 0 .. Len(reply) : sent = 2 * b /\ DOMAIN tool = CallBlocks \cap (1 .. b)
  BY DEF AnthropicInv, AtBlock
<1>3. sent = 2 * Len(reply)  BY <1>1 DEF Paired
<1>4. b = Len(reply)  BY <1>1, <1>2, <1>3
<1> QED  BY <1>1, <1>2, <1>3, <1>4

LEMMA MessageStopEmits ==
  ASSUME Typed, AnthropicInv, MessageStop
  PROVE  Emits(0) /\ outbox' = <<FinishChunk(FullFinish)>>
<1>1. dialect = "anthropic" /\ stage = "ending" /\ stage' = "sent" /\ outbox = <<>>
  BY DEF MessageStop, Reading
<1>2. open = 0 /\ sent = Len(Units)  BY <1>1 DEF AnthropicInv, AtBlock
<1>3. DOMAIN tool = CallBlocks  BY <1>1, <1>2, AllBlocksPassed
<1>4. FullCalls = <<>> <=> CallBlocks = {}  BY FullCallsFacts DEF Typed
<1>5. (DOMAIN tool # {}) = (FullCalls # <<>>)  BY <1>3, <1>4
<1>6. outbox' = <<FinishChunk(FullFinish)>>
  <2>1. FullFinish = FinishOf(FullCalls # <<>>)  BY <1>1 DEF FullFinish
  <2>2. outbox' = <<FinishChunk(FinishOf(DOMAIN tool # {}))>>  BY DEF MessageStop
  <2> QED  BY <1>5, <2>1, <2>2
<1>7. sent' = sent /\ Fixed /\ UNCHANGED <<role, text, calls, finish, told>>
  BY DEF MessageStop, Fixed, consumer
<1>8. Emits(0)  BY <1>1, <1>2, <1>6, <1>7, FinishEmits
<1> QED  BY <1>6, <1>8

\* Anthropic's unit i is the first or the second of block (i + 1) \div 2.
LEMMA UnitAt ==
  ASSUME Setting, dialect = "anthropic", NEW i \in 1 .. Len(Units)
  PROVE  \E k \in 1 .. Len(reply) :
           /\ (i + 1) \div 2 = k
           /\ \/ i = 2 * k - 1 /\ Units[i] = <<k, 1>>
              \/ i = 2 * k /\ Units[i] = <<k, 2>>
<1>1. Paired(Units, Len(reply)) /\ Len(reply) \in Nat  BY TwoUnitsEach, ReplyFacts
<1>2. Len(Units) = 2 * Len(reply)  BY <1>1 DEF Paired
<1> DEFINE k == (i + 1) \div 2
           n == Len(reply)
<1>3. k \in 1 .. n /\ (i = 2 * k - 1 \/ i = 2 * k)
  <2>1. i \in 1 .. 2 * n /\ n \in Nat  BY <1>1, <1>2
  <2> HIDE DEF n
  <2> QED  BY <2>1
<1> HIDE DEF k
<1>4. Units[2 * k - 1] = <<k, 1>> /\ Units[2 * k] = <<k, 2>>  BY <1>1, <1>3 DEF Paired
<1> QED  BY <1>3, <1>4 DEF k

\* The chunk of a unit.
LEMMA ChunkOfFacts ==
  ASSUME Setting, NEW k \in DOMAIN reply, NEW j \in {1, 2}
  PROVE  LET u == <<k, j>>
             c == ChunkOf(CallBlocks, u)
         IN  /\ u \in Fragment /\ c \in Chunk
             /\ u \in TextUnits <=> k \notin CallBlocks
             /\ k \notin CallBlocks => c = TextChunk(<<u>>)
             /\ k \in CallBlocks /\ j = 1 => c = OpenChunk(k - 1, k, u)
             /\ k \in CallBlocks /\ j = 2 => c = MoreChunk(k - 1, u)
             /\ TextIn(<<c>>) = Only(<<u>>, TextUnits)
             /\ Arranged(<<c>>, FALSE, FALSE, FullFinish)
<1> DEFINE u == <<k, j>>
           c == ChunkOf(CallBlocks, u)
<1>1. k \in 1 .. MaxBlocks /\ k \in Nat /\ k - 1 \in Nat  BY ReplyFacts
<1>2. u \in Fragment /\ <<u>> \in Seq(Fragment) /\ u[1] = k /\ u[2] = j
  <2>1. u \in Fragment  BY <1>1 DEF Fragment
  <2> QED  BY <2>1
<1>3. u \in TextUnits <=> k \notin CallBlocks
  <2>1. u \in TextUnits <=> k \in Blocks("text")  BY DEF TextUnits, UnitsIn
  <2>2. k \in Blocks("text") <=> k \notin Blocks("call")  BY ReplyFacts
  <2> QED  BY <2>1, <2>2 DEF CallBlocks
<1>4. /\ k \notin CallBlocks => c = TextChunk(<<u>>)
      /\ k \in CallBlocks /\ j = 1 => c = OpenChunk(k - 1, k, u)
      /\ k \in CallBlocks /\ j = 2 => c = MoreChunk(k - 1, u)
  BY DEF ChunkOf
<1> HIDE DEF u, c
<1>5. c \in Chunk
  <2>1. CASE k \notin CallBlocks  BY <1>2, <1>4, <2>1, ChunkMakes
  <2>2. CASE k \in CallBlocks /\ j = 1  BY <1>1, <1>2, <1>4, <2>2, ChunkMakes
  <2>3. CASE k \in CallBlocks /\ j = 2  BY <1>1, <1>2, <1>4, <2>3, ChunkMakes
  <2> QED  BY <2>1, <2>2, <2>3
<1>6. TextIn(<<c>>) = TextOf(c)
  <2>1. FlatMap(TextFn, <<c>>) = TextFn[c]  BY <1>5, ChunkSays, FlatMapOne
  <2> QED  BY <1>5, <2>1 DEF TextIn, TextFn
<1>7. Only(<<u>>, TextUnits) = IF u \in TextUnits THEN <<u>> ELSE <<>>  BY OnlyOne
<1> DEFINE q == <<c>>
<1>8. /\ Len(q) = 1 /\ q[1] = c /\ q # <<>> /\ Len(<<u>>) \in 1 .. 2
      /\ \A i \in 1 .. Len(q) : q[i] = c
  OBVIOUS
<1> HIDE DEF q
<1>9. CASE k \notin CallBlocks
  <2>1. c.kind = "content" /\ c.units = <<u>>  BY <1>4, <1>9 DEF TextChunk
  <2>2. Arranged(q, FALSE, FALSE, FullFinish)  BY <1>8, <2>1 DEF Arranged
  <2>3. TextOf(c) = <<u>>  BY <2>1 DEF TextOf
  <2> QED  BY <1>2, <1>3, <1>4, <1>5, <1>6, <1>7, <1>9, <2>2, <2>3 DEF u, c, q
<1>10. CASE k \in CallBlocks
  <2>1. c.kind = "call"
    <3>1. CASE j = 1  BY <1>4, <1>10, <3>1 DEF OpenChunk
    <3>2. CASE j = 2  BY <1>4, <1>10, <3>2 DEF MoreChunk
    <3> QED  BY <3>1, <3>2
  <2>2. Arranged(q, FALSE, FALSE, FullFinish)  BY <1>8, <2>1 DEF Arranged
  <2>3. TextOf(c) = <<>>  BY <2>1 DEF TextOf
  <2> QED  BY <1>2, <1>3, <1>4, <1>5, <1>6, <1>7, <1>10, <2>2, <2>3 DEF u, c, q
<1> QED  BY <1>9, <1>10

\* A block's delta: its first unit opens a call, its second adds to it.
LEMMA BlockDeltaSends ==
  ASSUME Typed, AnthropicInv, BlockDelta
  PROVE  /\ dialect = "anthropic" /\ open \in 1 .. Len(reply) /\ stage # "start"
         /\ sent + 1 \in 1 .. Len(Units)
         /\ \/ sent + 1 = 2 * open - 1 /\ Unit = <<open, 1>>
            \/ sent + 1 = 2 * open /\ Unit = <<open, 2>>
         /\ outbox' = <<ChunkOf(CallBlocks, Unit)>>
<1>1. /\ dialect = "anthropic" /\ open # 0 /\ sent < Len(Units) /\ Unit[1] = open
      /\ outbox = <<>> /\ stage \notin {"sent", "broken"}
  BY DEF BlockDelta, Reading, UnitLeft
<1>2. AtBlock /\ Setting  BY <1>1 DEF AnthropicInv, Typed
<1>3. sent + 1 \in 1 .. Len(Units)
  <2>1. Len(Units) \in Nat /\ sent \in 0 .. Len(Units)  BY UnitsType DEF Typed
  <2> QED  BY <1>1, <2>1
<1>4. open \in 1 .. Len(reply) /\ stage # "start"
  <2>1. open \in 0 .. Len(reply) /\ Len(reply) \in Nat  BY <1>2, ReplyFacts DEF AtBlock
  <2> QED  BY <1>1, <1>2, <2>1 DEF AtBlock
<1>7. open \in Nat /\ sent \in Nat  BY <1>4, UnitsType DEF Typed
<1>5. \/ sent + 1 = 2 * open - 1 /\ Unit = <<open, 1>>
      \/ sent + 1 = 2 * open /\ Unit = <<open, 2>>
  <2>1. PICK k \in 1 .. Len(reply) : \/ sent + 1 = 2 * k - 1 /\ Unit = <<k, 1>>
                                     \/ sent + 1 = 2 * k /\ Unit = <<k, 2>>
    BY <1>1, <1>2, <1>3, UnitAt DEF Unit
  <2>2. k = open  BY <1>1, <2>1
  <2> QED  BY <2>1, <2>2
<1>6. outbox' = <<ChunkOf(CallBlocks, Unit)>>
  <2>1. open \in CallBlocks <=> reply[open] = "call"
    BY <1>2, <1>4, ReplyFacts DEF CallBlocks, Blocks
  <2>2. open \in DOMAIN reply /\ reply[open] \in {"text", "call"}
    BY <1>2, <1>4, ReplyFacts
  <2>3. CASE reply[open] = "text"
    <3>1. outbox' = <<TextChunk(<<Unit>>)>>  BY <2>3 DEF BlockDelta
    <3>2. ChunkOf(CallBlocks, Unit) = TextChunk(<<Unit>>)  BY <1>1, <2>1, <2>3 DEF ChunkOf
    <3> QED  BY <3>1, <3>2
  <2>4. CASE reply[open] = "call"
    <3>1. outbox' = IF tool[open] THEN <<MoreChunk(open - 1, Unit)>>
                    ELSE <<OpenChunk(open - 1, open, Unit)>>
      BY <2>4 DEF BlockDelta
    <3>2. tool[open] <=> sent > 2 * open - 2  BY <1>1, <1>2, <2>1, <2>4 DEF AtBlock
    <3>3. CASE sent + 1 = 2 * open - 1 /\ Unit = <<open, 1>>
      <4>1. ~(sent > 2 * open - 2)  BY <1>7, <3>3
      <4>2. ChunkOf(CallBlocks, Unit) = OpenChunk(open - 1, open, Unit)
        BY <2>1, <2>4, <3>3 DEF ChunkOf
      <4> QED  BY <3>1, <3>2, <4>1, <4>2
    <3>4. CASE sent + 1 = 2 * open /\ Unit = <<open, 2>>
      <4>1. sent > 2 * open - 2  BY <1>7, <3>4
      <4>2. ChunkOf(CallBlocks, Unit) = MoreChunk(open - 1, Unit)
        BY <2>1, <2>4, <3>4 DEF ChunkOf
      <4> QED  BY <3>1, <3>2, <4>1, <4>2
    <3> QED  BY <1>5, <3>3, <3>4
  <2> QED  BY <2>2, <2>3, <2>4
<1> QED  BY <1>1, <1>3, <1>4, <1>5, <1>6

LEMMA NextIsUnit ==
  ASSUME Setting, sent \in 0 .. Len(Units), sent + 1 <= Len(Units)
  PROVE  NextUnits(1) = <<Unit>>
<1>1. Units \in Seq(Fragment) /\ Len(Units) \in Nat  BY UnitsType
<1>2. NextUnits(1) \in Seq(Fragment) /\ Len(NextUnits(1)) = 1 /\ NextUnits(1)[1] = Unit
  <2>1. 1 \in Nat /\ 1 \in 1 .. 1  OBVIOUS
  <2> QED  BY <2>1, SendMore DEF Unit
<1> HIDE DEF NextUnits
<1> QED  BY <1>2

LEMMA BlockDeltaEmits ==
  ASSUME Typed, AnthropicInv, BlockDelta
  PROVE  Emits(1)
<1>1. /\ dialect = "anthropic" /\ open \in 1 .. Len(reply) /\ stage # "start"
      /\ sent + 1 \in 1 .. Len(Units) /\ outbox' = <<ChunkOf(CallBlocks, Unit)>>
  BY BlockDeltaSends
<1>2. PICK j \in {1, 2} : Unit = <<open, j>>  BY BlockDeltaSends
<1>3. open \in DOMAIN reply /\ Setting /\ sent + 1 <= Len(Units)
  BY <1>1, ReplyFacts, UnitsType DEF Typed
<1> DEFINE c == ChunkOf(CallBlocks, Unit)
           q == <<c>>
<1>4. /\ c \in Chunk /\ TextIn(q) = Only(<<Unit>>, TextUnits)
      /\ Arranged(q, FALSE, FALSE, FullFinish)
  BY <1>2, <1>3, ChunkOfFacts
<1>5. NextUnits(1) = <<Unit>>  BY <1>3, NextIsUnit DEF Typed
<1>6. outbox' = q  BY <1>1
<1> HIDE DEF c
<1>7. q \in Seq(Chunk) /\ q # <<>>  BY <1>4
<1> HIDE DEF q
<1>8. /\ outbox = <<>> /\ stage \notin {"sent", "broken"} /\ stage' = stage
      /\ Fixed /\ UNCHANGED <<role, text, calls, finish, told>> /\ sent' = sent + 1
  BY DEF BlockDelta, Reading, Fixed, consumer
<1>9. stage' \in {"body", "ending", "sent"} /\ stage' # "sent"  BY <1>1, <1>8 DEF Typed
<1>10. (stage = "start") = FALSE /\ (stage' = "sent") = FALSE  BY <1>1, <1>9
<1>11. Arranged(q, stage = "start", stage' = "sent", FullFinish)  BY <1>4, <1>10
<1> QED  BY <1>3, <1>4, <1>5, <1>6, <1>7, <1>8, <1>9, <1>11 DEF Emits

\* What all calls that have been sent with n units more say of the finish.
LEMMA CallsToTheEnd ==
  ASSUME Typed, dialect # "anthropic", NEW n \in Nat, sent + n = Len(Units)
  PROVE  LET cs == Only(NextUnits(n), CallUnits)
         IN  CallsSent \o cs = <<>> <=> FullCalls = <<>>
<1>1. /\ Setting /\ sent \in 0 .. Len(Units) /\ sent + n <= Len(Units)
      /\ Units \in Seq(Fragment) /\ Len(Units) \in Nat
  BY UnitsType DEF Typed
<1>2. Only(SubSeq(Units, 1, sent + n), CallUnits) = CallsSent \o Only(NextUnits(n), CallUnits)
  BY <1>1, SendMore
<1>3. SubSeq(Units, 1, sent + n) = Units  BY <1>1, SubSeqFull
<1> QED  BY <1>1, <1>2, <1>3, AllCallsSent

LEMMA GeminiChunkEmits ==
  ASSUME Typed, InPlace, WholeInv, GeminiChunk
  PROVE  WholeInv' /\ \E n \in Nat : Emits(n)
<1>1. dialect = "gemini" /\ outbox = <<>> /\ stage \notin {"sent", "broken"}
  BY DEF GeminiChunk, Reading
<1>2. PICK n \in 0 .. 2, last \in BOOLEAN :
        /\ sent + n <= Len(Units)
        /\ n = 0 => last
        /\ last => sent + n = Len(Units)
        /\ sent' = sent + n
        /\ stage' = IF last THEN "sent" ELSE "body"
        /\ tool' = [k \in 1 .. Cardinality(DOMAIN tool) + CallsAmong(n) |-> TRUE]
        /\ outbox' = (IF stage = "start" THEN <<RoleChunk>> ELSE <<>>)
                       \o DeltaChunks(n, Cardinality(DOMAIN tool))
                       \o (IF last THEN <<FinishChunk(FinishOf(DOMAIN tool' # {}))>> ELSE <<>>)
  BY DEF GeminiChunk
<1> DEFINE us == NextUnits(n)
           ts == Only(us, TextUnits)
           cs == Only(us, CallUnits)
           first == Len(CallsSent)
           r == IF stage = "start" THEN <<RoleChunk>> ELSE <<>>
           f == IF last THEN <<FinishChunk(FullFinish)>> ELSE <<>>
<1>3. n \in Nat /\ Setting /\ sent \in 0 .. Len(Units) /\ sent + n <= Len(Units)
  BY <1>2 DEF Typed
<1>4. /\ ts \in Seq(Fragment) /\ cs \in Seq(Fragment) /\ CallsSent \in Seq(Fragment)
      /\ Len(ts) + Len(cs) = n
  BY <1>3, SendMore
<1>5. first \in Nat /\ Len(cs) \in Nat /\ Len(ts) \in Nat /\ Len(ts) <= 2
  <2>1. first \in Nat /\ Len(cs) \in Nat /\ Len(ts) \in Nat  BY <1>4
  <2> DEFINE a == Len(ts)
             b == Len(cs)
  <2>2. a \in Nat /\ b \in Nat /\ a + b = n /\ n <= 2  BY <1>2, <1>4, <2>1
  <2> HIDE DEF a, b
  <2>3. a <= 2  BY <2>2
  <2> QED  BY <2>1, <2>3 DEF a
<1>6. Cardinality(DOMAIN tool) = first
  <2>1. DOMAIN tool = 1 .. first  BY <1>1 DEF WholeInv
  <2>2. Cardinality(1 .. first) = first
    <3> HIDE DEF first
    <3>1. Cardinality(1 .. first) = IF 1 > first THEN 0 ELSE first - 1 + 1
      BY <1>5, FS_Interval
    <3> QED  BY <1>5, <3>1
  <2> QED  BY <2>1, <2>2
<1>7. DOMAIN tool' = 1 .. Len(CallsSent \o cs)
  <2>1. tool' = [k \in 1 .. first + Len(cs) |-> TRUE]  BY <1>2, <1>6, DeltaIsSaid
  <2>2. Len(CallsSent \o cs) = first + Len(cs)  BY <1>4
  <2> QED  BY <2>1, <2>2
<1>8. last => FinishOf(DOMAIN tool' # {}) = FullFinish
  <2> SUFFICES ASSUME last PROVE FinishOf(DOMAIN tool' # {}) = FullFinish  OBVIOUS
  <2>1. CallsSent \o cs = <<>> <=> FullCalls = <<>>  BY <1>1, <1>2, <1>3, CallsToTheEnd
  <2>2. CallsSent \o cs \in Seq(Fragment)  BY <1>4
  <2> DEFINE all == CallsSent \o cs
  <2>3. all \in Seq(Fragment) /\ DOMAIN tool' = 1 .. Len(all) /\ (all = <<>> <=> FullCalls = <<>>)
    BY <1>7, <2>1, <2>2
  <2> HIDE DEF all
  <2>4. Len(all) \in Nat /\ (all = <<>> <=> Len(all) = 0)  BY <2>3
  <2>5. (DOMAIN tool' # {}) = (FullCalls # <<>>)
    <3>1. CASE all = <<>>
      <4>1. 1 .. Len(all) = {}  BY <2>4, <3>1
      <4> QED  BY <2>3, <3>1, <4>1
    <3>2. CASE all # <<>>
      <4>1. 1 \in 1 .. Len(all)  BY <2>4, <3>2
      <4> QED  BY <2>3, <3>2, <4>1
    <3> QED  BY <3>1, <3>2
  <2>6. FullFinish = FinishOf(FullCalls # <<>>)  BY <1>1 DEF FullFinish
  <2> QED  BY <2>5, <2>6
<1>9. outbox' = (r \o Said(ts, cs, first)) \o f
  <2>1. DeltaChunks(n, first) = Said(ts, cs, first)  BY DeltaIsSaid
  <2>2. (IF last THEN <<FinishChunk(FinishOf(DOMAIN tool' # {}))>> ELSE <<>>) = f  BY <1>8
  <2> QED  BY <1>2, <1>6, <2>1, <2>2
<1>10. /\ MaybeRole(r) /\ (r # <<>>) = (stage = "start")
       /\ MaybeFinish(f, FullFinish) /\ (f # <<>>) = (stage' = "sent")
  <2>1. MaybeRole(r) /\ (r # <<>>) = (stage = "start")
    BY DEF MaybeRole
  <2>2. MaybeFinish(f, FullFinish) /\ (f # <<>>) = (stage' = "sent")
    BY <1>2 DEF MaybeFinish
  <2> QED  BY <2>1, <2>2
<1>11. FullFinish \in Finishes  BY FinishFacts DEF Typed
<1> HIDE DEF us, ts, cs, first, r, f
<1>12. /\ outbox' \in Seq(Chunk) /\ Arranged(outbox', r # <<>>, f # <<>>, FullFinish)
       /\ TextIn(outbox') = ts /\ CallsIn(outbox') = NumberedFrom(cs, first)
       /\ \A i \in 1 .. Len(outbox') : outbox'[i].kind = "call" => outbox'[i].id # <<>>
       /\ outbox' = <<>> => r = <<>> /\ f = <<>>
  <2>1. Composition((r \o Said(ts, cs, first)) \o f, r, f, FullFinish, ts, cs, first)
    BY <1>4, <1>5, <1>10, <1>11, Composed
  <2>2. Composition(outbox', r, f, FullFinish, ts, cs, first)  BY <1>9, <2>1
  <2> QED  BY <2>2 DEF Composition
<1>13. Fixed /\ UNCHANGED <<role, text, calls, finish, told>>
  BY DEF GeminiChunk, Fixed, consumer
<1>14. /\ stage' \in {"body", "ending", "sent"} /\ stage' # "ending" /\ stage' # "start"
       /\ stage' = "sent" => sent' = Len(Units)
  BY <1>2
<1>15. Emits(n)
  <2>1. Arranged(outbox', stage = "start", stage' = "sent", FullFinish)  BY <1>10, <1>12
  <2>2. outbox' = <<>> => stage # "start" /\ stage' # "sent"  BY <1>10, <1>12
  <2>3. TextIn(outbox') = Only(NextUnits(n), TextUnits)  BY <1>12 DEF ts, us
  <2> QED  BY <1>1, <1>2, <1>3, <1>12, <1>13, <1>14, <2>1, <2>2, <2>3 DEF Emits
<1>16. WholeInv'
  <2>1. CallsIn(outbox') = NumberedFrom(Only(NextUnits(n), CallUnits), Len(CallsSent))
    BY <1>12 DEF cs, us, first
  <2>2. DOMAIN tool' = 1 .. Len(CallsSent \o Only(NextUnits(n), CallUnits))  BY <1>7 DEF cs, us
  <2>3. dialect # "anthropic" /\ dialect # "ollama"  BY <1>1
  <2> QED  BY <1>12, <1>14, <1>15, <2>1, <2>2, <2>3, EmitsWhole
<1> QED  BY <1>3, <1>15, <1>16

\* A line of Ollama: nothing in front of what it says, and perhaps the finish after it.
LEMMA OllamaSends ==
  ASSUME Typed, InPlace, WholeInv, dialect = "ollama", stage = "body", outbox = <<>>,
         NEW n \in Nat, sent + n <= Len(Units), sent' = sent + n,
         Fixed, UNCHANGED <<role, text, calls, finish, told>>,
         NEW f, MaybeFinish(f, FullFinish), (f # <<>>) = (stage' = "sent"),
         stage' \in {"body", "sent"}, stage' = "sent" => sent' = Len(Units),
         Len(Only(NextUnits(n), TextUnits)) <= 2,
         stage' = "body" => /\ Only(NextUnits(n), CallUnits) = <<>>
                            /\ Only(NextUnits(n), TextUnits) # <<>>,
         outbox' = DeltaChunks(n, 0) \o f
  PROVE  Emits(n) /\ WholeInv'
<1> DEFINE ts == Only(NextUnits(n), TextUnits)
           cs == Only(NextUnits(n), CallUnits)
<1>1. Setting /\ sent \in 0 .. Len(Units) /\ FullFinish \in Finishes
  BY FinishFacts DEF Typed
<1>2. ts \in Seq(Fragment) /\ cs \in Seq(Fragment)  BY <1>1, SendMore
<1>3. CallsSent = <<>>  BY DEF WholeInv
<1>4. MaybeRole(<<>>) /\ 0 \in Nat  BY DEF MaybeRole
<1>5. DeltaChunks(n, 0) = Said(ts, cs, 0)  BY DeltaIsSaid
<1> HIDE DEF ts, cs
<1>6. <<>> \o Said(ts, cs, 0) = Said(ts, cs, 0)
  <2> DEFINE d == Said(ts, cs, 0)
  <2>1. d \in Seq(Chunk)  BY <1>2, <1>4, SaidIs
  <2> HIDE DEF d
  <2>2. <<>> \o d = d  BY <2>1
  <2> QED  BY <2>2 DEF d
<1>7. outbox' = (<<>> \o Said(ts, cs, 0)) \o f  BY <1>5, <1>6
<1>8. Len(ts) <= 2  BY DEF ts
<1>9. Composition((<<>> \o Said(ts, cs, 0)) \o f, <<>>, f, FullFinish, ts, cs, 0)
  BY ONLY <1>1, <1>2, <1>4, <1>8, MaybeFinish(f, FullFinish), Composed
<1>10. Composition(outbox', <<>>, f, FullFinish, ts, cs, 0)  BY <1>7, <1>9
<1>11. /\ outbox' \in Seq(Chunk) /\ Arranged(outbox', FALSE, stage' = "sent", FullFinish)
       /\ TextIn(outbox') = ts /\ CallsIn(outbox') = NumberedFrom(cs, 0)
       /\ \A i \in 1 .. Len(outbox') : outbox'[i].kind = "call" => outbox'[i].id # <<>>
       /\ outbox' = <<>> => f = <<>>
  <2>1. (<<>> # <<>>) = FALSE  OBVIOUS
  <2>2. Arranged(outbox', FALSE, stage' = "sent", FullFinish)
    BY <1>10, <2>1 DEF Composition
  <2> QED  BY <1>10, <2>2 DEF Composition
<1>12. outbox' # <<>>
  <2>1. TextIn(<<>>) = <<>>  BY FlatMapEmpty DEF TextIn
  <2> QED  BY <1>11, <2>1 DEF ts
<1>13. Emits(n)
  <2>1. (stage = "start") = FALSE  OBVIOUS
  <2>2. Arranged(outbox', stage = "start", stage' = "sent", FullFinish)  BY <1>11, <2>1
  <2>3. TextIn(outbox') = Only(NextUnits(n), TextUnits)  BY <1>11 DEF ts
  <2> QED  BY <1>11, <1>12, <2>2, <2>3 DEF Emits
<1>14. WholeInv'
  <2>1. Len(CallsSent) = 0  BY <1>3
  <2>2. CallsIn(outbox') = NumberedFrom(Only(NextUnits(n), CallUnits), Len(CallsSent))
    BY <1>11, <2>1 DEF cs
  <2>3. stage' # "sent" => Only(NextUnits(n), CallUnits) = <<>>  OBVIOUS
  <2> QED  BY <1>11, <1>13, <2>2, <2>3, EmitsWhole
<1> QED  BY <1>13, <1>14

LEMMA OllamaLineEmits ==
  ASSUME Typed, InPlace, WholeInv, OllamaLine
  PROVE  WholeInv' /\ \E n \in Nat : Emits(n)
<1>1. /\ dialect = "ollama" /\ stage = "body" /\ outbox = <<>>
      /\ Fixed /\ UNCHANGED <<role, text, calls, finish, told>>
      /\ Setting /\ sent \in 0 .. Len(Units) /\ Len(Units) \in Nat
  BY UnitsType DEF OllamaLine, Reading, Fixed, consumer, Typed
<1> DEFINE left == Len(Units) - sent
<1>2. left \in Nat  BY <1>1
<1>3. CASE /\ left > 0 /\ Unit \in UnitsIn("text")
           /\ sent' = sent + 1 /\ stage' = "body"
           /\ outbox' = DeltaChunks(1, 0)
  <2>1. sent + 1 <= Len(Units) /\ 1 \in Nat  BY <1>1, <1>3
  <2>2. NextUnits(1) = <<Unit>>  BY <1>1, <2>1, NextIsUnit
  <2>3. Unit \in TextUnits /\ Unit \notin CallUnits
    BY <1>1, <1>3, KindsOfUnits DEF TextUnits
  <2>4. Only(NextUnits(1), TextUnits) = <<Unit>> /\ Only(NextUnits(1), CallUnits) = <<>>
    BY <2>2, <2>3, OnlyOne
  <2>5. Len(<<Unit>>) <= 2 /\ <<Unit>> # <<>>
    <3> HIDE DEF Unit
    <3> QED  OBVIOUS
  <2>6. DeltaChunks(1, 0) \o <<>> = DeltaChunks(1, 0)
    <3> DEFINE ts == Only(NextUnits(1), TextUnits)
               cs == Only(NextUnits(1), CallUnits)
               d == Said(ts, cs, 0)
    <3>1. ts \in Seq(Fragment) /\ cs \in Seq(Fragment) /\ 0 \in Nat  BY <1>1, <2>1, SendMore
    <3> HIDE DEF ts, cs
    <3>2. d \in Seq(Chunk)  BY <3>1, SaidIs
    <3>3. DeltaChunks(1, 0) = d  BY DeltaIsSaid DEF ts, cs
    <3> HIDE DEF d
    <3>4. d \o <<>> = d  BY <3>2
    <3> QED  BY <3>3, <3>4
  <2>7. MaybeFinish(<<>>, FullFinish) /\ (<<>> # <<>>) = (stage' = "sent")
    BY <1>3 DEF MaybeFinish
  <2>8. outbox' = DeltaChunks(1, 0) \o <<>>  BY <1>3, <2>6
  <2>9. stage' \in {"body", "sent"} /\ (stage' = "sent" => sent' = Len(Units)) /\ sent' = sent + 1
    BY <1>3
  <2>10. Len(Only(NextUnits(1), TextUnits)) <= 2 /\ Only(NextUnits(1), TextUnits) # <<>>
    BY <2>4, <2>5
  <2>11. Emits(1) /\ WholeInv'
    BY <1>1, <2>1, <2>4, <2>7, <2>8, <2>9, <2>10, OllamaSends
  <2> QED  BY <2>1, <2>11
<1>4. CASE /\ CallsAmong(left) >= left - 1
           /\ sent' = Len(Units) /\ stage' = "sent"
           /\ outbox' = DeltaChunks(left, 0)
                          \o <<FinishChunk(OllamaFinish(CallsAmong(left) > 0))>>
  <2> DEFINE ts == Only(NextUnits(left), TextUnits)
             cs == Only(NextUnits(left), CallUnits)
             f == <<FinishChunk(FullFinish)>>
  <2>1. sent + left = Len(Units) /\ sent + left <= Len(Units) /\ sent' = sent + left
    BY <1>1, <1>4
  <2>2. /\ ts \in Seq(Fragment) /\ cs \in Seq(Fragment) /\ CallsSent \in Seq(Fragment)
        /\ Len(ts) + Len(cs) = left
    BY <1>1, <1>2, <2>1, SendMore
  <2>3. CallsAmong(left) = Len(cs)  BY DeltaIsSaid
  <2>4. Len(ts) <= 2
    <3> DEFINE a == Len(ts)
               b == Len(cs)
    <3>1. a \in Nat /\ b \in Nat /\ a + b = left /\ b >= left - 1  BY <1>4, <2>2, <2>3
    <3> HIDE DEF a, b, left
    <3>2. a <= 2  BY <1>2, <3>1
    <3> QED  BY <3>2 DEF a
  <2>5. OllamaFinish(CallsAmong(left) > 0) = FullFinish
    <3>1. CallsSent = <<>>  BY <1>1 DEF WholeInv
    <3>2. CallsSent \o cs = <<>> <=> FullCalls = <<>>
      BY <1>1, <1>2, <2>1, CallsToTheEnd
    <3> HIDE DEF cs
    <3>3. <<>> \o cs = cs  BY <2>2
    <3>4. (cs # <<>>) = (Len(cs) > 0)  BY <2>2
    <3>5. (CallsAmong(left) > 0) = (FullCalls # <<>>)
      BY <2>3, <3>1, <3>2, <3>3, <3>4
    <3>6. FullFinish = OllamaFinish(FullCalls # <<>>)  BY <1>1 DEF FullFinish
    <3> QED  BY <3>5, <3>6
  <2>6. outbox' = DeltaChunks(left, 0) \o f  BY <1>4, <2>5
  <2>7. MaybeFinish(f, FullFinish) /\ (f # <<>>) = (stage' = "sent")
    BY <1>4 DEF MaybeFinish
  <2>8. /\ stage' \in {"body", "sent"} /\ stage' # "body"
        /\ stage' = "sent" => sent' = Len(Units)
    BY <1>4
  <2> HIDE DEF left, f
  <2>9. Emits(left) /\ WholeInv'
    BY <1>1, <1>2, <2>1, <2>4, <2>6, <2>7, <2>8, OllamaSends
  <2> QED  BY <1>2, <2>9
<1> QED  BY <1>3, <1>4 DEF OllamaLine

-----------------------------------------------------------------------------
(* Anthropic: the calls after so many units.                               *)

LEMMA OpenedFacts ==
  ASSUME NEW B, NEW k \in Nat
  PROVE  /\ Opened(B, 2 * k) \in Seq((1 .. k) \cap B)
         /\ Opened(B, 2 * k + 1)
              = IF k + 1 \in B THEN Append(Opened(B, 2 * k), k + 1) ELSE Opened(B, 2 * k)
         /\ Opened(B, 2 * k + 2) = Opened(B, 2 * k + 1)
         /\ Opened(B, 0) = <<>>
<1> DEFINE o == Only(NumbersTo(k), B)
           p == Only(NumbersTo(k + 1), B)
<1>1. /\ (2 * k + 1) \div 2 = k /\ (2 * k + 1 + 1) \div 2 = k + 1
      /\ (2 * k + 2 + 1) \div 2 = k + 1 /\ (0 + 1) \div 2 = 0
  OBVIOUS
<1>2. /\ Opened(B, 2 * k) = o /\ Opened(B, 2 * k + 1) = p /\ Opened(B, 2 * k + 2) = p
      /\ Opened(B, 0) = Only(NumbersTo(0), B)
  BY <1>1 DEF Opened
<1>3. /\ NumbersTo(k) \in Seq(1 .. k) /\ NumbersTo(k) \in Seq(1 .. k + 1)
      /\ NumbersTo(k + 1) = Append(NumbersTo(k), k + 1) /\ k + 1 \in 1 .. k + 1
  <2>1. k \in Nat /\ k + 1 \in Nat /\ k <= k /\ k <= k + 1  OBVIOUS
  <2>2. NumbersTo(k) \in Seq(1 .. k)  BY <2>1, NumbersAppend
  <2>3. NumbersTo(k) \in Seq(1 .. k + 1)  BY <2>1, NumbersAppend
  <2>4. NumbersTo(k + 1) = Append(NumbersTo(k), k + 1)  BY <2>1, NumbersAppend
  <2> QED  BY <2>2, <2>3, <2>4
<1>4. o \in Seq((1 .. k) \cap B)  BY <1>3, OnlyType
<1>5. p = IF k + 1 \in B THEN Append(o, k + 1) ELSE o
  <2> DEFINE s == NumbersTo(k)
             e == k + 1
  <2>1. s \in Seq(1 .. k + 1) /\ e \in 1 .. k + 1 /\ NumbersTo(k + 1) = Append(s, e)
    BY <1>3
  <2> HIDE DEF s, e
  <2>2. Only(Append(s, e), B) = IF e \in B THEN Append(Only(s, B), e) ELSE Only(s, B)
    BY <2>1, OnlyAppend
  <2> QED  BY <2>1, <2>2 DEF s, e
<1>6. Only(NumbersTo(0), B) = <<>>
  <2>1. NumbersTo(0) = <<>>  BY DEF NumbersTo
  <2> QED  BY <2>1, OnlyEmpty
<1> QED  BY <1>2, <1>4, <1>5, <1>6

LEMMA CallAfterFacts ==
  ASSUME NEW k \in Nat, NEW j \in 1 .. k + 1
  PROVE  /\ j # k + 1 => CallAfter(j, 2 * k + 1) = CallAfter(j, 2 * k)
         /\ j # k + 1 => CallAfter(j, 2 * k + 2) = CallAfter(j, 2 * k + 1)
         /\ CallAfter(k + 1, 2 * k + 1) = [index |-> k, id |-> k + 1, args |-> <<<<k + 1, 1>>>>]
         /\ CallAfter(k + 1, 2 * k + 2)
              = [index |-> k, id |-> k + 1, args |-> <<<<k + 1, 1>>, <<k + 1, 2>>>>]
         /\ CallAfter(j, 2 * k + 1).index = j - 1
<1>1. /\ 2 * k # 2 * j - 1 /\ (2 * k + 1 = 2 * j - 1 <=> j = k + 1) /\ 2 * k + 2 # 2 * j - 1
      /\ 2 * k + 1 = 2 * (k + 1) - 1 /\ 2 * k + 2 # 2 * (k + 1) - 1 /\ k + 1 - 1 = k
  OBVIOUS
<1> QED  BY <1>1 DEF CallAfter

LEMMA AppendToOne ==
  ASSUME NEW x, NEW y
  PROVE  Append(<<x>>, y) = <<x, y>>
<1>1. ASSUME NEW S, x \in S, y \in S  PROVE Append(<<x>>, y) = <<x, y>>
  <2> DEFINE s == <<x>>
  <2>1. s \in Seq(S) /\ Len(s) = 1 /\ s[1] = x  BY <1>1
  <2> HIDE DEF s
  <2> DEFINE t == Append(s, y)
  <2>2. ASSUME NEW r \in Seq(S)
        PROVE  /\ Append(r, y) \in Seq(S) /\ Len(Append(r, y)) = Len(r) + 1
               /\ Append(r, y)[Len(r) + 1] = y
               /\ \A i \in 1 .. Len(r) : Append(r, y)[i] = r[i]
    BY <1>1
  <2>3. /\ t \in Seq(S) /\ Len(t) = Len(s) + 1 /\ t[Len(s) + 1] = y
        /\ \A i \in 1 .. Len(s) : t[i] = s[i]
    BY <2>1, <2>2
  <2>4. Len(t) = 2 /\ t[2] = y  BY <2>1, <2>3
  <2>5. t[1] = x
    <3>1. 1 \in 1 .. Len(s)  BY <2>1
    <3> QED  BY <2>1, <2>3, <3>1
  <2> HIDE DEF t
  <2> DEFINE u == <<x, y>>
  <2>a. u \in Seq(S) /\ Len(u) = 2 /\ u[1] = x /\ u[2] = y  BY <1>1
  <2> HIDE DEF u
  <2>b. \A i \in 1 .. 2 : t[i] = u[i]
    <3>1. \A i \in 1 .. 2 : i = 1 \/ i = 2  OBVIOUS
    <3> QED  BY <2>4, <2>5, <2>a, <3>1
  <2>c. t = u  BY <2>3, <2>4, <2>a, <2>b, SeqEqual
  <2>6. t = <<x, y>>  BY <2>c DEF u
  <2> QED  BY <2>6 DEF s, t
<1>2. x \in {x, y} /\ y \in {x, y}  OBVIOUS
<1> QED  BY <1>1, <1>2

\* The first unit of block k + 1 opens its call, if it is one.
LEMMA FirstUnit ==
  ASSUME NEW B, NEW k \in Nat
  PROVE  CallsAfter(B, 2 * k + 1)
           = IF k + 1 \in B
             THEN Append(CallsAfter(B, 2 * k),
                         [index |-> k, id |-> k + 1, args |-> <<<<k + 1, 1>>>>])
             ELSE CallsAfter(B, 2 * k)
<1> DEFINE o == Opened(B, 2 * k)
           p == Opened(B, 2 * k + 1)
           a == CallsAfter(B, 2 * k)
           b == CallsAfter(B, 2 * k + 1)
           new == [index |-> k, id |-> k + 1, args |-> <<<<k + 1, 1>>>>]
<1>1. o \in Seq((1 .. k) \cap B) /\ p = IF k + 1 \in B THEN Append(o, k + 1) ELSE o
  BY OpenedFacts
<1>2. a = [i \in DOMAIN o |-> CallAfter(o[i], 2 * k)]
      /\ b = [i \in DOMAIN p |-> CallAfter(p[i], 2 * k + 1)]
  BY DEF CallsAfter
<1> HIDE DEF o, p, a, b
<1>3. DOMAIN o = 1 .. Len(o) /\ Len(o) \in Nat /\ \A i \in DOMAIN o : o[i] \in 1 .. k
  BY <1>1
<1>4. \A i \in DOMAIN o : CallAfter(o[i], 2 * k + 1) = CallAfter(o[i], 2 * k)
  <2> SUFFICES ASSUME NEW i \in DOMAIN o
               PROVE  CallAfter(o[i], 2 * k + 1) = CallAfter(o[i], 2 * k)
    OBVIOUS
  <2>1. o[i] \in 1 .. k + 1 /\ o[i] # k + 1  BY <1>3
  <2> QED  BY <2>1, CallAfterFacts
<1>5. CASE k + 1 \notin B
  <2>1. p = o  BY <1>1, <1>5
  <2>2. b = a  BY <1>2, <1>4, <2>1
  <2> QED  BY <1>5, <2>2 DEF a, b
<1>6. CASE k + 1 \in B
  <2>1. /\ p = Append(o, k + 1)
        /\ DOMAIN p = 1 .. Len(o) + 1 /\ p[Len(o) + 1] = k + 1
        /\ \A i \in 1 .. Len(o) : p[i] = o[i]
    BY <1>1, <1>6
  <2>2. CallAfter(k + 1, 2 * k + 1) = new
    <3>1. k + 1 \in 1 .. k + 1  OBVIOUS
    <3> QED  BY <3>1, CallAfterFacts
  <2> HIDE DEF new
  <2>3. /\ DOMAIN b = 1 .. Len(o) + 1 /\ b[Len(o) + 1] = new
        /\ \A i \in 1 .. Len(o) : b[i] = a[i]
    <3>1. DOMAIN b = 1 .. Len(o) + 1  BY <1>2, <2>1
    <3>2. b[Len(o) + 1] = new
      <4>1. Len(o) + 1 \in DOMAIN p  BY <1>3, <2>1
      <4> QED  BY <1>2, <2>1, <2>2, <4>1
    <3>3. ASSUME NEW i \in 1 .. Len(o)  PROVE b[i] = a[i]
      <4>1. i \in DOMAIN p /\ i \in DOMAIN o /\ p[i] = o[i]  BY <1>3, <2>1
      <4> QED  BY <1>2, <1>4, <4>1
    <3> QED  BY <3>1, <3>2, <3>3
  <2>4. DOMAIN a = 1 .. Len(o) /\ a = [i \in 1 .. Len(o) |-> a[i]]  BY <1>2, <1>3
  <2>5. b = Append(a, new)
    <3> DEFINE S == {a[i] : i \in 1 .. Len(o)} \cup {new}
    <3>1. a \in Seq(S) /\ Len(a) = Len(o) /\ new \in S
      <4>1. a \in [1 .. Len(o) -> S]  BY <2>4
      <4> QED  BY <1>3, <4>1
    <3> HIDE DEF S
    <3>2. /\ Append(a, new) \in Seq(S) /\ Len(Append(a, new)) = Len(o) + 1
          /\ Append(a, new)[Len(o) + 1] = new
          /\ \A i \in 1 .. Len(o) : Append(a, new)[i] = a[i]
      BY <1>3, <3>1
    <3>3. b \in Seq(S) /\ Len(b) = Len(o) + 1
      <4>1. b = [i \in 1 .. Len(o) + 1 |-> b[i]]  BY <1>2, <2>3
      <4>2. \A i \in 1 .. Len(o) + 1 : b[i] \in S
        <5>1. \A i \in 1 .. Len(o) : a[i] \in S  BY <2>4, <3>1
        <5> QED  BY <1>3, <2>3, <3>1, <5>1
      <4>3. b \in [1 .. Len(o) + 1 -> S]  BY <4>1, <4>2
      <4> QED  BY <1>3, <4>3
    <3>4. \A i \in 1 .. Len(b) : b[i] = Append(a, new)[i]  BY <1>3, <2>3, <3>2, <3>3
    <3> QED  BY <3>2, <3>3, <3>4, SeqEqual
  <2> QED  BY <1>6, <2>5 DEF a, b, new
<1> QED  BY <1>5, <1>6

\* The second unit of block k + 1 adds to its call, if it is one.
\* Arguments u for the call with index k.
Told(r, k, u)     == IF r.index = k THEN [r EXCEPT !.args = Append(@, u)] ELSE r
AllTold(rs, k, u) == [i \in DOMAIN rs |-> Told(rs[i], k, u)]

LEMMA SecondUnit ==
  ASSUME NEW B, NEW k \in Nat
  PROVE  LET a == CallsAfter(B, 2 * k + 1)
         IN  /\ CallsAfter(B, 2 * k + 2) = AllTold(a, k, <<k + 1, 2>>)
             /\ k + 1 \notin B => CallsAfter(B, 2 * k + 2) = a
             /\ DOMAIN a = DOMAIN Opened(B, 2 * k + 1)
             /\ \A i \in DOMAIN a : a[i].index = k <=> Opened(B, 2 * k + 1)[i] = k + 1
<1> DEFINE p == Opened(B, 2 * k + 1)
           a == CallsAfter(B, 2 * k + 1)
           b == CallsAfter(B, 2 * k + 2)
           more(r) == [r EXCEPT !.args = Append(@, <<k + 1, 2>>)]
<1>1. /\ Opened(B, 2 * k) \in Seq((1 .. k) \cap B) /\ Opened(B, 2 * k + 2) = p
      /\ p = IF k + 1 \in B THEN Append(Opened(B, 2 * k), k + 1) ELSE Opened(B, 2 * k)
  BY OpenedFacts
<1>2. \A i \in DOMAIN p : p[i] \in 1 .. k + 1 /\ p[i] \in B
  <2> DEFINE o == Opened(B, 2 * k)
  <2> HIDE DEF p, o
  <2>1. o \in Seq((1 .. k) \cap B) /\ p = IF k + 1 \in B THEN Append(o, k + 1) ELSE o
    BY <1>1 DEF o
  <2>2. CASE k + 1 \in B
    <3>1. p = Append(o, k + 1)  BY <2>1, <2>2
    <3> DEFINE S == (1 .. k) \cap B
               R == (1 .. k + 1) \cap B
    <3>2. S \subseteq R /\ k + 1 \in R  BY <2>2
    <3>3. o \in Seq(S)  BY <2>1
    <3> HIDE DEF S, R
    <3>4. o \in Seq(R)  BY <3>2, <3>3
    <3>5. p \in Seq(R)  BY <3>1, <3>2, <3>4
    <3>6. \A i \in DOMAIN p : p[i] \in R  BY <3>5
    <3> QED  BY <3>6 DEF R
  <2>3. CASE k + 1 \notin B
    <3>1. p \in Seq((1 .. k) \cap B)  BY <2>1, <2>3
    <3>2. \A i \in DOMAIN p : p[i] \in (1 .. k) \cap B  BY <3>1
    <3> QED  BY <3>2
  <2> QED  BY <2>2, <2>3
<1>3. a = [i \in DOMAIN p |-> CallAfter(p[i], 2 * k + 1)]
      /\ b = [i \in DOMAIN p |-> CallAfter(p[i], 2 * k + 2)]
  BY <1>1 DEF CallsAfter
<1> HIDE DEF p, a, b
<1>4. ASSUME NEW i \in DOMAIN p
      PROVE  /\ a[i].index = k <=> p[i] = k + 1
             /\ p[i] = k + 1 => b[i] = more(a[i])
             /\ p[i] # k + 1 => b[i] = a[i]
  <2>1. p[i] \in 1 .. k + 1  BY <1>2
  <2>2. a[i] = CallAfter(p[i], 2 * k + 1) /\ b[i] = CallAfter(p[i], 2 * k + 2)  BY <1>3
  <2>3. a[i].index = p[i] - 1  BY <2>1, <2>2, CallAfterFacts
  <2>4. a[i].index = k <=> p[i] = k + 1  BY <2>1, <2>3
  <2>5. p[i] # k + 1 => b[i] = a[i]  BY <2>1, <2>2, CallAfterFacts
  <2>6. ASSUME p[i] = k + 1  PROVE b[i] = more(a[i])
    <3> DEFINE u == <<k + 1, 1>>
               v == <<k + 1, 2>>
    <3>1. /\ a[i] = [index |-> k, id |-> k + 1, args |-> <<u>>]
          /\ b[i] = [index |-> k, id |-> k + 1, args |-> <<u, v>>]
      <4>1. k + 1 \in 1 .. k + 1  OBVIOUS
      <4> QED  BY <2>2, <2>6, <4>1, CallAfterFacts
    <3> HIDE DEF u, v
    <3>2. Append(<<u>>, v) = <<u, v>>  BY AppendToOne
    <3>3. [a[i] EXCEPT !.args = Append(@, v)]
            = [index |-> k, id |-> k + 1, args |-> Append(<<u>>, v)]
      BY <3>1
    <3> QED  BY <3>1, <3>2, <3>3 DEF v
  <2> QED  BY <2>4, <2>5, <2>6
<1>5. DOMAIN a = DOMAIN p /\ DOMAIN b = DOMAIN p  BY <1>3
<1> HIDE DEF more
<1>6. b = [i \in DOMAIN a |-> IF a[i].index = k THEN more(a[i]) ELSE a[i]]
  <2>1. b = [i \in DOMAIN p |-> b[i]]  BY <1>3
  <2> QED  BY <1>4, <1>5, <2>1
<1>8. b = AllTold(a, k, <<k + 1, 2>>)  BY <1>6 DEF AllTold, Told, more
<1>7. k + 1 \notin B => b = a
  <2> SUFFICES ASSUME k + 1 \notin B PROVE b = a  OBVIOUS
  <2>1. \A i \in DOMAIN p : p[i] # k + 1  BY <1>2
  <2>2. \A i \in DOMAIN p : b[i] = a[i]  BY <1>4, <2>1
  <2>3. b = [i \in DOMAIN p |-> b[i]] /\ a = [i \in DOMAIN p |-> a[i]]  BY <1>3
  <2> QED  BY <2>2, <2>3
<1> QED  BY <1>4, <1>5, <1>7, <1>8 DEF a, b, p

-----------------------------------------------------------------------------
(* The consumer hears a chunk.                                             *)

LEMMA TailFacts ==
  ASSUME NEW S, NEW q \in Seq(S), q # <<>>
  PROVE  /\ Head(q) = q[1] /\ Head(q) \in S /\ Tail(q) \in Seq(S)
         /\ Len(q) \in Nat /\ Len(q) > 0 /\ Len(Tail(q)) = Len(q) - 1
         /\ \A i \in 1 .. Len(q) - 1 : Tail(q)[i] = q[i + 1]
         /\ (Tail(q) = <<>>) <=> (Len(q) = 1)
<1>1. Len(q) \in Nat /\ Len(q) > 0  OBVIOUS
<1>2. Head(q) = q[1] /\ Head(q) \in S  OBVIOUS
<1>3. Tail(q) \in Seq(S) /\ Len(Tail(q)) = Len(q) - 1  OBVIOUS
<1>4. \A i \in 1 .. Len(q) - 1 : Tail(q)[i] = q[i + 1]  OBVIOUS
<1>5. (Tail(q) = <<>>) <=> (Len(Tail(q)) = 0)
  <2>1. ASSUME NEW r \in Seq(S)  PROVE r = <<>> <=> Len(r) = 0  OBVIOUS
  <2> QED  BY ONLY <1>3, <2>1
<1>6. (Tail(q) = <<>>) <=> (Len(q) = 1)  BY <1>1, <1>3, <1>5
<1> QED  BY <1>1, <1>2, <1>3, <1>4, <1>6

LEMMA AppendFacts ==
  ASSUME NEW S, NEW r \in Seq(S), NEW y \in S
  PROVE  /\ Append(r, y) \in Seq(S) /\ Len(Append(r, y)) = Len(r) + 1
         /\ Append(r, y)[Len(r) + 1] = y
         /\ \A i \in 1 .. Len(r) : Append(r, y)[i] = r[i]
         /\ Append(r, y) = r \o <<y>>
OBVIOUS

\* The call c adds to.
MoreOf(c, r) == IF r.index = c.index THEN [r EXCEPT !.args = Append(@, c.unit)] ELSE r

Heard(c) ==
  /\ role' = (role \/ c.kind = "role")
  /\ text' = text \o TextOf(c)
  /\ finish' = IF c.kind = "finish" THEN c.why ELSE finish
  /\ c.kind # "call" => calls' = calls
  /\ c.kind = "call" /\ c.id # <<>> => calls' = calls \o CallsOf(c)
  /\ c.kind = "call" /\ c.id = <<>> => calls' = [k \in DOMAIN calls |-> MoreOf(c, calls[k])]

LEMMA DeliverHeard ==
  ASSUME Typed, Deliver
  PROVE  Heard(Head(outbox)) /\ Head(outbox) \in Chunk /\ Tail(outbox) \in Seq(Chunk)
<1> DEFINE c == Head(outbox)
<1>1. outbox # <<>> /\ outbox \in Seq(Chunk)  BY DEF Deliver, Typed
<1>2. c \in Chunk /\ Tail(outbox) \in Seq(Chunk)  BY <1>1, TailFacts
<1>3. Hear(c) /\ WellMade(c)  BY <1>2, ChunkKinds DEF Deliver
<1>4. /\ role \in BOOLEAN /\ text \in Seq(Fragment) /\ calls \in Seq(CallRec)
      /\ text \o <<>> = text
  BY DEF Typed
<1> HIDE DEF c
<1>5. c.kind \in {"role", "content", "call", "finish"}  BY <1>3 DEF WellMade
<1>6. CASE c.kind = "role"
  <2>1. role' = TRUE /\ UNCHANGED <<text, calls, finish>>  BY <1>3, <1>6 DEF Hear
  <2>2. TextOf(c) = <<>>  BY <1>6 DEF TextOf
  <2>3. Heard(c)  BY <1>4, <1>6, <2>1, <2>2 DEF Heard
  <2> QED  BY <1>2, <2>3 DEF c
<1>7. CASE c.kind = "content"
  <2>1. text' = text \o c.units /\ UNCHANGED <<role, calls, finish>>  BY <1>3, <1>7 DEF Hear
  <2>2. TextOf(c) = c.units  BY <1>7 DEF TextOf
  <2>3. Heard(c)  BY <1>4, <1>7, <2>1, <2>2 DEF Heard
  <2> QED  BY <1>2, <2>3 DEF c
<1>8. CASE c.kind = "finish"
  <2>1. finish' = c.why /\ UNCHANGED <<role, text, calls>>  BY <1>3, <1>8 DEF Hear
  <2>2. TextOf(c) = <<>>  BY <1>8 DEF TextOf
  <2>3. Heard(c)  BY <1>4, <1>8, <2>1, <2>2 DEF Heard
  <2> QED  BY <1>2, <2>3 DEF c
<1>9. CASE c.kind = "call" /\ c.id # <<>>
  <2> DEFINE new == [index |-> c.index, id |-> c.id[1], args |-> <<c.unit>>]
  <2>1. calls' = Append(calls, new) /\ UNCHANGED <<role, text, finish>>  BY <1>3, <1>9 DEF Hear
  <2>2. TextOf(c) = <<>> /\ CallsOf(c) = <<new>>  BY <1>9 DEF TextOf, CallsOf
  <2>3. new \in CallRec
    <3>1. c.index \in Nat /\ c.id[1] \in Nat /\ c.unit \in Fragment
      BY <1>3, <1>9 DEF WellMade
    <3>2. <<c.unit>> \in Seq(Fragment)  BY <3>1
    <3> QED  BY <3>1, <3>2 DEF CallRec
  <2> HIDE DEF new
  <2>4. calls' = calls \o CallsOf(c)  BY <1>4, <2>1, <2>2, <2>3, AppendFacts
  <2>5. Heard(c)  BY <1>4, <1>9, <2>1, <2>2, <2>4 DEF Heard
  <2> QED  BY <1>2, <2>5 DEF c
<1>10. CASE c.kind = "call" /\ c.id = <<>>
  <2>1. /\ calls' = [k \in DOMAIN calls |->
                       IF k \in {j \in DOMAIN calls : calls[j].index = c.index}
                       THEN [calls[k] EXCEPT !.args = Append(@, c.unit)] ELSE calls[k]]
        /\ UNCHANGED <<role, text, finish>>
    BY <1>3, <1>10 DEF Hear
  <2>2. TextOf(c) = <<>>  BY <1>10 DEF TextOf
  <2>3. calls' = [k \in DOMAIN calls |-> MoreOf(c, calls[k])]  BY <2>1 DEF MoreOf
  <2>4. Heard(c)  BY <1>4, <1>10, <2>1, <2>2, <2>3 DEF Heard
  <2> QED  BY <1>2, <2>4 DEF c
<1> QED  BY <1>5, <1>6, <1>7, <1>8, <1>9, <1>10

LEMMA CallsStay ==
  ASSUME Typed, NEW c \in Chunk, Heard(c)
  PROVE  calls' \in Seq(CallRec)
<1>1. WellMade(c) /\ calls \in Seq(CallRec)  BY ChunkKinds DEF Typed
<1>2. CASE c.kind # "call"  BY <1>1, <1>2 DEF Heard
<1>3. CASE c.kind = "call" /\ c.id # <<>>
  <2>1. CallsOf(c) \in Seq(CallRec)
    <3>1. CallsFn[c] \in Seq(CallRec) /\ CallsFn[c] = CallsOf(c)
      BY ChunkSays DEF Gives, CallsFn
    <3> QED  BY <3>1
  <2>2. calls' = calls \o CallsOf(c)  BY <1>3 DEF Heard
  <2> QED  BY <1>1, <2>1, <2>2, ConcatAt
<1>4. CASE c.kind = "call" /\ c.id = <<>>
  <2>1. c.unit \in Fragment  BY <1>1, <1>4 DEF WellMade
  <2>2. ASSUME NEW r \in CallRec  PROVE MoreOf(c, r) \in CallRec
    <3>1. r.index \in Nat /\ r.id \in Nat /\ r.args \in Seq(Fragment)
          /\ r = [index |-> r.index, id |-> r.id, args |-> r.args]
      BY DEF CallRec
    <3>2. Append(r.args, c.unit) \in Seq(Fragment)  BY <2>1, <3>1
    <3>3. [r EXCEPT !.args = Append(@, c.unit)]
            = [index |-> r.index, id |-> r.id, args |-> Append(r.args, c.unit)]
      <4>1. ASSUME NEW i, NEW d, NEW a, NEW b
            PROVE  [[index |-> i, id |-> d, args |-> a] EXCEPT !.args = b]
                     = [index |-> i, id |-> d, args |-> b]
        OBVIOUS
      <4> DEFINE more == Append(r.args, c.unit)
      <4>2. [r EXCEPT !.args = Append(@, c.unit)] = [r EXCEPT !.args = more]  OBVIOUS
      <4> HIDE DEF more
      <4>3. [r EXCEPT !.args = more] = [index |-> r.index, id |-> r.id, args |-> more]
        BY ONLY <3>1, <4>1
      <4> QED  BY <4>2, <4>3 DEF more
    <3>4. [index |-> r.index, id |-> r.id, args |-> Append(r.args, c.unit)] \in CallRec
      BY <3>1, <3>2 DEF CallRec
    <3> QED  BY <3>3, <3>4 DEF MoreOf
  <2>3. calls' = [k \in DOMAIN calls |-> MoreOf(c, calls[k])]  BY <1>4 DEF Heard
  <2>4. /\ DOMAIN calls = 1 .. Len(calls) /\ Len(calls) \in Nat
        /\ \A k \in DOMAIN calls : calls[k] \in CallRec
    BY <1>1
  <2>5. calls' \in [1 .. Len(calls) -> CallRec]  BY <2>2, <2>3, <2>4
  <2> QED  BY <2>4, <2>5
<1> QED  BY <1>2, <1>3, <1>4

\* After any chunk the consumer has had the role.
LEMMA RoleHeard ==
  ASSUME Typed, InPlace, Deliver
  PROVE  /\ role' = TRUE /\ stage # "start" /\ finish = "none"
         /\ Arranged(outbox, ~role, stage = "sent", FullFinish)
         /\ Head(outbox) = outbox[1] /\ 1 \in 1 .. Len(outbox)
<1>1. outbox # <<>> /\ outbox \in Seq(Chunk)  BY DEF Deliver, Typed
<1>2. Arranged(outbox, ~role, stage = "sent", FullFinish)  BY <1>1 DEF InPlace
<1>3. Head(outbox) = outbox[1] /\ 1 \in 1 .. Len(outbox)
  <2>1. Head(outbox) = outbox[1] /\ Len(outbox) \in Nat /\ Len(outbox) > 0
    BY <1>1, TailFacts
  <2> QED  BY <2>1
<1>4. role' = TRUE
  <2>1. role \/ Head(outbox).kind = "role"  BY <1>2, <1>3 DEF Arranged
  <2>2. role' = (role \/ Head(outbox).kind = "role")  BY DeliverHeard DEF Heard
  <2> QED  BY <2>1, <2>2
<1>5. stage # "start" /\ finish = "none"  BY <1>1 DEF InPlace
<1> QED  BY <1>2, <1>3, <1>4, <1>5

LEMMA DeliverInPlace ==
  ASSUME Typed, InPlace, Deliver
  PROVE  InPlace'
<1> DEFINE q == outbox
           t == Tail(outbox)
           c == Head(outbox)
           last == stage = "sent"
<1>1. /\ role' = TRUE /\ stage # "start" /\ finish = "none"
      /\ Arranged(q, ~role, last, FullFinish)
  BY RoleHeard
<1>2. FullFinish' = FullFinish /\ stage' = stage /\ outbox' = t
  BY FixedFacts DEF Deliver, Fixed
<1>3. /\ c = q[1] /\ c \in Chunk /\ Len(q) \in Nat /\ Len(q) > 0 /\ Len(t) = Len(q) - 1
      /\ \A i \in 1 .. Len(q) - 1 : t[i] = q[i + 1]
      /\ (t = <<>>) <=> (Len(q) = 1)
  <2>1. q \in Seq(Chunk) /\ q # <<>>  BY DEF Deliver, Typed
  <2> QED  BY <2>1, TailFacts
<1>4. finish' = IF c.kind = "finish" THEN c.why ELSE "none"
  BY <1>1, DeliverHeard DEF Heard
<1>5. FullFinish # "none"  BY FinishFacts DEF Typed
<1> HIDE DEF q, t, c, last
<1>6. t # <<>> => Arranged(t, FALSE, last, FullFinish)
  <2> SUFFICES ASSUME t # <<>> PROVE Arranged(t, FALSE, last, FullFinish)  OBVIOUS
  <2>1. Len(t) \in Nat /\ Len(t) > 0 /\ Len(q) = Len(t) + 1  BY <1>3
  <2>2. \A i \in 1 .. Len(t) : t[i] = q[i + 1] /\ i + 1 \in 1 .. Len(q) /\ i + 1 # 1
    BY <1>3, <2>1
  <2>3. \A i \in 1 .. Len(t) : t[i].kind # "role"  BY <1>1, <2>2 DEF Arranged
  <2>4. \A i \in 1 .. Len(t) :
          t[i].kind = "finish" => i = Len(t) /\ last /\ t[i].why = FullFinish
    <3>1. \A i \in 1 .. Len(t) :
            t[i].kind = "finish" => i + 1 = Len(q) /\ last /\ t[i].why = FullFinish
      BY <1>1, <2>2 DEF Arranged
    <3>2. \A i \in 1 .. Len(t) : i + 1 = Len(q) => i = Len(t)  BY <2>1
    <3> QED  BY <3>1, <3>2
  <2>5. last => t[Len(t)].kind = "finish"
    <3>1. Len(t) \in 1 .. Len(t)  BY <2>1
    <3>2. t[Len(t)] = q[Len(q)]  BY <2>1, <2>2, <3>1
    <3> QED  BY <1>1, <3>2 DEF Arranged
  <2>6. \A i \in 1 .. Len(t) : t[i].kind = "content" => Len(t[i].units) \in 1 .. 2
    BY <1>1, <2>2 DEF Arranged
  <2> QED  BY <2>3, <2>4, <2>5, <2>6 DEF Arranged
<1>7. c.kind = "finish" => t = <<>> /\ last /\ c.why = FullFinish
  <2>1. 1 \in 1 .. Len(q)  BY <1>3
  <2> QED  BY <1>1, <1>3, <2>1 DEF Arranged
<1>8. t = <<>> /\ last => c.kind = "finish"
  BY <1>1, <1>3 DEF Arranged
<1>9. (~role)' = FALSE /\ (stage = "sent")' = last  BY <1>1, <1>2 DEF last
<1>10. (outbox # <<>> => Arranged(outbox, ~role, stage = "sent", FullFinish))'
  BY <1>2, <1>6, <1>9 DEF Arranged
<1>11. (finish # "none" => outbox = <<>> /\ stage = "sent" /\ finish = FullFinish)'
  BY <1>2, <1>4, <1>7 DEF last
<1>12. (outbox = <<>> => (role \/ stage \in {"start", "broken"}) /\ (stage = "sent" => finish # "none"))'
  BY <1>1, <1>2, <1>4, <1>5, <1>7, <1>8 DEF last
<1>13. (stage = "start" => ~role /\ outbox = <<>>)'  BY <1>1, <1>2
<1> QED  BY <1>10, <1>11, <1>12, <1>13 DEF InPlace

LEMMA DeliverText ==
  ASSUME Typed, TextInv, Deliver
  PROVE  TextInv'
<1> DEFINE c == Head(outbox)
           t == Tail(outbox)
           a == TextOf(c)
           b == TextIn(t)
<1>1. outbox # <<>> /\ outbox \in Seq(Chunk)  BY DEF Deliver, Typed
<1>2. TextIn(outbox) = a \o b
  <2>1. FlatMap(TextFn, outbox) = TextFn[c] \o FlatMap(TextFn, t) /\ c \in Chunk
    BY <1>1, ChunkSays, FlatMapHead
  <2> QED  BY <2>1 DEF TextIn, TextFn
<1>3. c \in Chunk /\ t \in Seq(Chunk) /\ text' = text \o a  BY DeliverHeard DEF Heard
<1>4. a \in Seq(Fragment) /\ b \in Seq(Fragment) /\ text \in Seq(Fragment)
  <2>1. TextFn[c] \in Seq(Fragment) /\ TextFn[c] = a
    BY <1>3, ChunkSays DEF Gives, TextFn
  <2>2. b \in Seq(Fragment)  BY <1>3, QueueSays
  <2> QED  BY <2>1, <2>2 DEF Typed
<1>5. TextIn(outbox)' = b  BY DEF Deliver, TextIn
<1>6. TextSent' = TextSent
  <2>1. Fixed /\ sent' = sent  BY DEF Deliver, Fixed
  <2> QED  BY <2>1, FixedFacts DEF TextSent, SentUnits
<1> HIDE DEF a, b
<1>7. (text \o a) \o b = text \o (a \o b)  BY ONLY <1>4, Associative, SMTT(30)
<1> QED  BY <1>2, <1>3, <1>5, <1>6, <1>7 DEF TextInv

LEMMA DeliverTyped ==
  ASSUME Typed, InPlace, Deliver, told' \in Seq(EventNames)
  PROVE  Typed'
<1>1. Fixed /\ sent' = sent /\ stage' = stage /\ outbox' = Tail(outbox)
  BY DEF Deliver, Fixed
<1>2. Heard(Head(outbox)) /\ Head(outbox) \in Chunk /\ Tail(outbox) \in Seq(Chunk)
  BY DeliverHeard
<1>3. calls' \in Seq(CallRec)  BY <1>2, CallsStay
<1>4. role' = TRUE  BY RoleHeard
<1>5. finish' \in Finishes \cup {"none"}
  <2>1. WellMade(Head(outbox))  BY <1>2, ChunkKinds
  <2> QED  BY <1>2, <2>1 DEF Heard, WellMade, Typed
<1>6. text' \in Seq(Fragment)
  <2> DEFINE a == TextOf(Head(outbox))
  <2>1. text' = text \o a /\ text \in Seq(Fragment)  BY <1>2 DEF Heard, Typed
  <2>2. TextFn[Head(outbox)] \in Seq(Fragment) /\ TextFn[Head(outbox)] = a
    BY <1>2, ChunkSays DEF Gives, TextFn
  <2> HIDE DEF a
  <2> QED  BY <2>1, <2>2
<1>7. Setting' /\ (reason' = "tool_use" => CallBlocks' # {})
  BY <1>1, FixedFacts DEF Typed, Fixed
<1>8. sent' \in 0 .. Len(Units)' /\ (stage' = "sent" => sent' = Len(Units)')
  <2>1. Units' = Units  BY <1>1, FixedFacts
  <2> QED  BY <1>1, <2>1 DEF Typed
<1> QED  BY <1>1, <1>2, <1>3, <1>4, <1>5, <1>6, <1>7, <1>8 DEF Typed

LEMMA DeliverWhole ==
  ASSUME Typed, WholeInv, Deliver, dialect # "anthropic"
  PROVE  WholeInv'
<1> DEFINE c == Head(outbox)
           t == Tail(outbox)
           a == CallsOf(c)
           b == CallsIn(t)
<1>1. outbox # <<>> /\ outbox \in Seq(Chunk)  BY DEF Deliver, Typed
<1>2. CallsIn(outbox) = a \o b
  <2>1. FlatMap(CallsFn, outbox) = CallsFn[c] \o FlatMap(CallsFn, t) /\ c \in Chunk
    BY <1>1, ChunkSays, FlatMapHead
  <2> QED  BY <2>1 DEF CallsIn, CallsFn
<1>3. c \in Chunk /\ t \in Seq(Chunk) /\ Heard(c)  BY DeliverHeard
<1>4. a \in Seq(CallRec) /\ b \in Seq(CallRec) /\ calls \in Seq(CallRec)
  <2>1. CallsFn[c] \in Seq(CallRec) /\ CallsFn[c] = a
    BY <1>3, ChunkSays DEF Gives, CallsFn
  <2>2. b \in Seq(CallRec)  BY <1>3, QueueSays
  <2> QED  BY <2>1, <2>2 DEF Typed
<1>5. /\ c = outbox[1] /\ Len(outbox) \in Nat /\ Len(outbox) > 0 /\ Len(t) = Len(outbox) - 1
      /\ \A i \in 1 .. Len(outbox) - 1 : t[i] = outbox[i + 1]
  BY <1>1, TailFacts
<1>6. calls' = calls \o a
  <2>1. 1 \in 1 .. Len(outbox)  BY <1>5
  <2>2. c.kind = "call" => c.id # <<>>  BY <1>5, <2>1 DEF WholeInv
  <2>3. CASE c.kind = "call"  BY <1>3, <2>2, <2>3 DEF Heard
  <2>4. CASE c.kind # "call"
    <3>1. a = <<>>  BY <2>4 DEF CallsOf
    <3>2. calls' = calls  BY <1>3, <2>4 DEF Heard
    <3>3. calls \o <<>> = calls  BY <1>4
    <3> QED  BY <3>1, <3>2, <3>3
  <2> QED  BY <2>3, <2>4
<1>7. CallsIn(outbox)' = b  BY DEF Deliver, CallsIn
<1>8. Fixed /\ sent' = sent /\ stage' = stage /\ tool' = tool /\ outbox' = t
  BY DEF Deliver, Fixed, translator
<1>9. CallsSent' = CallsSent  BY <1>8, FixedFacts DEF CallsSent, SentUnits
<1>10. \A i \in 1 .. Len(t) : t[i].kind = "call" => t[i].id # <<>>
  <2>1. \A i \in 1 .. Len(t) : t[i] = outbox[i + 1] /\ i + 1 \in 1 .. Len(outbox)  BY <1>5
  <2> QED  BY <2>1 DEF WholeInv
<1> HIDE DEF a, b, c, t
<1>11. (calls \o a) \o b = calls \o (a \o b)  BY ONLY <1>4, Associative, SMTT(30)
<1>12. calls' \o CallsIn(outbox)' = NumberedFrom(CallsSent', 0)
  BY <1>2, <1>6, <1>7, <1>9, <1>11 DEF WholeInv
<1>13. NumberedFrom(CallsSent, 0)' = NumberedFrom(CallsSent', 0)  BY DEF NumberedFrom
<1> QED  BY <1>8, <1>9, <1>10, <1>12, <1>13 DEF WholeInv, Fixed

-----------------------------------------------------------------------------
(* What the client of /v1/messages is told.                                *)

IsOpen(t) == \E i \in DOMAIN t : t[i] = "content_block_start"

\* What has been told while the message goes on.
Going(t) ==
  /\ t \in Seq(EventNames) /\ t # <<>>
  /\ \A i, j \in DOMAIN t : t[i] = t[j] => i = j \/ t[i] = "content_block_delta"
  /\ \A i \in DOMAIN t : t[i] = "message_start" <=> i = 1
  /\ \A i \in DOMAIN t :
       t[i] = "content_block_delta" => \E j \in DOMAIN t : t[j] = "content_block_start" /\ j < i
  /\ \A i \in DOMAIN t : t[i] \notin Ends

LEMMA GoingIs ==
  ASSUME NEW t \in Seq(EventNames), t # <<>>
  PROVE  Going(t) <=> Protocol(t) /\ \A i \in DOMAIN t : t[i] \notin Ends
<1>1. ASSUME Going(t)  PROVE Protocol(t)
  BY <1>1 DEF Going, Protocol, Ends
<1>2. ASSUME Protocol(t), \A i \in DOMAIN t : t[i] \notin Ends  PROVE Going(t)
  <2>1. /\ \A i, j \in DOMAIN t : t[i] = t[j] => i = j \/ t[i] = "content_block_delta"
        /\ \A i \in DOMAIN t : t[i] = "message_start" <=> i = 1
    BY <1>2 DEF Protocol
  <2>2. \A i \in DOMAIN t :
          t[i] = "content_block_delta" => \E j \in DOMAIN t : t[j] = "content_block_start" /\ j < i
    BY <1>2 DEF Protocol
  <2> QED  BY <1>2, <2>1, <2>2 DEF Going
<1>3. Going(t) => \A i \in DOMAIN t : t[i] \notin Ends  BY DEF Going
<1> QED  BY <1>1, <1>2, <1>3

LEMMA GoingStarts == Going(<<"message_start">>)
<1> DEFINE t == <<"message_start">>
<1>1. /\ t \in Seq(EventNames) /\ t # <<>> /\ DOMAIN t = {1} /\ t[1] = "message_start"
  <2>1. ASSUME NEW S, NEW e \in S
        PROVE  /\ <<e>> \in Seq(S) /\ <<e>> # <<>> /\ <<e>>[1] = e
               /\ DOMAIN <<e>> = 1 .. 1
    OBVIOUS
  <2>2. "message_start" \in EventNames /\ 1 .. 1 = {1}  BY DEF EventNames
  <2> QED  BY <2>1, <2>2
<1> HIDE DEF t
<1>2. Going(t)  BY <1>1 DEF Going, Ends
<1> QED  BY <1>2 DEF t

LEMMA GoingOn ==
  ASSUME NEW t, Going(t), NEW e \in {"content_block_start", "content_block_delta"},
         e = "content_block_start" <=> ~IsOpen(t)
  PROVE  Going(Append(t, e)) /\ IsOpen(Append(t, e))
<1> DEFINE n == Len(t)
           v == Append(t, e)
<1>1. t \in Seq(EventNames) /\ t # <<>> /\ e \in EventNames /\ n \in Nat /\ DOMAIN t = 1 .. n
  <2>1. t \in Seq(EventNames) /\ t # <<>>  BY DEF Going
  <2>2. e \in EventNames  BY DEF EventNames
  <2> QED  BY <2>1, <2>2
<1>2. n > 0
  <2>1. ASSUME NEW r \in Seq(EventNames)  PROVE r # <<>> => Len(r) > 0  OBVIOUS
  <2> QED  BY <1>1, <2>1
<1>3. /\ v \in Seq(EventNames) /\ DOMAIN v = 1 .. n + 1 /\ v[n + 1] = e
      /\ \A i \in 1 .. n : v[i] = t[i]
  <2>1. v \in Seq(EventNames) /\ Len(v) = n + 1 /\ v[n + 1] = e /\ \A i \in 1 .. n : v[i] = t[i]
    BY <1>1, AppendFacts
  <2>2. DOMAIN v = 1 .. Len(v)
    <3> HIDE DEF v
    <3> QED  BY <2>1
  <2> QED  BY <2>1, <2>2
<1> HIDE DEF v, n
<1>4. v # <<>>
  <2>1. n + 1 \in DOMAIN v  BY <1>1, <1>3
  <2> QED  BY <2>1
<1>5. \A i \in 1 .. n + 1 : i \in 1 .. n \/ i = n + 1  BY <1>1
<1>6. ASSUME NEW i \in DOMAIN v, NEW j \in DOMAIN v, v[i] = v[j]
      PROVE  i = j \/ v[i] = "content_block_delta"
  <2>1. CASE i \in 1 .. n /\ j \in 1 .. n  BY <1>1, <1>3, <1>6, <2>1 DEF Going
  <2>2. CASE i = n + 1 /\ j = n + 1  BY <2>2
  <2>3. CASE i \in 1 .. n /\ j = n + 1
    <3>1. t[i] = e  BY <1>3, <1>6, <2>3
    <3> QED  BY <1>1, <1>3, <2>3, <3>1 DEF IsOpen
  <2>4. CASE i = n + 1 /\ j \in 1 .. n
    <3>1. t[j] = e  BY <1>3, <1>6, <2>4
    <3> QED  BY <1>1, <1>3, <2>4, <3>1 DEF IsOpen
  <2> QED  BY <1>3, <1>5, <2>1, <2>2, <2>3, <2>4
<1>7. ASSUME NEW i \in DOMAIN v  PROVE v[i] = "message_start" <=> i = 1
  <2>1. CASE i \in 1 .. n  BY <1>1, <1>3, <2>1 DEF Going
  <2>2. CASE i = n + 1  BY <1>1, <1>2, <1>3, <2>2
  <2> QED  BY <1>3, <1>5, <2>1, <2>2
<1>8. ASSUME NEW i \in DOMAIN v, v[i] = "content_block_delta"
      PROVE  \E j \in DOMAIN v : v[j] = "content_block_start" /\ j < i
  <2>1. CASE i \in 1 .. n
    <3>1. PICK j \in DOMAIN t : t[j] = "content_block_start" /\ j < i
      BY <1>1, <1>3, <1>8, <2>1 DEF Going
    <3>2. j \in DOMAIN v /\ v[j] = "content_block_start"  BY <1>1, <1>3, <3>1
    <3> QED  BY <3>1, <3>2
  <2>2. CASE i = n + 1
    <3>1. PICK j \in DOMAIN t : t[j] = "content_block_start"  BY <1>3, <1>8, <2>2 DEF IsOpen
    <3>2. j \in DOMAIN v /\ v[j] = "content_block_start" /\ j < i  BY <1>1, <1>3, <2>2, <3>1
    <3> QED  BY <3>2
  <2> QED  BY <1>3, <1>5, <2>1, <2>2
<1>9. \A i \in DOMAIN v : v[i] \notin Ends
  <2>1. e \notin Ends  BY DEF Ends
  <2> QED  BY <1>1, <1>3, <1>5, <2>1 DEF Going
<1>10. IsOpen(v)
  <2>1. CASE e = "content_block_start"
    <3>1. n + 1 \in DOMAIN v  BY <1>1, <1>3
    <3> QED  BY <1>3, <2>1, <3>1 DEF IsOpen
  <2>2. CASE e # "content_block_start"
    <3>1. PICK j \in DOMAIN t : t[j] = "content_block_start"  BY <2>2 DEF IsOpen
    <3>2. j \in DOMAIN v /\ v[j] = "content_block_start"  BY <1>1, <1>3, <3>1
    <3> QED  BY <3>2 DEF IsOpen
  <2> QED  BY <2>1, <2>2
<1>11. Going(v)  BY <1>3, <1>4, <1>6, <1>7, <1>8, <1>9 DEF Going
<1> QED  BY <1>10, <1>11 DEF v

\* v is t and k more.
Longer(v, t, k) ==
  /\ v \in Seq(EventNames) /\ DOMAIN v = 1 .. Len(t) + k
  /\ \A i \in 1 .. Len(t) : v[i] = t[i]

LEMMA EndedProtocol ==
  ASSUME NEW t, Going(t), NEW v,
         \/ /\ ~IsOpen(t) /\ Longer(v, t, 2)
            /\ v[Len(t) + 1] = "message_delta" /\ v[Len(t) + 2] = "message_stop"
         \/ /\ IsOpen(t) /\ Longer(v, t, 3)
            /\ v[Len(t) + 1] = "content_block_stop"
            /\ v[Len(t) + 2] = "message_delta" /\ v[Len(t) + 3] = "message_stop"
  PROVE  Protocol(v) /\ v # <<>> /\ v[Len(v)] = "message_stop"
<1> DEFINE n == Len(t)
           m == Len(v)
<1>1. /\ t \in Seq(EventNames) /\ t # <<>> /\ n \in Nat /\ DOMAIN t = 1 .. n
      /\ \A i \in 1 .. n : v[i] = t[i]
      /\ v \in Seq(EventNames)
  BY DEF Going, Longer
<1>2. n > 0
  <2>1. ASSUME NEW r \in Seq(EventNames)  PROVE r # <<>> => Len(r) > 0  OBVIOUS
  <2> QED  BY <1>1, <2>1
<1>3. m \in Nat /\ DOMAIN v = 1 .. m  BY <1>1
<1>4. /\ \/ m = n + 2 /\ ~IsOpen(t) /\ v[n + 1] = "message_delta" /\ v[n + 2] = "message_stop"
         \/ m = n + 3 /\ IsOpen(t) /\ v[n + 1] = "content_block_stop"
            /\ v[n + 2] = "message_delta" /\ v[n + 3] = "message_stop"
  <2>1. ASSUME NEW k \in Nat, 1 .. m = 1 .. n + k  PROVE m = n + k
    <3>1. Cardinality(1 .. m) = m /\ Cardinality(1 .. n + k) = n + k
      <4>1. ASSUME NEW j \in Nat  PROVE Cardinality(1 .. j) = j
        <5>1. Cardinality(1 .. j) = IF 1 > j THEN 0 ELSE j - 1 + 1  BY FS_Interval
        <5> QED  BY <5>1
      <4> QED  BY <1>1, <1>3, <4>1
    <3> QED  BY <2>1, <3>1
  <2>2. \A k \in {2, 3} : Longer(v, t, k) => m = n + k  BY <1>3, <2>1 DEF Longer
  <2> QED  BY <2>2
<1> HIDE DEF n, m
<1>5. \A i \in 1 .. n : v[i] \notin Ends
  BY <1>1 DEF Going
<1>6. \A i \in 1 .. m : i > n =>
        /\ v[i] \in Ends
        /\ v[i] = "message_stop" <=> i = m
        /\ v[i] = "message_delta" <=> i = m - 1
        /\ v[i] = "content_block_stop" <=> i = m - 2
  <2>1. CASE m = n + 2 /\ v[n + 1] = "message_delta" /\ v[n + 2] = "message_stop"
    <3>1. \A i \in 1 .. m : i > n => i = n + 1 \/ i = n + 2  BY <1>1, <2>1
    <3>2. n + 2 = m /\ n + 1 = m - 1 /\ n + 1 # m /\ n + 1 # m - 2 /\ n + 2 # m - 1 /\ n + 2 # m - 2
      BY <1>1, <2>1
    <3> QED  BY <2>1, <3>1, <3>2 DEF Ends
  <2>2. CASE /\ m = n + 3 /\ v[n + 1] = "content_block_stop"
             /\ v[n + 2] = "message_delta" /\ v[n + 3] = "message_stop"
    <3>1. \A i \in 1 .. m : i > n => i = n + 1 \/ i = n + 2 \/ i = n + 3  BY <1>1, <2>2
    <3>2. /\ n + 3 = m /\ n + 2 = m - 1 /\ n + 1 = m - 2
          /\ n + 1 # m /\ n + 1 # m - 1 /\ n + 2 # m /\ n + 2 # m - 2
          /\ n + 3 # m - 1 /\ n + 3 # m - 2
      BY <1>1, <2>2
    <3> QED  BY <2>2, <3>1, <3>2 DEF Ends
  <2> QED  BY <1>4, <2>1, <2>2
<1>7. \A i \in 1 .. m : i \in 1 .. n \/ i > n  BY <1>1, <1>3
<1>8. ASSUME NEW i \in 1 .. m, NEW j \in 1 .. m, v[i] = v[j]
      PROVE  i = j \/ v[i] = "content_block_delta"
  <2>1. CASE i \in 1 .. n /\ j \in 1 .. n  BY <1>1, <1>8, <2>1 DEF Going
  <2>2. CASE i > n /\ j > n
    <3>1. v[i] \in Ends  BY <1>6, <2>2
    <3>2. CASE v[i] = "message_stop"  BY <1>6, <1>8, <2>2, <3>2
    <3>3. CASE v[i] = "message_delta"  BY <1>6, <1>8, <2>2, <3>3
    <3>4. CASE v[i] = "content_block_stop"  BY <1>6, <1>8, <2>2, <3>4
    <3> QED  BY <3>1, <3>2, <3>3, <3>4 DEF Ends
  <2>3. CASE i \in 1 .. n /\ j > n  BY <1>5, <1>6, <1>8, <2>3
  <2>4. CASE i > n /\ j \in 1 .. n  BY <1>5, <1>6, <1>8, <2>4
  <2> QED  BY <1>7, <2>1, <2>2, <2>3, <2>4
<1>9. ASSUME NEW i \in 1 .. m  PROVE v[i] = "message_start" <=> i = 1
  <2>1. CASE i \in 1 .. n  BY <1>1, <2>1 DEF Going
  <2>2. CASE i > n
    <3>1. v[i] # "message_start"  BY <1>6, <2>2 DEF Ends
    <3> QED  BY <1>1, <1>2, <2>2, <3>1
  <2> QED  BY <1>7, <2>1, <2>2
<1>10. n < m  BY <1>1, <1>4
<1>11. ASSUME NEW i \in 1 .. m, v[i] \in {"content_block_delta", "content_block_stop"}
       PROVE  \E j \in 1 .. m : v[j] = "content_block_start" /\ j < i
  <2>1. CASE i \in 1 .. n
    <3>1. v[i] = "content_block_delta"  BY <1>5, <1>11, <2>1 DEF Ends
    <3>2. PICK j \in DOMAIN t : t[j] = "content_block_start" /\ j < i
      BY <1>1, <2>1, <3>1 DEF Going
    <3>3. j \in 1 .. m /\ v[j] = "content_block_start"  BY <1>1, <1>3, <1>10, <3>2
    <3> QED  BY <3>2, <3>3
  <2>2. CASE i > n
    <3>1. v[i] = "content_block_stop"  BY <1>6, <1>11, <2>2 DEF Ends
    <3>2. i = m - 2  BY <1>6, <2>2, <3>1
    <3>3. IsOpen(t)  BY <1>1, <1>3, <1>4, <2>2, <3>2
    <3>4. PICK j \in DOMAIN t : t[j] = "content_block_start"  BY <3>3 DEF IsOpen
    <3>5. j \in 1 .. m /\ v[j] = "content_block_start" /\ j < i
      BY <1>1, <1>3, <1>10, <2>2, <3>4
    <3> QED  BY <3>5
  <2> QED  BY <1>7, <2>1, <2>2
<1>12. ASSUME NEW i \in 1 .. m, NEW j \in 1 .. m, i < j, v[i] \in Ends
       PROVE  v[j] \in Ends
  <2>1. i > n  BY <1>5, <1>7, <1>12
  <2>2. j > n  BY <1>1, <1>12, <2>1
  <2> QED  BY <1>6, <2>2
<1>13. v[m] = "message_stop" /\ v[m - 1] = "message_delta"
  <2>1. m \in 1 .. m /\ m > n /\ m - 1 \in 1 .. m /\ m - 1 > n  BY <1>1, <1>3, <1>4
  <2> QED  BY <1>6, <2>1
<1>14. ASSUME NEW i \in 1 .. m, v[i] = "content_block_start"
       PROVE  v[m - 2] = "content_block_stop"
  <2>1. i \in 1 .. n
    <3>1. ~(i > n)  BY <1>6, <1>14 DEF Ends
    <3> QED  BY <1>7, <3>1
  <2>2. IsOpen(t)  BY <1>1, <1>14, <2>1 DEF IsOpen
  <2>3. m - 2 \in 1 .. m /\ m - 2 > n  BY <1>1, <1>3, <1>4, <2>2
  <2> QED  BY <1>6, <2>3
<1>15. v # <<>>
  <2>1. 1 \in DOMAIN v  BY <1>1, <1>2, <1>3, <1>10
  <2> QED  BY <2>1
<1>16. Protocol(v)
  <2>1. \A i, j \in DOMAIN v : v[i] = v[j] => i = j \/ v[i] = "content_block_delta"
    BY <1>3, <1>8
  <2>2. \A i \in DOMAIN v : v[i] = "message_start" <=> i = 1  BY <1>3, <1>9
  <2>3. \A i \in DOMAIN v :
          v[i] \in {"content_block_delta", "content_block_stop"} =>
            \E j \in {k \in DOMAIN v : v[k] = "content_block_start"} : j < i
    BY <1>3, <1>11
  <2>4. \A i, j \in DOMAIN v : i < j /\ v[i] \in Ends => v[j] \in Ends  BY <1>3, <1>12
  <2>5. {i \in DOMAIN v : v[i] = "content_block_start"} # {} => v[m - 2] = "content_block_stop"
    BY <1>3, <1>14
  <2>6. /\ v[Len(v)] = "message_stop" /\ v[Len(v) - 1] = "message_delta"
        /\ v[Len(v) - 2] = v[m - 2]
    BY <1>13 DEF m
  <2> QED  BY ONLY <2>1, <2>2, <2>3, <2>4, <2>5, <2>6 DEF Protocol, Ends
<1> QED  BY <1>13, <1>15, <1>16 DEF m

LEMMA ProtocolIs ==
  MessageProtocol <=> Protocol(told) \/ (NothingHeard /\ told = OnlyEnd)
BY DEF MessageProtocol, Protocol, OnlyEnd

LEMMA ToldProtocol ==
  ASSUME ToldInv
  PROVE  MessageProtocol
<1>1. CASE role  BY <1>1, ProtocolIs DEF ToldInv
<1>2. CASE ~role
  <2>1. CASE told = <<>>
    <3>1. Protocol(told)  BY <2>1 DEF Protocol
    <3> QED  BY <3>1, ProtocolIs
  <2> QED  BY <1>2, <2>1, ProtocolIs DEF ToldInv
<1> QED  BY <1>1, <1>2

\* What a chunk adds to what is told.
LEMMA TellMore ==
  ASSUME Typed, InPlace, ToldInv, Deliver
  PROVE  Going(told')
<1> DEFINE c == Head(outbox)
           delta == "content_block_delta"
           start == "content_block_start"
<1>1. told' = told \o MessageEvents(c)  BY DEF Deliver
<1>2. /\ Arranged(outbox, ~role, stage = "sent", FullFinish)
      /\ c = outbox[1] /\ 1 \in 1 .. Len(outbox) /\ outbox # <<>>
  BY RoleHeard DEF Deliver
<1>3. told \in Seq(EventNames) /\ Protocol(told) /\ \A i \in DOMAIN told : told[i] \notin Ends
  <2>1. Protocol(<<>>)  BY DEF Protocol
  <2> QED  BY <1>2, <2>1 DEF Typed, ToldInv
<1>4. TextOpen <=> IsOpen(told)  BY DEF TextOpen, IsOpen
<1>5. delta \in EventNames /\ start \in EventNames  BY DEF EventNames
<1>6. <<>> \o <<>> = <<>>  OBVIOUS
<1> HIDE DEF c
<1>7. CASE told = <<>>
  <2>1. c.kind = "role"  BY <1>2, <1>7 DEF Arranged, ToldInv
  <2>2. MessageEvents(c) = <<"message_start">> \o <<>>  BY <1>7, <2>1 DEF MessageEvents, Began
  <2>3. <<>> \o (<<"message_start">> \o <<>>) = <<"message_start">>
    <3>1. ASSUME NEW e  PROVE <<>> \o (<<e>> \o <<>>) = <<e>>
      <4>1. ASSUME NEW s \in Seq({e})  PROVE s \o <<>> = s /\ <<>> \o s = s  OBVIOUS
      <4>2. <<e>> \in Seq({e})  OBVIOUS
      <4>3. <<e>> \o <<>> = <<e>> /\ <<>> \o <<e>> = <<e>>  BY ONLY <4>1, <4>2
      <4> QED  BY ONLY <4>3
    <3> QED  BY <3>1
  <2>4. told' = <<"message_start">>  BY ONLY <1>1, <1>7, <2>2, <2>3
  <2> QED  BY <2>4, GoingStarts
<1>8. CASE told # <<>>
  <2>1. Going(told)  BY <1>3, <1>8, GoingIs
  <2>2. CASE c.kind # "content"
    <3>1. MessageEvents(c) = <<>>  BY <1>6, <1>8, <2>2 DEF MessageEvents, Began
    <3>2. told \o <<>> = told  BY <1>3
    <3>3. told' = told  BY <1>1, <3>1, <3>2
    <3> QED  BY <2>1, <3>3
  <2>3. CASE c.kind = "content" /\ IsOpen(told)
    <3>1. MessageEvents(c) = <<>> \o <<delta>>
      BY <1>4, <1>8, <2>3 DEF MessageEvents, Began
    <3>2. told \o (<<>> \o <<delta>>) = Append(told, delta)
      <4>1. ASSUME NEW S, NEW s \in Seq(S), NEW e \in S
            PROVE  s \o (<<>> \o <<e>>) = Append(s, e)
        <5>1. <<e>> \in Seq(S)  OBVIOUS
        <5>2. <<>> \o <<e>> = <<e>>  BY <5>1
        <5> QED  BY <5>2, AppendFacts
      <4> HIDE DEF delta
      <4> QED  BY <1>3, <1>5, <4>1
    <3>3. told' = Append(told, delta)  BY <1>1, <3>1, <3>2
    <3>4. delta \in {start, delta} /\ (delta = start <=> ~IsOpen(told))  BY <2>3
    <3>5. Going(Append(told, delta))  BY <2>1, <3>4, GoingOn
    <3> QED  BY <3>3, <3>5
  <2>4. CASE c.kind = "content" /\ ~IsOpen(told)
    <3>1. MessageEvents(c) = <<>> \o <<start, delta>>
      BY <1>4, <1>8, <2>4 DEF MessageEvents, Began
    <3>2. told \o (<<>> \o <<start, delta>>) = Append(Append(told, start), delta)
      <4>1. ASSUME NEW S, NEW s \in Seq(S), NEW e \in S, NEW f \in S
            PROVE  s \o (<<>> \o <<e, f>>) = Append(Append(s, e), f)
        <5>1. <<e, f>> \in Seq(S) /\ <<e>> \in Seq(S)  OBVIOUS
        <5>2. <<>> \o <<e, f>> = <<e, f>>  BY <5>1
        <5>3. <<e, f>> = Append(<<e>>, f)  BY AppendToOne
        <5>4. s \o Append(<<e>>, f) = Append(s \o <<e>>, f)  BY <5>1, ConcatAppend
        <5>5. s \o <<e>> = Append(s, e)  BY AppendFacts
        <5> QED  BY <5>2, <5>3, <5>4, <5>5
      <4> HIDE DEF delta, start
      <4> QED  BY <1>3, <1>5, <4>1
    <3>3. told' = Append(Append(told, start), delta)  BY <1>1, <3>1, <3>2
    <3>4. start \in {start, delta} /\ (start = start <=> ~IsOpen(told))  BY <2>4
    <3>5. Going(Append(told, start)) /\ IsOpen(Append(told, start))  BY <2>1, <3>4, GoingOn
    <3> DEFINE t == Append(told, start)
    <3>6. Going(t) /\ IsOpen(t)  BY <3>5
    <3> HIDE DEF t
    <3>7. delta \in {start, delta} /\ (delta = start <=> ~IsOpen(t))  BY <3>6
    <3>8. Going(Append(t, delta))  BY <3>6, <3>7, GoingOn
    <3> QED  BY <3>3, <3>8 DEF t
  <2> QED  BY <2>2, <2>3, <2>4
<1> QED  BY <1>7, <1>8

LEMMA DeliverTold ==
  ASSUME Typed, InPlace, ToldInv, Deliver
  PROVE  ToldInv' /\ told' \in Seq(EventNames)
<1>1. Going(told')  BY TellMore
<1>2. told' # <<>> /\ told' \in Seq(EventNames) /\ \A i \in DOMAIN told' : told'[i] \notin Ends
  BY <1>1 DEF Going
<1>3. Protocol(told)'
  <2>1. Protocol(told')  BY <1>1, <1>2, GoingIs
  <2> QED  BY <2>1 DEF Protocol
<1>4. role' = TRUE  BY RoleHeard
<1> QED  BY <1>2, <1>3, <1>4 DEF ToldInv

\* The end of a message that has begun, and of one that has not.
LEMMA EndBegun ==
  ASSUME Typed, ToldInv, EndMessage, role
  PROVE  ToldInv' /\ told' \in Seq(EventNames)
<1> DEFINE n == Len(told)
           d == "message_delta"
           s == "message_stop"
           b == "content_block_stop"
<1>1. /\ stage \in {"sent", "broken"} /\ outbox = <<>> /\ stage' = stage /\ outbox' = outbox /\ role' = role
      /\ \A i \in DOMAIN told : told[i] # "message_stop"
      /\ told' = (told \o (IF TextOpen THEN <<b>> ELSE <<>>)) \o <<d, s>>
  BY DEF EndMessage, consumer
<1>2. told # <<>>  BY DEF ToldInv
<1>3. told \in Seq(EventNames) /\ Protocol(told)  BY DEF Typed, ToldInv
<1>4. n \in Nat /\ n \in DOMAIN told
  <2>1. ASSUME NEW S, NEW r \in Seq(S), r # <<>>  PROVE Len(r) \in Nat /\ Len(r) \in DOMAIN r
    <3>1. Len(r) \in Nat /\ Len(r) > 0 /\ DOMAIN r = 1 .. Len(r)  BY <2>1
    <3> QED  BY <3>1
  <2> QED  BY ONLY <1>2, <1>3, <2>1
<1>5. \A i \in DOMAIN told : told[i] \notin Ends  BY <1>1, <1>4 DEF ToldInv
<1>6. Going(told)  BY <1>2, <1>3, <1>5, GoingIs
<1>7. TextOpen <=> IsOpen(told)  BY DEF TextOpen, IsOpen
<1>8. d \in EventNames /\ s \in EventNames /\ b \in EventNames  BY DEF EventNames
<1> DEFINE e == <<d, s>>
<1>9. e \in Seq(EventNames) /\ Len(e) = 2 /\ e[1] = d /\ e[2] = s
  <2>1. ASSUME NEW S, NEW x \in S, NEW y \in S
        PROVE  <<x, y>> \in Seq(S) /\ Len(<<x, y>>) = 2 /\ <<x, y>>[1] = x /\ <<x, y>>[2] = y
    OBVIOUS
  <2> HIDE DEF d, s
  <2> QED  BY <1>8, <2>1
<1>10. 1 \in 1 .. 2 /\ 2 \in 1 .. 2  OBVIOUS
<1> HIDE DEF e
<1>11. /\ Protocol(told') /\ told' # <<>> /\ told'[Len(told')] = "message_stop"
       /\ told' \in Seq(EventNames)
  <2>1. CASE ~IsOpen(told)
    <3>1. told' = told \o e
      <4>1. told \o <<>> = told  BY <1>3
      <4> QED  BY <1>1, <1>7, <2>1, <4>1 DEF e
    <3>2. /\ told' \in Seq(EventNames) /\ Len(told') = n + 2
          /\ \A i \in 1 .. n : told'[i] = told[i]
          /\ \A i \in 1 .. 2 : told'[n + i] = e[i]
      <4>1. /\ told \o e \in Seq(EventNames) /\ Len(told \o e) = n + Len(e)
            /\ \A i \in 1 .. n : (told \o e)[i] = told[i]
            /\ \A i \in 1 .. Len(e) : (told \o e)[n + i] = e[i]
        <5>1. told \in Seq(EventNames) /\ e \in Seq(EventNames)  BY <1>3, <1>9
        <5>2. told \o e \in Seq(EventNames) /\ Len(told \o e) = n + Len(e)  BY ONLY <5>1
        <5>3. \A i \in 1 .. n : (told \o e)[i] = told[i]  BY ONLY <5>1
        <5>4. \A i \in 1 .. Len(e) : (told \o e)[n + i] = e[i]  BY ONLY <5>1
        <5> QED  BY ONLY <5>2, <5>3, <5>4
      <4> QED  BY <1>9, <3>1, <4>1
    <3>3. Longer(told', told, 2)  BY <3>2 DEF Longer
    <3>4. told'[n + 1] = d /\ told'[n + 2] = s  BY <1>9, <1>10, <3>2
    <3>5. Protocol(told') /\ told' # <<>> /\ told'[Len(told')] = "message_stop"
      BY <1>6, <2>1, <3>3, <3>4, EndedProtocol
    <3> QED  BY <3>2, <3>5
  <2>2. CASE IsOpen(told)
    <3> DEFINE t == Append(told, b)
    <3>1. told' = t \o e
      <4>1. told \o <<b>> = Append(told, b)
        <5> HIDE DEF b
        <5> QED  BY <1>3, <1>8, AppendFacts
      <4> QED  BY <1>1, <1>7, <2>2, <4>1 DEF e
    <3>2. t \in Seq(EventNames) /\ Len(t) = n + 1 /\ t[n + 1] = b /\ \A i \in 1 .. n : t[i] = told[i]
      <4> HIDE DEF b
      <4> QED  BY <1>3, <1>8, AppendFacts
    <3> HIDE DEF t
    <3>3. /\ told' \in Seq(EventNames) /\ Len(told') = n + 1 + 2
          /\ \A i \in 1 .. n + 1 : told'[i] = t[i]
          /\ \A i \in 1 .. 2 : told'[n + 1 + i] = e[i]
      <4>1. /\ t \o e \in Seq(EventNames) /\ Len(t \o e) = Len(t) + Len(e)
            /\ \A i \in 1 .. Len(t) : (t \o e)[i] = t[i]
            /\ \A i \in 1 .. Len(e) : (t \o e)[Len(t) + i] = e[i]
        <5>1. t \in Seq(EventNames) /\ e \in Seq(EventNames)  BY <1>9, <3>2
        <5> QED  BY ONLY <5>1, ConcatAt
      <4> QED  BY <1>9, <3>1, <3>2, <4>1
    <3>4. /\ n + 1 \in 1 .. n + 1 /\ \A i \in 1 .. n : i \in 1 .. n + 1
          /\ n + 1 + 2 = n + 3 /\ n + 1 + 1 = n + 2
      BY <1>4
    <3>5. Longer(told', told, 3)
      <4>1. \A i \in 1 .. n : told'[i] = told[i]  BY <3>2, <3>3, <3>4
      <4>2. DOMAIN told' = 1 .. n + 3  BY <3>3, <3>4
      <4> QED  BY <3>3, <4>1, <4>2 DEF Longer
    <3>6. told'[n + 1] = b /\ told'[n + 2] = d /\ told'[n + 3] = s
      <4>1. told'[n + 1] = b  BY <3>2, <3>3, <3>4
      <4>2. told'[n + 1 + 1] = d /\ told'[n + 1 + 2] = s  BY <1>9, <1>10, <3>3
      <4> QED  BY <3>4, <4>1, <4>2
    <3>7. Protocol(told') /\ told' # <<>> /\ told'[Len(told')] = "message_stop"
      BY <1>6, <2>2, <3>5, <3>6, EndedProtocol
    <3> QED  BY <3>3, <3>7
  <2> QED  BY <2>1, <2>2
<1>12. Protocol(told)'  BY <1>11 DEF Protocol
<1> QED  BY <1>1, <1>2, <1>11, <1>12 DEF ToldInv

LEMMA EndTold ==
  ASSUME Typed, InPlace, ToldInv, EndMessage
  PROVE  ToldInv' /\ told' \in Seq(EventNames)
<1> DEFINE d == "message_delta"
           s == "message_stop"
<1>1. CASE role  BY <1>1, EndBegun
<1>2. CASE ~role
  <2>1. /\ stage \in {"sent", "broken"} /\ outbox = <<>> /\ stage' = stage /\ outbox' = outbox
        /\ UNCHANGED <<role, text, calls, finish>>
        /\ \A i \in DOMAIN told : told[i] # s
        /\ told' = (told \o (IF TextOpen THEN <<"content_block_stop">> ELSE <<>>)) \o <<d, s>>
    BY DEF EndMessage, consumer
  <2>2. stage = "broken"
    <3>1. stage # "sent"  BY <1>2, <2>1 DEF InPlace, ToldInv, NothingHeard
    <3> QED  BY <2>1, <3>1
  <2>3. ASSUME NEW S, NEW x \in S, NEW y \in S
        PROVE  /\ <<x, y>> \in Seq(S) /\ Len(<<x, y>>) = 2 /\ <<x, y>>[2] = y
               /\ 2 \in DOMAIN <<x, y>> /\ (<<>> \o <<>>) \o <<x, y>> = <<x, y>>
    <3>1. <<x, y>> \in Seq(S) /\ Len(<<x, y>>) = 2 /\ <<x, y>>[2] = y /\ 2 \in DOMAIN <<x, y>>
      OBVIOUS
    <3>2. \A q \in Seq(S) : <<>> \o q = q  OBVIOUS
    <3>3. <<>> \o <<>> = <<>>  OBVIOUS
    <3> QED  BY ONLY <3>1, <3>2, <3>3
  <2>4. d \in EventNames /\ s \in EventNames  BY DEF EventNames
  <2>5. /\ OnlyEnd \in Seq(EventNames) /\ Len(OnlyEnd) = 2 /\ OnlyEnd[2] = s
        /\ 2 \in DOMAIN OnlyEnd /\ (<<>> \o <<>>) \o OnlyEnd = OnlyEnd
    <3> HIDE DEF d, s
    <3>1. OnlyEnd = <<d, s>>  BY DEF OnlyEnd, d, s
    <3> QED  BY <2>3, <2>4, <3>1
  <2>6. told = <<>>
    <3>1. told = OnlyEnd => told[2] = s /\ 2 \in DOMAIN told  BY <2>5
    <3> QED  BY <1>2, <2>1, <3>1 DEF ToldInv
  <2>7. ~TextOpen  BY <2>6 DEF TextOpen
  <2>8. told' = OnlyEnd
    <3>1. told' = (<<>> \o <<>>) \o OnlyEnd  BY <2>1, <2>6, <2>7 DEF OnlyEnd
    <3> QED  BY <2>5, <3>1
  <2>9. NothingHeard' <=> NothingHeard  BY <2>1 DEF NothingHeard
  <2>10. told'[Len(told')] = s  BY <2>5, <2>8
  <2> QED  BY <1>2, <2>1, <2>2, <2>5, <2>8, <2>9, <2>10 DEF ToldInv, OnlyEnd
<1> QED  BY <1>1, <1>2

-----------------------------------------------------------------------------
(* Steps that make no chunk and deliver none.                              *)

Quiet ==
  /\ Fixed /\ UNCHANGED <<sent, outbox, role, text, calls, finish>>
  /\ dialect # "anthropic" => tool' = tool
  /\ \/ stage' = stage
     \/ stage \notin {"sent", "broken"} /\ stage' = "broken"
     \/ dialect = "anthropic" /\ stage = "body" /\ stage' = "ending"

LEMMA QuietSteps ==
  ASSUME BlockStart \/ BlockStop \/ MessageDelta \/ BreakOff \/ EndMessage
  PROVE  Quiet /\ (told' = told \/ EndMessage)
<1>1. CASE BlockStart  BY <1>1 DEF BlockStart, Reading, Quiet, Fixed, consumer
<1>2. CASE BlockStop  BY <1>2 DEF BlockStop, Reading, Quiet, Fixed, consumer
<1>3. CASE MessageDelta
  BY <1>3 DEF MessageDelta, Reading, Quiet, Fixed, consumer, translator
<1>4. CASE BreakOff  BY <1>4 DEF BreakOff, Quiet, Fixed, consumer, translator
<1>5. CASE EndMessage  BY <1>5 DEF EndMessage, Quiet, Fixed, consumer, translator
<1> QED  BY <1>1, <1>2, <1>3, <1>4, <1>5

LEMMA QuietInv ==
  ASSUME Typed, InPlace, TextInv, WholeInv, Quiet, told' \in Seq(EventNames)
  PROVE  Typed' /\ InPlace' /\ TextInv' /\ WholeInv'
<1>1. Fixed /\ UNCHANGED <<sent, outbox, role, text, calls, finish>>  BY DEF Quiet
<1>2. /\ Setting' <=> Setting
      /\ Units' = Units /\ CallBlocks' = CallBlocks /\ FullFinish' = FullFinish
      /\ TextUnits' = TextUnits /\ CallUnits' = CallUnits
  BY <1>1, FixedFacts
<1>3. /\ stage' \in {"start", "body", "ending", "sent", "broken"}
      /\ (stage' = "sent") = (stage = "sent") /\ (stage' = "start" => stage = "start")
  BY DEF Quiet, Typed
<1>4. Typed'
  <2>1. sent' \in 0 .. Len(Units)' /\ (stage' = "sent" => sent' = Len(Units)')
    BY <1>1, <1>2, <1>3 DEF Typed
  <2>2. Setting' /\ (reason' = "tool_use" => CallBlocks' # {})  BY <1>1, <1>2 DEF Typed, Fixed
  <2> QED  BY <1>1, <1>3, <2>1, <2>2 DEF Typed
<1>5. InPlace'
  <2>1. (outbox # <<>> => Arranged(outbox, ~role, stage = "sent", FullFinish))'
    BY <1>1, <1>2, <1>3 DEF InPlace, Arranged
  <2>2. (outbox = <<>> => (role \/ stage \in {"start", "broken"}) /\ (stage = "sent" => finish # "none"))'
    BY <1>1, <1>3 DEF InPlace, Quiet
  <2>3. (stage = "start" => ~role /\ outbox = <<>>)'  BY <1>1, <1>3 DEF InPlace
  <2>4. (finish # "none" => outbox = <<>> /\ stage = "sent" /\ finish = FullFinish)'
    BY <1>1, <1>2, <1>3 DEF InPlace
  <2> QED  BY <2>1, <2>2, <2>3, <2>4 DEF InPlace
<1>6. TextSent' = TextSent /\ CallsSent' = CallsSent
  BY <1>1, <1>2 DEF TextSent, CallsSent, SentUnits
<1>7. TextInv'
  <2>1. TextIn(outbox)' = TextIn(outbox)  BY <1>1 DEF TextIn
  <2> QED  BY <1>1, <1>6, <2>1 DEF TextInv
<1>8. WholeInv'
  <2>1. CallsIn(outbox)' = CallsIn(outbox) /\ NumberedFrom(CallsSent, 0)' = NumberedFrom(CallsSent, 0)
    BY <1>1, <1>6 DEF CallsIn, NumberedFrom
  <2>2. (calls \o CallsIn(outbox))' = calls \o CallsIn(outbox)  BY <1>1, <2>1
  <2>3. ASSUME dialect # "anthropic"
        PROVE  /\ stage' # "ending" /\ (stage' = "start" => sent' = 0) /\ tool' = tool
               /\ stage' \notin {"sent", "broken"} => stage \notin {"sent", "broken"}
    BY <1>1, <1>3, <2>3 DEF Quiet, WholeInv
  <2> QED  BY <1>1, <1>6, <2>1, <2>2, <2>3 DEF WholeInv, Fixed
<1> QED  BY <1>4, <1>5, <1>7, <1>8

LEMMA SilentTold ==
  ASSUME Quiet, ToldInv, told' = told
  PROVE  ToldInv'
<1>1. UNCHANGED <<outbox, role, text, calls, finish>>  BY DEF Quiet
<1>2. Protocol(told)' <=> Protocol(told)  BY DEF Protocol
<1>3. NothingHeard' <=> NothingHeard  BY <1>1 DEF NothingHeard
<1>4. stage \in {"sent", "broken"} => stage' = stage  BY DEF Quiet
<1> QED  BY <1>1, <1>2, <1>3, <1>4 DEF ToldInv

-----------------------------------------------------------------------------
(* Where Anthropic's stream is, and the calls of it.                       *)

\* The chunk on its way, and the calls so far.
CallsInv ==
  \/ /\ outbox = <<>> \/ outbox = <<RoleChunk>> \/ outbox = <<FinishChunk(FullFinish)>>
     /\ calls = CallsAfter(CallBlocks, sent)
  \/ /\ sent > 0 /\ outbox = <<ChunkOf(CallBlocks, Units[sent])>>
     /\ calls = CallsAfter(CallBlocks, sent - 1)

LEMMA AnthropicIs == AnthropicInv <=> (dialect = "anthropic" => AtBlock /\ CallsInv)
BY DEF AnthropicInv, CallsInv

LEMMA NothingOnItsWay ==
  ASSUME CallsInv, outbox = <<>>
  PROVE  calls = CallsAfter(CallBlocks, sent)
<1>1. \A c : <<c>> # <<>>  OBVIOUS
<1> QED  BY <1>1 DEF CallsInv

LEMMA QuietCalls ==
  ASSUME Quiet, CallsInv
  PROVE  CallsInv'
<1>1. Fixed /\ UNCHANGED <<sent, outbox, calls>>  BY DEF Quiet
<1>2. Units' = Units /\ CallBlocks' = CallBlocks /\ FullFinish' = FullFinish
  BY <1>1, FixedFacts
<1>3. /\ CallsAfter(CallBlocks, sent)' = CallsAfter(CallBlocks, sent)
      /\ CallsAfter(CallBlocks, sent - 1)' = CallsAfter(CallBlocks, sent - 1)
      /\ ChunkOf(CallBlocks, Units[sent])' = ChunkOf(CallBlocks, Units[sent])
  BY <1>1, <1>2 DEF CallsAfter, Opened, CallAfter, ChunkOf
<1> QED  BY <1>1, <1>2, <1>3 DEF CallsInv

\* The position after the steps that do not open, fill or close a block.
LEMMA SameBlock ==
  ASSUME Typed, AtBlock, Fixed, UNCHANGED <<open, tool, sent>>,
         stage' = "start" => stage = "start",
         stage' \in {"ending", "sent"} => open = 0 /\ sent = Len(Units)
  PROVE  AtBlock'
<1>1. /\ Units' = Units /\ CallBlocks' = CallBlocks /\ Len(Units)' = Len(Units)
      /\ Len(reply)' = Len(reply)
  BY FixedFacts DEF Fixed
<1> QED  BY <1>1 DEF AtBlock

LEMMA BlockStartAt ==
  ASSUME Typed, AtBlock, BlockStart
  PROVE  AtBlock'
<1>1. /\ dialect = "anthropic" /\ stage = "body" /\ stage' = stage /\ open = 0
      /\ sent < Len(Units) /\ sent' = sent /\ open' = Unit[1] /\ Fixed
  BY DEF BlockStart, Reading, Fixed
<1>2. PICK b \in 0 .. Len(reply) : sent = 2 * b /\ DOMAIN tool = CallBlocks \cap (1 .. b)
  BY <1>1 DEF AtBlock
<1>3. Setting /\ Len(Units) \in Nat /\ sent \in Nat /\ Len(reply) \in Nat
  BY UnitsType, ReplyFacts DEF Typed
<1>4. sent + 1 \in 1 .. Len(Units)  BY <1>1, <1>3
<1>5. PICK k \in 1 .. Len(reply) : \/ sent + 1 = 2 * k - 1 /\ Unit = <<k, 1>>
                                   \/ sent + 1 = 2 * k /\ Unit = <<k, 2>>
  BY <1>1, <1>3, <1>4, UnitAt DEF Unit
<1>6. k = b + 1 /\ open' = k /\ sent = 2 * k - 2
  <2>1. k \in Nat /\ b \in Nat  BY <1>3
  <2>2. k = b + 1 /\ sent = 2 * k - 2  BY <1>2, <1>5, <2>1
  <2> QED  BY <1>1, <1>5, <2>2
<1>7. k \in DOMAIN reply /\ (reply[k] = "call" <=> k \in CallBlocks)
  BY <1>3, ReplyFacts DEF CallBlocks, Blocks
<1>8. DOMAIN tool' = CallBlocks \cap (1 .. k) /\ (k \in CallBlocks => tool'[k] = FALSE)
  <2>1. 1 .. k = (1 .. b) \cup {k}  BY <1>2, <1>3, <1>6
  <2>2. CASE k \in CallBlocks
    <3>1. tool' = [i \in DOMAIN tool \cup {k} |-> i # k /\ tool[i]]
      BY <1>6, <1>7, <2>2 DEF BlockStart
    <3>2. DOMAIN tool' = DOMAIN tool \cup {k}  BY <3>1
    <3> QED  BY <1>2, <2>1, <2>2, <3>1, <3>2
  <2>3. CASE k \notin CallBlocks
    <3>1. tool' = tool  BY <1>6, <1>7, <2>3 DEF BlockStart
    <3> QED  BY <1>2, <2>1, <2>3, <3>1
  <2> QED  BY <2>2, <2>3
<1>9. CallBlocks' = CallBlocks /\ reply' = reply  BY <1>1, FixedFacts DEF Fixed
<1>10. sent' \in 2 * open' - 2 .. 2 * open' /\ ~(sent' > 2 * open' - 2)
  <2>1. sent' = 2 * k - 2 /\ open' = k /\ k \in Nat  BY <1>1, <1>6
  <2> QED  BY <2>1
<1>11. open' \in 0 .. Len(reply)' /\ open' # 0  BY <1>3, <1>6, <1>9
<1>12. stage' \notin {"start", "ending", "sent"}  BY <1>1
<1> QED  BY <1>6, <1>8, <1>9, <1>10, <1>11, <1>12 DEF AtBlock

LEMMA BlockDeltaAt ==
  ASSUME Typed, AnthropicInv, BlockDelta
  PROVE  AtBlock'
<1>1. /\ dialect = "anthropic" /\ open \in 1 .. Len(reply) /\ stage # "start"
      /\ sent + 1 \in 1 .. Len(Units)
      /\ sent + 1 = 2 * open - 1 \/ sent + 1 = 2 * open
  BY BlockDeltaSends
<1>2. /\ AtBlock /\ stage' = stage /\ stage \notin {"sent", "broken"} /\ open' = open
      /\ sent' = sent + 1 /\ Fixed /\ open # 0
  BY <1>1 DEF AnthropicInv, BlockDelta, Reading, Fixed
<1>3. DOMAIN tool = CallBlocks \cap (1 .. open)  BY <1>2 DEF AtBlock
<1>4. Len(reply) \in Nat /\ open \in DOMAIN reply /\ open \in Nat /\ sent \in Nat
  <2>1. Len(reply) \in Nat /\ open \in DOMAIN reply  BY <1>1, ReplyFacts DEF Typed
  <2> QED  BY <1>1, <2>1, UnitsType DEF Typed
<1>5. DOMAIN tool' = DOMAIN tool /\ (open \in CallBlocks => tool'[open] = TRUE)
  <2>1. CASE reply[open] = "text"
    <3>1. tool' = tool  BY <2>1 DEF BlockDelta
    <3>2. open \notin CallBlocks  BY <2>1 DEF CallBlocks, Blocks
    <3> QED  BY <3>1, <3>2
  <2>2. CASE reply[open] # "text"
    <3>1. tool' = [tool EXCEPT ![open] = TRUE]  BY <2>2 DEF BlockDelta
    <3>2. DOMAIN tool' = DOMAIN tool  BY <3>1
    <3>3. open \in CallBlocks => open \in DOMAIN tool  BY <1>3, <1>4
    <3> QED  BY <3>1, <3>2, <3>3
  <2> QED  BY <2>1, <2>2
<1>6. CallBlocks' = CallBlocks /\ reply' = reply  BY <1>2, FixedFacts DEF Fixed
<1>7. sent' \in 2 * open' - 2 .. 2 * open' /\ sent' > 2 * open' - 2
  BY <1>1, <1>2, <1>4
<1>8. stage' \notin {"start", "ending", "sent"}
  <2>1. stage # "ending"  BY <1>2 DEF AtBlock
  <2> QED  BY <1>1, <1>2, <2>1
<1>9. open' \in 0 .. Len(reply)' /\ open' # 0  BY <1>1, <1>2, <1>4, <1>6
<1> QED  BY <1>2, <1>3, <1>5, <1>6, <1>7, <1>8, <1>9 DEF AtBlock

LEMMA BlockStopAt ==
  ASSUME Typed, AtBlock, BlockStop
  PROVE  AtBlock'
<1>1. /\ dialect = "anthropic" /\ stage' = stage /\ stage \notin {"sent", "broken"}
      /\ open # 0 /\ open' = 0 /\ sent' = sent /\ tool' = tool /\ Fixed
      /\ ~(sent < Len(Units) /\ Unit[1] = open)
  BY DEF BlockStop, Reading, UnitLeft, Fixed
<1>2. /\ open \in 0 .. Len(reply) /\ sent \in 2 * open - 2 .. 2 * open
      /\ DOMAIN tool = CallBlocks \cap (1 .. open)
      /\ stage # "start" /\ stage # "ending"
  BY <1>1 DEF AtBlock
<1>3. /\ Setting /\ Len(reply) \in Nat /\ sent \in Nat /\ Len(Units) = 2 * Len(reply)
      /\ open \in Nat
  <2>1. Setting /\ Len(reply) \in Nat /\ Len(Units) = 2 * Len(reply)
    BY <1>1, TwoUnitsEach, ReplyFacts DEF Typed, Paired
  <2> QED  BY <1>2, <2>1, UnitsType DEF Typed
<1>4. sent = 2 * open
  <2> SUFFICES ASSUME sent # 2 * open PROVE FALSE  OBVIOUS
  <2>1. sent + 1 \in 1 .. Len(Units) /\ sent < Len(Units)
    BY <1>1, <1>2, <1>3
  <2>2. PICK k \in 1 .. Len(reply) : \/ sent + 1 = 2 * k - 1 /\ Unit = <<k, 1>>
                                     \/ sent + 1 = 2 * k /\ Unit = <<k, 2>>
    BY <1>1, <1>3, <2>1, UnitAt DEF Unit
  <2>3. k = open
    <3>1. k \in Nat  BY <1>3
    <3> QED  BY <1>2, <1>3, <2>2, <3>1
  <2> QED  BY <1>1, <2>1, <2>2, <2>3
<1>5. CallBlocks' = CallBlocks /\ reply' = reply  BY <1>1, FixedFacts DEF Fixed
<1>6. sent' = 2 * open /\ DOMAIN tool' = CallBlocks' \cap (1 .. open) /\ open \in 0 .. Len(reply)'
  BY <1>1, <1>2, <1>4, <1>5
<1>7. stage' \notin {"start", "ending", "sent"}  BY <1>1, <1>2
<1>8. open' \in 0 .. Len(reply)' /\ open' = 0  BY <1>1, <1>3, <1>5
<1> QED  BY <1>6, <1>7, <1>8 DEF AtBlock

LEMMA HeadOfOne ==
  ASSUME NEW c
  PROVE  Head(<<c>>) = c /\ Tail(<<c>>) = <<>>
<1> DEFINE q == <<c>>
<1>1. q \in Seq({c}) /\ Len(q) = 1 /\ q[1] = c /\ q # <<>>  OBVIOUS
<1> HIDE DEF q
<1>2. Head(q) = c /\ Tail(q) = <<>>  BY <1>1, TailFacts
<1> QED  BY <1>2 DEF q

\* What a chunk of the next unit does to the calls.
LEMMA UnitHeard ==
  ASSUME Typed, dialect = "anthropic", sent > 0,
         calls = CallsAfter(CallBlocks, sent - 1),
         NEW c, c = ChunkOf(CallBlocks, Units[sent]), Heard(c)
  PROVE  calls' = CallsAfter(CallBlocks, sent)
<1>1. Setting /\ sent \in 1 .. Len(Units) /\ Len(reply) \in Nat /\ calls \in Seq(CallRec)
  BY UnitsType, ReplyFacts DEF Typed
<1>2. PICK k \in 1 .. Len(reply) : \/ sent = 2 * k - 1 /\ Units[sent] = <<k, 1>>
                                   \/ sent = 2 * k /\ Units[sent] = <<k, 2>>
  BY <1>1, UnitAt
<1> DEFINE m == k - 1
<1>3. /\ m \in Nat /\ k = m + 1 /\ k \in DOMAIN reply
      /\ 2 * k - 1 = 2 * m + 1 /\ 2 * k - 1 - 1 = 2 * m
      /\ 2 * k = 2 * m + 2 /\ 2 * k - 1 = 2 * m + 1
  <2>1. k \in DOMAIN reply  BY <1>1, ReplyFacts
  <2>2. k \in Nat /\ k > 0  BY <1>1
  <2> QED  BY <2>1, <2>2
<1> HIDE DEF m
<1>4. CASE sent = 2 * k - 1 /\ Units[sent] = <<k, 1>>
  <2> DEFINE new == [index |-> m, id |-> k, args |-> <<<<k, 1>>>>]
  <2>1. sent = 2 * m + 1 /\ calls = CallsAfter(CallBlocks, 2 * m)
    <3>1. sent = 2 * m + 1 /\ sent - 1 = 2 * m  BY <1>3, <1>4
    <3> QED  BY <3>1
  <2>2. CallsAfter(CallBlocks, sent)
          = IF k \in CallBlocks THEN Append(calls, new) ELSE calls
    BY <1>3, <2>1, FirstUnit
  <2>3. /\ c \in Chunk
        /\ k \notin CallBlocks => c = TextChunk(<<<<k, 1>>>>)
        /\ k \in CallBlocks => c = OpenChunk(k - 1, k, <<k, 1>>)
    <3>1. 1 \in {1, 2}  OBVIOUS
    <3> QED  BY <1>1, <1>3, <1>4, <3>1, ChunkOfFacts
  <2>4. CASE k \notin CallBlocks
    <3>1. c.kind # "call"  BY <2>3, <2>4 DEF TextChunk
    <3> QED  BY <2>2, <2>4, <3>1 DEF Heard
  <2>5. CASE k \in CallBlocks
    <3>1. c.kind = "call" /\ c.index = m /\ c.id = <<k>> /\ c.unit = <<k, 1>>
      BY <2>3, <2>5 DEF OpenChunk, m
    <3>2. c.id # <<>> /\ c.id[1] = k  BY <3>1
    <3>3. CallsOf(c) = <<new>>  BY <3>1, <3>2 DEF CallsOf
    <3>4. new \in CallRec
      <4>1. CallsFn[c] \in Seq(CallRec) /\ CallsFn[c] = CallsOf(c)
        BY <2>3, ChunkSays DEF Gives, CallsFn
      <4> HIDE DEF new
      <4>2. <<new>> \in Seq(CallRec)  BY <3>3, <4>1
      <4>3. 1 \in DOMAIN <<new>> /\ <<new>>[1] = new  OBVIOUS
      <4> QED  BY <4>2, <4>3
    <3> HIDE DEF new
    <3>5. calls' = calls \o <<new>>  BY <3>1, <3>2, <3>3 DEF Heard
    <3>6. calls \o <<new>> = Append(calls, new)  BY <1>1, <3>4, AppendFacts
    <3> QED  BY <2>2, <2>5, <3>5, <3>6
  <2> QED  BY <2>4, <2>5
<1>5. CASE sent = 2 * k /\ Units[sent] = <<k, 2>>
  <2>1. sent = 2 * m + 2 /\ calls = CallsAfter(CallBlocks, 2 * m + 1)
    <3>1. sent = 2 * m + 2 /\ sent - 1 = 2 * m + 1  BY <1>3, <1>5
    <3> QED  BY <3>1
  <2>2. /\ CallsAfter(CallBlocks, sent) = AllTold(calls, m, <<k, 2>>)
        /\ k \notin CallBlocks => CallsAfter(CallBlocks, sent) = calls
    <3>1. /\ CallsAfter(CallBlocks, 2 * m + 2)
               = AllTold(CallsAfter(CallBlocks, 2 * m + 1), m, <<m + 1, 2>>)
          /\ m + 1 \notin CallBlocks =>
               CallsAfter(CallBlocks, 2 * m + 2) = CallsAfter(CallBlocks, 2 * m + 1)
      BY ONLY <1>3, SecondUnit
    <3> QED  BY ONLY <1>3, <2>1, <3>1
  <2>3. /\ k \notin CallBlocks => c = TextChunk(<<<<k, 2>>>>)
        /\ k \in CallBlocks => c = MoreChunk(k - 1, <<k, 2>>)
    <3>1. 2 \in {1, 2}  OBVIOUS
    <3> QED  BY <1>1, <1>3, <1>5, <3>1, ChunkOfFacts
  <2>4. CASE k \notin CallBlocks
    <3>1. c.kind # "call"  BY <2>3, <2>4 DEF TextChunk
    <3> QED  BY <2>2, <2>4, <3>1 DEF Heard
  <2>5. CASE k \in CallBlocks
    <3>1. c.kind = "call" /\ c.index = m /\ c.id = <<>> /\ c.unit = <<k, 2>>
      BY <2>3, <2>5 DEF MoreChunk, m
    <3>2. calls' = [i \in DOMAIN calls |-> MoreOf(c, calls[i])]  BY <3>1 DEF Heard
    <3>3. \A r : MoreOf(c, r) = Told(r, m, <<k, 2>>)  BY ONLY <3>1 DEF MoreOf, Told
    <3>4. calls' = AllTold(calls, m, <<k, 2>>)  BY ONLY <3>2, <3>3 DEF AllTold
    <3> QED  BY ONLY <2>2, <3>4
  <2> QED  BY <2>4, <2>5
<1> QED  BY <1>2, <1>4, <1>5

LEMMA DeliverCalls ==
  ASSUME Typed, CallsInv, dialect = "anthropic", Deliver
  PROVE  CallsInv'
<1> DEFINE c == Head(outbox)
<1>1. Heard(c) /\ outbox # <<>> /\ outbox' = Tail(outbox) /\ sent' = sent /\ Fixed
  BY DeliverHeard DEF Deliver, Fixed
<1>2. outbox' = <<>> /\ calls' = CallsAfter(CallBlocks, sent)
  <2>1. ASSUME NEW d, outbox = <<d>>, d.kind # "call", calls = CallsAfter(CallBlocks, sent)
        PROVE  outbox' = <<>> /\ calls' = CallsAfter(CallBlocks, sent)
    <3>1. c = d /\ outbox' = <<>>  BY <1>1, <2>1, HeadOfOne
    <3> QED  BY <1>1, <2>1, <3>1 DEF Heard
  <2>2. RoleChunk.kind # "call" /\ FinishChunk(FullFinish).kind # "call"
    BY DEF RoleChunk, FinishChunk
  <2>3. CASE outbox = <<RoleChunk>> /\ calls = CallsAfter(CallBlocks, sent)
    BY <2>1, <2>2, <2>3
  <2>4. CASE outbox = <<FinishChunk(FullFinish)>> /\ calls = CallsAfter(CallBlocks, sent)
    BY <2>1, <2>2, <2>4
  <2>5. CASE /\ sent > 0 /\ outbox = <<ChunkOf(CallBlocks, Units[sent])>>
             /\ calls = CallsAfter(CallBlocks, sent - 1)
    <3>1. c = ChunkOf(CallBlocks, Units[sent]) /\ outbox' = <<>>  BY <1>1, <2>5, HeadOfOne
    <3>2. calls' = CallsAfter(CallBlocks, sent)  BY <1>1, <2>5, <3>1, UnitHeard
    <3> QED  BY <3>1, <3>2
  <2> QED  BY <1>1, <2>3, <2>4, <2>5 DEF CallsInv
<1>3. CallsAfter(CallBlocks, sent)' = CallsAfter(CallBlocks, sent)
  <2>1. CallBlocks' = CallBlocks  BY <1>1, FixedFacts
  <2> QED  BY <1>1, <2>1 DEF CallsAfter, Opened, CallAfter
<1> QED  BY <1>2, <1>3 DEF CallsInv

\* An upstream that sends leaves the calls to its chunk.
LEMMA EmitsCalls ==
  ASSUME CallsInv, outbox = <<>>, Fixed, calls' = calls, sent \in Nat,
         \/ sent' = sent /\ outbox' \in {<<RoleChunk>>, <<FinishChunk(FullFinish)>>}
         \/ sent' = sent + 1 /\ outbox' = <<ChunkOf(CallBlocks, Units[sent + 1])>>
  PROVE  CallsInv'
<1>1. calls = CallsAfter(CallBlocks, sent)  BY NothingOnItsWay
<1>2. Units' = Units /\ CallBlocks' = CallBlocks /\ FullFinish' = FullFinish  BY FixedFacts
<1>3. CASE sent' = sent /\ outbox' \in {<<RoleChunk>>, <<FinishChunk(FullFinish)>>}
  <2>1. CallsAfter(CallBlocks, sent)' = CallsAfter(CallBlocks, sent)
    BY <1>2, <1>3 DEF CallsAfter, Opened, CallAfter
  <2> QED  BY <1>1, <1>2, <1>3, <2>1 DEF CallsInv
<1>4. CASE sent' = sent + 1 /\ outbox' = <<ChunkOf(CallBlocks, Units[sent + 1])>>
  <2>1. sent' - 1 = sent /\ sent' > 0  BY <1>4
  <2>2. CallsAfter(CallBlocks, sent - 1)' = CallsAfter(CallBlocks, sent)
    BY <1>2, <2>1 DEF CallsAfter, Opened, CallAfter
  <2>3. ChunkOf(CallBlocks, Units[sent])' = ChunkOf(CallBlocks, Units[sent + 1])
    BY <1>2, <1>4 DEF ChunkOf
  <2> QED  BY <1>1, <1>4, <2>1, <2>2, <2>3 DEF CallsInv
<1> QED  BY <1>3, <1>4

\* One step of Anthropic's stream, or of its consumer.
LEMMA AnthropicStep ==
  ASSUME Typed, AnthropicInv, dialect = "anthropic", Next
  PROVE  AnthropicInv'
<1>1. AtBlock /\ CallsInv  BY AnthropicIs
<1>2. Fixed  BY NextFixed
<1>3. dialect' = "anthropic" /\ sent \in Nat  BY <1>2, UnitsType DEF Fixed, Typed
<1>4. CASE MessageStart
  <2>1. AtBlock'
    BY <1>1, <1>2, <1>4, SameBlock DEF MessageStart, Reading, translator
  <2>2. CallsInv'
    BY <1>1, <1>2, <1>3, <1>4, EmitsCalls DEF MessageStart, Reading, consumer
  <2> QED  BY <2>1, <2>2 DEF AnthropicInv, CallsInv
<1>5. CASE BlockStart
  <2>1. AtBlock'  BY <1>1, <1>5, BlockStartAt
  <2>2. CallsInv'  BY <1>1, <1>5, QuietSteps, QuietCalls
  <2> QED  BY <2>1, <2>2 DEF AnthropicInv, CallsInv
<1>6. CASE BlockDelta
  <2>1. AtBlock'  BY <1>6, BlockDeltaAt
  <2>2. outbox' = <<ChunkOf(CallBlocks, Units[sent + 1])>>  BY <1>6, BlockDeltaSends DEF Unit
  <2>3. outbox = <<>> /\ calls' = calls /\ sent' = sent + 1
    BY <1>6 DEF BlockDelta, Reading, consumer
  <2>4. CallsInv'  BY <1>1, <1>2, <1>3, <2>2, <2>3, EmitsCalls
  <2> QED  BY <2>1, <2>4 DEF AnthropicInv, CallsInv
<1>7. CASE BlockStop
  <2>1. AtBlock'  BY <1>1, <1>7, BlockStopAt
  <2>2. CallsInv'  BY <1>1, <1>7, QuietSteps, QuietCalls
  <2> QED  BY <2>1, <2>2 DEF AnthropicInv, CallsInv
<1>8. CASE MessageDelta
  <2>1. AtBlock'  BY <1>1, <1>2, <1>8, SameBlock DEF MessageDelta, translator
  <2>2. CallsInv'  BY <1>1, <1>8, QuietSteps, QuietCalls
  <2> QED  BY <2>1, <2>2 DEF AnthropicInv, CallsInv
<1>9. CASE MessageStop
  <2>1. AtBlock'
    <3>1. open = 0 /\ sent = Len(Units)  BY <1>1, <1>9 DEF MessageStop, AtBlock
    <3> QED  BY <1>1, <1>2, <1>9, <3>1, SameBlock DEF MessageStop, translator
  <2>2. outbox' = <<FinishChunk(FullFinish)>>  BY <1>9, MessageStopEmits
  <2>3. CallsInv'
    BY <1>1, <1>2, <1>3, <1>9, <2>2, EmitsCalls DEF MessageStop, Reading, consumer
  <2> QED  BY <2>1, <2>3 DEF AnthropicInv, CallsInv
<1>10. CASE GeminiChunk \/ OllamaStart \/ OllamaLine
  BY <1>10 DEF GeminiChunk, OllamaStart, OllamaLine, Reading
<1>11. CASE BreakOff
  <2>1. AtBlock'  BY <1>1, <1>2, <1>11, SameBlock DEF BreakOff, translator
  <2>2. CallsInv'  BY <1>1, <1>11, QuietSteps, QuietCalls
  <2> QED  BY <2>1, <2>2 DEF AnthropicInv, CallsInv
<1>12. CASE Deliver
  <2>1. AtBlock'
    <3>1. stage \in {"ending", "sent"} => open = 0 /\ sent = Len(Units)  BY <1>1 DEF AtBlock
    <3> QED  BY <1>1, <1>2, <1>12, <3>1, SameBlock DEF Deliver, translator
  <2>2. CallsInv'  BY <1>1, <1>12, DeliverCalls
  <2> QED  BY <2>1, <2>2 DEF AnthropicInv, CallsInv
<1>13. CASE EndMessage
  <2>1. AtBlock'
    <3>1. stage \in {"ending", "sent"} => open = 0 /\ sent = Len(Units)  BY <1>1 DEF AtBlock
    <3> QED  BY <1>1, <1>2, <1>13, <3>1, SameBlock DEF EndMessage, translator
  <2>2. CallsInv'  BY <1>1, <1>13, QuietSteps, QuietCalls
  <2> QED  BY <2>1, <2>2 DEF AnthropicInv, CallsInv
<1> QED  BY <1>4, <1>5, <1>6, <1>7, <1>8, <1>9, <1>10, <1>11, <1>12, <1>13 DEF Next

-----------------------------------------------------------------------------
(* The invariant holds.                                                    *)

LEMMA NothingSent ==
  ASSUME Init
  PROVE  SentUnits = <<>> /\ TextSent = <<>> /\ CallsSent = <<>>
<1>1. SubSeq(Units, 1, 0) = <<>>
  <2>1. Units \in Seq(Fragment)  BY UnitsType DEF Init, Setting
  <2> QED  BY <2>1
<1>2. SentUnits = <<>>  BY <1>1 DEF Init, SentUnits
<1> QED  BY <1>2, OnlyEmpty DEF TextSent, CallsSent

LEMMA InitInv ==
  ASSUME Init
  PROVE  DialectsInv
<1>1. Setting /\ Len(Units) \in Nat /\ Len(reply) \in Nat
  BY UnitsType, ReplyFacts DEF Init, Setting
<1>2. <<>> \in Seq(Fragment) /\ <<>> \in Seq(CallRec) /\ <<>> \in Seq(Chunk)
      /\ <<>> \in Seq(EventNames)
  OBVIOUS
<1>3. Typed
  <2>1. reason = "tool_use" => CallBlocks # {}  BY DEF Init, CallBlocks
  <2>2. sent \in 0 .. Len(Units)  BY <1>1 DEF Init
  <2> QED  BY <1>1, <1>2, <2>1, <2>2 DEF Init, Typed
<1>4. InPlace  BY DEF Init, InPlace
<1>5. TextInv
  <2>1. TextIn(<<>>) = <<>> /\ <<>> \o <<>> = <<>>  BY FlatMapEmpty DEF TextIn
  <2> QED  BY <2>1, NothingSent DEF TextInv, Init
<1>6. AtBlock
  <2>1. 0 \in 0 .. Len(reply) /\ sent = 2 * 0  BY <1>1 DEF Init
  <2>2. DOMAIN tool = CallBlocks \cap (1 .. 0)  BY DEF Init
  <2> QED  BY <2>1, <2>2 DEF Init, AtBlock
<1>7. CallsInv
  <2>1. Opened(CallBlocks, 0) = <<>>  BY OpenedFacts
  <2>2. CallsAfter(CallBlocks, 0) = <<>>
    <3>1. CallsAfter(CallBlocks, 0) = [i \in {} |-> CallAfter(Opened(CallBlocks, 0)[i], 0)]
      BY <2>1 DEF CallsAfter
    <3> QED  BY <3>1
  <2> QED  BY <2>2 DEF Init, CallsInv
<1>8. WholeInv
  <2>1. NumberedFrom(<<>>, 0) = <<>>
    <3>1. NumberedFrom(<<>>, 0)
            = [i \in {} |-> [index |-> 0 + i - 1, id |-> 0 + i - 1, args |-> <<<<>>[i]>>]]
      BY DEF NumberedFrom
    <3> QED  BY <3>1
  <2>2. CallsIn(<<>>) = <<>> /\ <<>> \o <<>> = <<>>  BY FlatMapEmpty DEF CallsIn
  <2>3. DOMAIN tool = 1 .. Len(CallsSent)
    <3>1. Len(CallsSent) = 0  BY NothingSent
    <3> QED  BY <3>1 DEF Init
  <2>4. \A i \in 1 .. Len(outbox) : outbox[i].kind = "call" => outbox[i].id # <<>>
    BY DEF Init
  <2>5. calls \o CallsIn(outbox) = NumberedFrom(CallsSent, 0)
    BY <2>1, <2>2, NothingSent DEF Init
  <2> QED  BY <2>3, <2>4, <2>5, NothingSent DEF Init, WholeInv
<1>9. ToldInv
  <2>1. told = <<>> /\ role = FALSE /\ DOMAIN told = {}  BY DEF Init
  <2>2. NothingHeard  BY DEF Init, NothingHeard
  <2> QED  BY <2>1, <2>2 DEF ToldInv
<1> QED  BY <1>3, <1>4, <1>5, <1>6, <1>7, <1>8, <1>9 DEF DialectsInv, AnthropicInv, CallsInv

\* The role of Ollama opens no call.
LEMMA OllamaStartWhole ==
  ASSUME Typed, WholeInv, OllamaStart
  PROVE  WholeInv'
<1>1. Emits(0) /\ CallsIn(outbox') = <<>>  BY OllamaStartEmits
<1>2. /\ dialect = "ollama" /\ stage = "start" /\ stage' = "body" /\ outbox' = <<RoleChunk>>
  BY DEF OllamaStart, Reading
<1>3. Only(NextUnits(0), CallUnits) = <<>>  BY NothingNext DEF Typed
<1>4. CallsSent = <<>>  BY <1>2 DEF WholeInv
<1>5. NumberedFrom(<<>>, Len(CallsSent)) = <<>>
  <2>1. NumberedFrom(<<>>, Len(CallsSent))
          = [i \in {} |-> [index |-> Len(CallsSent) + i - 1, id |-> Len(CallsSent) + i - 1,
                           args |-> <<<<>>[i]>>]]
    BY DEF NumberedFrom
  <2> QED  BY <2>1
<1>6. \A i \in 1 .. Len(outbox') : outbox'[i].kind = "call" => outbox'[i].id # <<>>
  <2>1. RoleChunk.kind # "call"  BY DEF RoleChunk
  <2>2. ASSUME NEW c  PROVE Len(<<c>>) = 1 /\ <<c>>[1] = c  OBVIOUS
  <2>3. \A i \in 1 .. Len(outbox') : outbox'[i] = RoleChunk  BY <1>2, <2>2
  <2> QED  BY <2>1, <2>3
<1>7. CallsIn(outbox') = NumberedFrom(Only(NextUnits(0), CallUnits), Len(CallsSent))
  BY <1>1, <1>3, <1>5
<1>8. dialect # "anthropic" /\ dialect # "gemini" /\ stage' # "ending" /\ stage' # "start"
  BY <1>2
<1> QED  BY <1>1, <1>3, <1>6, <1>7, <1>8, EmitsWhole

LEMMA StepInv ==
  ASSUME DialectsInv, [Next]_vars
  PROVE  DialectsInv'
<1>1. /\ Typed /\ InPlace /\ TextInv /\ AnthropicInv /\ WholeInv /\ ToldInv
  BY DEF DialectsInv
<1>2. dialect' = dialect /\ Fixed  BY NextFixed DEF Fixed
<1>3. Next /\ dialect = "anthropic" => AnthropicInv'  BY <1>1, AnthropicStep
<1>4. dialect # "anthropic" => AnthropicInv'  BY <1>2 DEF AnthropicInv
<1>5. dialect = "anthropic" => WholeInv'  BY <1>2 DEF WholeInv
<1>6. ASSUME NEW n, Emits(n), Next, WholeInv'  PROVE DialectsInv'
  <2>1. Typed' /\ TextInv' /\ InPlace' /\ ToldInv'
    BY <1>1, <1>6, EmitsTyped, EmitsText, EmitsInPlace, EmitsTold
  <2> QED  BY <1>3, <1>4, <1>6, <2>1 DEF DialectsInv
<1>7. ASSUME Quiet, ToldInv', told' \in Seq(EventNames), AnthropicInv'  PROVE DialectsInv'
  <2>1. Typed' /\ InPlace' /\ TextInv' /\ WholeInv'  BY <1>1, <1>7, QuietInv
  <2> QED  BY <1>7, <2>1 DEF DialectsInv
<1>8. CASE MessageStart \/ BlockDelta \/ MessageStop
  <2>1. dialect = "anthropic" /\ Next
    BY <1>8 DEF MessageStart, BlockDelta, MessageStop, Reading, Next
  <2>2. \E n : Emits(n)
    BY <1>1, <1>8, MessageStartEmits, BlockDeltaEmits, MessageStopEmits
  <2> QED  BY <1>5, <1>6, <2>1, <2>2
<1>9. CASE GeminiChunk \/ OllamaStart \/ OllamaLine
  <2>1. Next  BY <1>9 DEF Next
  <2>2. WholeInv' /\ \E n : Emits(n)
    <3>1. CASE GeminiChunk  BY <1>1, <3>1, GeminiChunkEmits
    <3>2. CASE OllamaStart  BY <1>1, <3>2, OllamaStartEmits, OllamaStartWhole
    <3>3. CASE OllamaLine  BY <1>1, <3>3, OllamaLineEmits
    <3> QED  BY <1>9, <3>1, <3>2, <3>3
  <2> QED  BY <1>6, <2>1, <2>2
<1>10. CASE BlockStart \/ BlockStop \/ MessageDelta \/ BreakOff
  <2>1. Next  BY <1>10 DEF Next
  <2>2. told' = told
    BY <1>10 DEF BlockStart, BlockStop, MessageDelta, BreakOff
  <2>3. Quiet  BY <1>10, QuietSteps
  <2>4. ToldInv' /\ told' \in Seq(EventNames)  BY <1>1, <2>2, <2>3, SilentTold DEF Typed
  <2> QED  BY <1>3, <1>4, <1>7, <2>1, <2>3, <2>4
<1>11. CASE Deliver
  <2>1. Next  BY <1>11 DEF Next
  <2>2. ToldInv' /\ told' \in Seq(EventNames)  BY <1>1, <1>11, DeliverTold
  <2>3. Typed' /\ InPlace' /\ TextInv'
    BY <1>1, <1>11, <2>2, DeliverTyped, DeliverInPlace, DeliverText
  <2>4. WholeInv'
    <3>1. dialect # "anthropic" => WholeInv'  BY <1>1, <1>11, DeliverWhole
    <3> QED  BY <1>5, <3>1
  <2> QED  BY <1>3, <1>4, <2>1, <2>2, <2>3, <2>4 DEF DialectsInv
<1>12. CASE EndMessage
  <2>1. Next  BY <1>12 DEF Next
  <2>2. ToldInv' /\ told' \in Seq(EventNames)  BY <1>1, <1>12, EndTold
  <2>3. Quiet  BY <1>12, QuietSteps
  <2> QED  BY <1>3, <1>4, <1>7, <2>1, <2>2, <2>3
<1>13. CASE UNCHANGED vars
  <2>1. Quiet /\ told' = told /\ UNCHANGED <<open, tool, sent, stage>>
    BY <1>2, <1>13 DEF vars, Quiet, consumer, translator
  <2>2. ToldInv' /\ told' \in Seq(EventNames)  BY <1>1, <2>1, SilentTold DEF Typed
  <2>3. AnthropicInv'
    <3>1. CASE dialect = "anthropic"
      <4>1. AtBlock /\ CallsInv  BY <1>1, <3>1, AnthropicIs
      <4>2. CallsInv'  BY <2>1, <4>1, QuietCalls
      <4>3. AtBlock'
        <5>1. stage \in {"ending", "sent"} => open = 0 /\ sent = Len(Units)  BY <4>1 DEF AtBlock
        <5> QED  BY <1>1, <1>2, <2>1, <4>1, <5>1, SameBlock
      <4> QED  BY <4>2, <4>3 DEF AnthropicInv, CallsInv
    <3> QED  BY <1>4, <3>1
  <2> QED  BY <1>7, <2>1, <2>2, <2>3
<1> QED  BY <1>8, <1>9, <1>10, <1>11, <1>12, <1>13 DEF Next

\* However the upstream cuts its answer into events and wherever it breaks off:
\* the chunks on their way have the role first and the finish last, no text and no
\* call is lost between the upstream and the consumer, Anthropic's calls are those
\* of the units sent, the others' are numbered as they come, and the events of
\* /v1/messages have ended only when every chunk was told (anthropic.py:495-581,
\* gemini.py:235-306, ollama_native.py:292-341).
THEOREM DialectsInvariant == Spec => []DialectsInv
<1>1. Init => DialectsInv  BY InitInv
<1>2. DialectsInv /\ [Next]_vars => DialectsInv'  BY StepInv
<1> QED  BY <1>1, <1>2, PTL DEF Spec

\* The events of /v1/messages come in the order its docstring gives
\* (anthropic.py:234-240), however many blocks the reply has and wherever the
\* upstream's stream ends; only when it ends before its first chunk, the message
\* has an end and no start.
THEOREM DialectsMessageProtocol == Spec => []MessageProtocol
<1>1. DialectsInv => MessageProtocol  BY ToldProtocol DEF DialectsInv
<1> QED  BY <1>1, DialectsInvariant, PTL

-----------------------------------------------------------------------------
(* A client that streams gets the answer of one that does not.             *)

LEMMA AllSent ==
  ASSUME Typed, stage = "sent"
  PROVE  /\ sent = Len(Units)
         /\ TextSent = Only(Units, TextUnits) /\ CallsSent = Only(Units, CallUnits)
<1>1. sent = Len(Units) /\ Units \in Seq(Fragment)  BY UnitsType DEF Typed
<1>2. SentUnits = Units  BY <1>1, SubSeqFull DEF SentUnits
<1> QED  BY <1>1, <1>2 DEF TextSent, CallsSent

LEMMA AllText ==
  ASSUME Typed, TextInv, stage = "sent", outbox = <<>>
  PROVE  text = FullText
<1>1. TextIn(outbox) = <<>>  BY FlatMapEmpty DEF TextIn
<1>2. text \in Seq(Fragment) /\ Setting /\ InOrder \in Seq(DOMAIN reply)
  BY ReplyFacts DEF Typed
<1>3. text \o <<>> = text  BY <1>2
<1>4. text = Only(Units, TextUnits)  BY <1>1, <1>3, AllSent DEF TextInv
<1>5. "text" \in {"text", "call"}  OBVIOUS
<1>6. Only(Units, UnitsIn("text")) = UnitsOfAll(Only(InOrder, Blocks("text")))
  BY <1>2, <1>5, KindsInOrder
<1>7. FullText = UnitsOfAll(Only(InOrder, Blocks("text")))
  BY <1>2, <1>5, UnitsOfKind DEF FullText
<1> QED  BY <1>4, <1>6, <1>7 DEF TextUnits

\* Nothing is on its way to the consumer but, perhaps, the finish.
OnlyFinishLeft == outbox = <<>> \/ outbox = <<FinishChunk(FullFinish)>>

LEMMA AllWholeCalls ==
  ASSUME Typed, WholeInv, dialect # "anthropic", stage = "sent", OnlyFinishLeft
  PROVE  [k \in DOMAIN calls |-> calls[k].args] = FullCalls
<1> DEFINE cs == Only(InOrder, CallBlocks)
           us == Only(Units, CallUnits)
<1>1. CallsIn(outbox) = <<>>
  <2>1. CASE outbox = <<>>  BY <2>1, FlatMapEmpty DEF CallsIn
  <2>2. CASE outbox = <<FinishChunk(FullFinish)>>
    <3> DEFINE c == FinishChunk(FullFinish)
    <3>1. c \in Chunk /\ c.kind = "finish"
      BY ChunkMakes, FinishFacts DEF FinishChunk, Typed
    <3>2. CallsFn[c] = <<>>  BY <3>1 DEF CallsFn, CallsOf
    <3> HIDE DEF c
    <3>3. FlatMap(CallsFn, <<c>>) = CallsFn[c]  BY <3>1, ChunkSays, FlatMapOne
    <3>4. outbox = <<c>>  BY <2>2 DEF c
    <3> QED  BY <3>2, <3>3, <3>4 DEF CallsIn
  <2> QED  BY <2>1, <2>2 DEF OnlyFinishLeft
<1>2. calls \o <<>> = calls  BY DEF Typed
<1>3. calls = NumberedFrom(us, 0)  BY <1>1, <1>2, AllSent DEF WholeInv
<1>4. us = [i \in DOMAIN cs |-> <<cs[i], 0>>]
  BY WholeCalls DEF CallBlocks, CallUnits, Typed
<1>5. cs \in Seq(CallBlocks) /\ cs \in Seq(DOMAIN reply)
      /\ FullCalls = [i \in DOMAIN cs |-> UnitsOf(cs[i])]
  BY FullCallsFacts DEF Typed
<1>6. ASSUME NEW i \in DOMAIN cs  PROVE UnitsOf(cs[i]) = <<<<cs[i], 0>>>>
  <2>1. cs[i] \in CallBlocks /\ cs[i] \in DOMAIN reply  BY <1>5
  <2>2. reply[cs[i]] = "call"  BY <2>1 DEF CallBlocks, Blocks
  <2> QED  BY <2>1, <2>2, UnitsOfType DEF Typed
<1> HIDE DEF cs, us
<1>7. DOMAIN us = DOMAIN cs /\ \A i \in DOMAIN cs : us[i] = <<cs[i], 0>>  BY <1>4
<1>8. DOMAIN calls = DOMAIN cs  BY <1>3, <1>7 DEF NumberedFrom
<1>9. \A i \in DOMAIN cs : calls[i].args = <<us[i]>>  BY <1>3, <1>7 DEF NumberedFrom
<1>10. \A i \in DOMAIN cs : calls[i].args = UnitsOf(cs[i])  BY <1>6, <1>7, <1>9
<1> QED  BY <1>5, <1>8, <1>10

LEMMA AllOpenedCalls ==
  ASSUME Typed, AnthropicInv, dialect = "anthropic", stage = "sent", OnlyFinishLeft
  PROVE  [k \in DOMAIN calls |-> calls[k].args] = FullCalls
<1> DEFINE cs == Only(InOrder, CallBlocks)
           n == Len(reply)
<1>1. AtBlock /\ open = 0 /\ sent = Len(Units)  BY DEF AnthropicInv, AtBlock
<1>2. sent = 2 * n /\ n \in Nat /\ Setting /\ DOMAIN reply = 1 .. n
  BY <1>1, AllBlocksPassed, ReplyFacts DEF Typed
<1>3. calls = CallsAfter(CallBlocks, sent)
  <2>1. CASE sent = 0
    <3>1. ~(sent > 0)  BY <2>1
    <3> QED  BY <3>1 DEF AnthropicInv
  <2>2. CASE sent # 0
    <3>1. sent \in 1 .. Len(Units)
      <4>1. sent \in Nat /\ sent # 0  BY <1>2, <2>2
      <4> QED  BY <1>1, <4>1
    <3>2. PICK k \in 1 .. Len(reply), j \in {1, 2} : Units[sent] = <<k, j>>
      BY <1>2, <3>1, UnitAt
    <3>3. ASSUME outbox = <<ChunkOf(CallBlocks, Units[sent])>>  PROVE FALSE
      <4>1. ASSUME NEW c, NEW d, <<c>> = <<d>>  PROVE c = d
        <5>1. <<c>>[1] = <<d>>[1]  BY <4>1
        <5> QED  BY <5>1
      <4>2. ASSUME NEW c  PROVE <<c>> # <<>>  OBVIOUS
      <4>3. outbox # <<>>  BY <3>3, <4>2
      <4>4. outbox = <<FinishChunk(FullFinish)>>  BY <4>3 DEF OnlyFinishLeft
      <4>5. ChunkOf(CallBlocks, Units[sent]) = FinishChunk(FullFinish)  BY <3>3, <4>1, <4>4
      <4>6. FinishChunk(FullFinish).kind = "finish"  BY DEF FinishChunk
      <4>7. ChunkOf(CallBlocks, Units[sent]).kind # "finish"
        BY DEF ChunkOf, TextChunk, OpenChunk, MoreChunk
      <4> QED  BY <4>5, <4>6, <4>7
    <3> QED  BY <3>3 DEF AnthropicInv
  <2> QED  BY <2>1, <2>2
<1>4. NumbersTo(n) = InOrder  BY <1>2 DEF NumbersTo, InOrder
<1>5. Opened(CallBlocks, sent) = cs
  <2>1. \A m \in Nat : (2 * m + 1) \div 2 = m  OBVIOUS
  <2> QED  BY <1>2, <1>4, <2>1 DEF Opened
<1>6. cs \in Seq(CallBlocks) /\ cs \in Seq(DOMAIN reply)
      /\ FullCalls = [i \in DOMAIN cs |-> UnitsOf(cs[i])]
  BY <1>2, FullCallsFacts
<1> HIDE DEF cs
<1>7. calls = [i \in DOMAIN cs |-> CallAfter(cs[i], sent)]  BY <1>3, <1>5 DEF CallsAfter
<1>8. ASSUME NEW i \in DOMAIN cs  PROVE CallAfter(cs[i], sent).args = UnitsOf(cs[i])
  <2>1. cs[i] \in DOMAIN reply /\ cs[i] \in Nat  BY <1>2, <1>6
  <2>2. 2 * n # 2 * cs[i] - 1  BY <1>2, <2>1
  <2>3. UnitsOf(cs[i]) = <<<<cs[i], 1>>, <<cs[i], 2>>>>  BY <1>2, <2>1, UnitsOfType
  <2> HIDE DEF n
  <2> QED  BY <1>2, <2>2, <2>3 DEF CallAfter
<1>9. DOMAIN calls = DOMAIN cs /\ \A i \in DOMAIN cs : calls[i].args = UnitsOf(cs[i])
  BY <1>7, <1>8
<1> QED  BY <1>6, <1>9

LEMMA AllHeard ==
  ASSUME Typed, AnthropicInv, WholeInv, stage = "sent", OnlyFinishLeft
  PROVE  [k \in DOMAIN calls |-> calls[k].args] = FullCalls
BY AllWholeCalls, AllOpenedCalls

\* However the upstream cuts its answer into events, a client that streams gets
\* the same answer as one that does not: the same text, calls in the same order
\* with the same arguments, and the same finish_reason (anthropic.py:495-581,
\* gemini.py:235-306, ollama_native.py:292-341).
THEOREM DialectsStreamMatchesFull == Spec => []StreamMatchesFull
<1>1. DialectsInv => StreamMatchesFull
  <2> SUFFICES ASSUME DialectsInv, stage = "sent", outbox = <<>>
               PROVE  /\ text = FullText
                      /\ [k \in DOMAIN calls |-> calls[k].args] = FullCalls
                      /\ finish = FullFinish
    BY DEF StreamMatchesFull
  <2>1. text = FullText  BY AllText DEF DialectsInv
  <2>2. [k \in DOMAIN calls |-> calls[k].args] = FullCalls
    BY AllHeard DEF DialectsInv, OnlyFinishLeft
  <2>3. finish = FullFinish  BY DEF DialectsInv, InPlace
  <2> QED  BY <2>1, <2>2, <2>3
<1> QED  BY <1>1, DialectsInvariant, PTL

-----------------------------------------------------------------------------
(* The chunks are a chat stream.                                           *)

\* Calls numbered as they come: each has its place for index and id.
LEMMA NumberedPart ==
  ASSUME NEW a \in Seq(CallRec), NEW b \in Seq(CallRec), NEW us \in Seq(Fragment),
         a \o b = NumberedFrom(us, 0)
  PROVE  Len(a) <= Len(us) /\ \A i \in 1 .. Len(a) : a[i].index = i - 1 /\ a[i].id = i - 1
<1> DEFINE n == NumberedFrom(us, 0)
<1>1. /\ a \o b \in Seq(CallRec) /\ Len(a \o b) = Len(a) + Len(b)
      /\ \A i \in 1 .. Len(a) : (a \o b)[i] = a[i]
  BY ConcatAt
<1>2. DOMAIN n = DOMAIN us
      /\ \A i \in DOMAIN us : n[i].index = 0 + i - 1 /\ n[i].id = 0 + i - 1
  BY DEF NumberedFrom
<1>3. Len(a) \in Nat /\ Len(b) \in Nat /\ Len(us) \in Nat /\ DOMAIN us = 1 .. Len(us)
  OBVIOUS
<1>4. n = a \o b  OBVIOUS
<1> HIDE DEF n
<1>5. Len(a) + Len(b) = Len(us)
  <2>1. n \in Seq(CallRec) /\ Len(n) = Len(a) + Len(b)  BY <1>1, <1>4
  <2>2. DOMAIN n = 1 .. Len(us)  BY <1>2, <1>3
  <2>3. ASSUME NEW x \in Seq(CallRec), NEW k \in Nat, DOMAIN x = 1 .. k  PROVE Len(x) = k
    BY ONLY <2>3
  <2>4. Len(n) = Len(us)  BY ONLY <1>3, <2>1, <2>2, <2>3
  <2> QED  BY <2>1, <2>4
<1>6. ASSUME NEW i \in 1 .. Len(a)  PROVE a[i].index = i - 1 /\ a[i].id = i - 1
  <2>1. i \in DOMAIN us /\ i \in Int  BY <1>3, <1>5
  <2>2. n[i] = a[i]  BY <1>1, <1>4
  <2> QED  BY <1>2, <2>1, <2>2
<1> QED  BY <1>3, <1>5, <1>6

\* A call that is opened is new, and has its place.
OpensNew(c) ==
  /\ c.index \in 0 .. MaxBlocks /\ c.id[1] \in 0 .. MaxBlocks
  /\ \A i \in DOMAIN calls : calls[i].index # c.index /\ calls[i].id # c.id[1]

LEMMA WholeOpensNew ==
  ASSUME Typed, Typed', WholeInv', Deliver, dialect # "anthropic",
         NEW c, c = Head(outbox), c.kind = "call", c.id # <<>>
  PROVE  OpensNew(c)
<1> DEFINE new == [index |-> c.index, id |-> c.id[1], args |-> <<c.unit>>]
           b == CallsIn(outbox')
<1>1. Heard(c) /\ Fixed /\ c \in Chunk /\ outbox' \in Seq(Chunk)
  BY DeliverHeard DEF Deliver, Fixed
<1>2. calls \in Seq(CallRec) /\ calls' \in Seq(CallRec) /\ b \in Seq(CallRec)
  BY <1>1, QueueSays DEF Typed
<1>3. calls' = calls \o <<new>>
  <2>1. CallsOf(c) = <<new>>  BY DEF CallsOf
  <2> QED  BY <1>1, <2>1 DEF Heard
<1>4. dialect' # "anthropic" /\ Setting /\ sent \in 0 .. Len(Units) /\ sent' = sent
  BY <1>1 DEF Fixed, Typed, Deliver
<1>5. calls' \o b = NumberedFrom(CallsSent, 0)
  <2>1. CallsSent' = CallsSent  BY <1>1, <1>4, FixedFacts DEF CallsSent, SentUnits
  <2>2. NumberedFrom(CallsSent, 0)' = NumberedFrom(CallsSent, 0)  BY <2>1 DEF NumberedFrom
  <2>3. CallsIn(outbox)' = b  BY DEF CallsIn
  <2> QED  BY <1>4, <2>2, <2>3 DEF WholeInv
<1>6. CallsSent \in Seq(Fragment) /\ Len(CallsSent) <= MaxBlocks
  <2> DEFINE n == Len(Units) - sent
             r == Only(NextUnits(n), CallUnits)
  <2>1. n \in Nat /\ sent + n = Len(Units) /\ sent + n <= Len(Units) /\ Units \in Seq(Fragment)
    BY <1>4, UnitsType
  <2> HIDE DEF n
  <2>2. /\ r \in Seq(Fragment) /\ CallsSent \in Seq(Fragment)
        /\ Only(SubSeq(Units, 1, sent + n), CallUnits) = CallsSent \o r
    BY <1>4, <2>1, SendMore
  <2>3. SubSeq(Units, 1, sent + n) = Units  BY <2>1, SubSeqFull
  <2>4. Len(CallsSent \o r) <= MaxBlocks  BY <1>4, <2>2, <2>3, AllCallsSent
  <2> HIDE DEF r
  <2>5. Len(CallsSent \o r) = Len(CallsSent) + Len(r) /\ Len(CallsSent) \in Nat /\ Len(r) \in Nat
    BY <2>2, ConcatAt
  <2> QED  BY <2>2, <2>4, <2>5, DialectsAssumption
<1> HIDE DEF b
<1>7. /\ Len(calls') <= Len(CallsSent)
      /\ \A i \in 1 .. Len(calls') : calls'[i].index = i - 1 /\ calls'[i].id = i - 1
  BY <1>2, <1>5, <1>6, NumberedPart
<1>8. new \in CallRec
  <2>1. CallsFn[c] \in Seq(CallRec) /\ CallsFn[c] = CallsOf(c)
    BY <1>1, ChunkSays DEF Gives, CallsFn
  <2>2. CallsOf(c) = <<new>>  BY DEF CallsOf
  <2> HIDE DEF new
  <2>3. <<new>> \in Seq(CallRec)  BY <2>1, <2>2
  <2>4. 1 \in DOMAIN <<new>> /\ <<new>>[1] = new  OBVIOUS
  <2> QED  BY <2>3, <2>4
<1>9. new.index = c.index /\ new.id = c.id[1]  OBVIOUS
<1> HIDE DEF new
<1>10. calls' = Append(calls, new)  BY <1>2, <1>3, <1>8, AppendFacts
<1>11. /\ Len(calls') = Len(calls) + 1 /\ calls'[Len(calls) + 1] = new
       /\ \A i \in 1 .. Len(calls) : calls'[i] = calls[i]
  BY <1>2, <1>8, <1>10, AppendFacts
<1>12. Len(calls) \in Nat /\ Len(calls) + 1 <= MaxBlocks /\ DOMAIN calls = 1 .. Len(calls)
  <2>1. Len(calls) \in Nat /\ Len(CallsSent) \in Nat /\ DOMAIN calls = 1 .. Len(calls)
    BY <1>2, <1>6
  <2> QED  BY <1>6, <1>7, <1>11, <2>1, DialectsAssumption
<1>13. c.index = Len(calls) /\ c.id[1] = Len(calls)
  <2>1. Len(calls) + 1 \in 1 .. Len(calls') /\ Len(calls) + 1 - 1 = Len(calls)
    BY <1>11, <1>12
  <2> QED  BY <1>7, <1>9, <1>11, <2>1
<1>14. \A i \in 1 .. Len(calls) : calls[i].index = i - 1 /\ calls[i].id = i - 1
  <2>1. \A i \in 1 .. Len(calls) : i \in 1 .. Len(calls')  BY <1>11, <1>12
  <2> QED  BY <1>7, <1>11, <2>1
<1>15. Len(calls) \in 0 .. MaxBlocks  BY <1>12, DialectsAssumption
<1>16. \A i \in 1 .. Len(calls) : i - 1 # Len(calls)  BY <1>12
<1> QED  BY <1>12, <1>13, <1>14, <1>15, <1>16 DEF OpensNew

\* Anthropic's chunk of a call: it opens block k + 1, or adds to the last opened.
LEMMA CallOnItsWay ==
  ASSUME Typed, CallsInv, dialect = "anthropic", outbox # <<>>,
         NEW c, c = Head(outbox), c.kind = "call"
  PROVE  \E m \in 0 .. MaxBlocks :
           /\ m + 1 \in CallBlocks /\ m + 1 \in 1 .. MaxBlocks
           /\ \/ c = OpenChunk(m, m + 1, <<m + 1, 1>>) /\ calls = CallsAfter(CallBlocks, 2 * m)
              \/ c = MoreChunk(m, <<m + 1, 2>>) /\ calls = CallsAfter(CallBlocks, 2 * m + 1)
<1>1. Setting /\ sent \in 0 .. Len(Units) /\ Len(Units) \in Nat
  BY UnitsType DEF Typed
<1>2. /\ sent > 0 /\ calls = CallsAfter(CallBlocks, sent - 1)
      /\ c = ChunkOf(CallBlocks, Units[sent])
  <2>1. ASSUME NEW d, outbox = <<d>>, d.kind # "call"  PROVE FALSE
    BY <2>1, HeadOfOne
  <2>2. RoleChunk.kind # "call" /\ FinishChunk(FullFinish).kind # "call"
    BY DEF RoleChunk, FinishChunk
  <2>3. outbox # <<RoleChunk>> /\ outbox # <<FinishChunk(FullFinish)>>  BY <2>1, <2>2
  <2>4. /\ sent > 0 /\ calls = CallsAfter(CallBlocks, sent - 1)
        /\ outbox = <<ChunkOf(CallBlocks, Units[sent])>>
    BY <2>3 DEF CallsInv
  <2> QED  BY <2>4, HeadOfOne
<1>3. sent \in 1 .. Len(Units)  BY <1>1, <1>2
<1>4. PICK k \in 1 .. Len(reply) : \/ sent = 2 * k - 1 /\ Units[sent] = <<k, 1>>
                                   \/ sent = 2 * k /\ Units[sent] = <<k, 2>>
  BY <1>1, <1>3, UnitAt
<1> DEFINE m == k - 1
<1>5. /\ m \in 0 .. MaxBlocks /\ m + 1 = k /\ m + 1 \in 1 .. MaxBlocks /\ k \in DOMAIN reply
      /\ (2 * k - 1) - 1 = 2 * m /\ 2 * k - 1 = 2 * m + 1
  <2>1. k \in DOMAIN reply /\ k \in 1 .. MaxBlocks  BY <1>1, ReplyFacts
  <2> QED  BY <2>1, DialectsAssumption
<1>6. k \in CallBlocks
  <2> SUFFICES ASSUME k \notin CallBlocks PROVE FALSE  OBVIOUS
  <2>1. PICK j \in {1, 2} : Units[sent] = <<k, j>>  BY <1>4
  <2>2. c = TextChunk(<<<<k, j>>>>)  BY <1>1, <1>2, <1>5, <2>1, ChunkOfFacts
  <2> QED  BY <2>2 DEF TextChunk
<1> HIDE DEF m
<1>7. \/ c = OpenChunk(m, m + 1, <<m + 1, 1>>) /\ calls = CallsAfter(CallBlocks, 2 * m)
      \/ c = MoreChunk(m, <<m + 1, 2>>) /\ calls = CallsAfter(CallBlocks, 2 * m + 1)
  <2>1. CASE sent = 2 * k - 1 /\ Units[sent] = <<k, 1>>
    <3>1. 1 \in {1, 2}  OBVIOUS
    <3>2. c = OpenChunk(k - 1, k, <<k, 1>>)
      BY <1>1, <1>2, <1>5, <1>6, <2>1, <3>1, ChunkOfFacts
    <3>3. k - 1 = m  BY DEF m
    <3>4. sent - 1 = 2 * m  BY <1>5, <2>1
    <3> QED  BY <1>2, <1>5, <3>2, <3>3, <3>4
  <2>2. CASE sent = 2 * k /\ Units[sent] = <<k, 2>>
    <3>1. 2 \in {1, 2}  OBVIOUS
    <3>2. c = MoreChunk(k - 1, <<k, 2>>)
      BY <1>1, <1>2, <1>5, <1>6, <2>2, <3>1, ChunkOfFacts
    <3>3. k - 1 = m  BY DEF m
    <3>4. sent - 1 = 2 * m + 1  BY <1>5, <2>2
    <3> QED  BY <1>2, <1>5, <3>2, <3>3, <3>4
  <2> QED  BY <1>4, <2>1, <2>2
<1> QED  BY <1>5, <1>6, <1>7

LEMMA AnthropicOpensNew ==
  ASSUME Typed, NEW m \in 0 .. MaxBlocks, m + 1 \in 1 .. MaxBlocks, NEW u,
         NEW c, c = OpenChunk(m, m + 1, u), calls = CallsAfter(CallBlocks, 2 * m)
  PROVE  OpensNew(c)
<1> DEFINE o == Opened(CallBlocks, 2 * m)
<1>1. m \in Nat  BY DialectsAssumption
<1>2. o \in Seq((1 .. m) \cap CallBlocks)  BY <1>1, OpenedFacts
<1>3. c.index = m /\ c.id[1] = m + 1  BY DEF OpenChunk
<1>4. calls = [i \in DOMAIN o |-> CallAfter(o[i], 2 * m)]  BY DEF CallsAfter
<1> HIDE DEF o
<1>5. \A i \in DOMAIN o : o[i] \in 1 .. m  BY <1>2
<1>6. \A i \in DOMAIN calls : calls[i].index = o[i] - 1 /\ calls[i].id = o[i] /\ i \in DOMAIN o
  BY <1>4 DEF CallAfter
<1>7. \A i \in DOMAIN calls : calls[i].index # m /\ calls[i].id # m + 1
  BY <1>1, <1>5, <1>6
<1>8. m + 1 \in 0 .. MaxBlocks  BY <1>1, DialectsAssumption
<1> QED  BY <1>3, <1>7, <1>8 DEF OpensNew

\* Arguments go to one call, the one that was opened last.
LEMMA MoreToLast ==
  ASSUME Typed, NEW m \in Nat, m + 1 \in CallBlocks, NEW u,
         NEW c, c = MoreChunk(m, u), calls = CallsAfter(CallBlocks, 2 * m + 1), Heard(c)
  PROVE  \E k \in DOMAIN calls : calls' = [calls EXCEPT ![k].args = Append(@, u)]
<1> DEFINE o == Opened(CallBlocks, 2 * m)
           p == Opened(CallBlocks, 2 * m + 1)
           L == Len(o) + 1
<1>1. o \in Seq((1 .. m) \cap CallBlocks) /\ p = Append(o, m + 1)  BY OpenedFacts
<1>2. /\ DOMAIN calls = DOMAIN p
      /\ \A i \in DOMAIN calls : calls[i].index = m <=> p[i] = m + 1
  <2>1. DOMAIN CallsAfter(CallBlocks, 2 * m + 1) = DOMAIN Opened(CallBlocks, 2 * m + 1)
    BY SecondUnit
  <2>2. \A i \in DOMAIN CallsAfter(CallBlocks, 2 * m + 1) :
          CallsAfter(CallBlocks, 2 * m + 1)[i].index = m
            <=> Opened(CallBlocks, 2 * m + 1)[i] = m + 1
    BY SecondUnit
  <2> QED  BY <2>1, <2>2
<1> HIDE DEF o, p
<1>3. o \in Seq(Nat) /\ m + 1 \in Nat /\ \A i \in 1 .. Len(o) : o[i] # m + 1
  <2>1. o \in Seq(Nat)  BY <1>1
  <2>2. \A i \in 1 .. Len(o) : o[i] \in 1 .. m  BY <1>1
  <2> QED  BY <2>1, <2>2
<1>4. /\ p \in Seq(Nat) /\ Len(p) = Len(o) + 1 /\ p[Len(o) + 1] = m + 1
      /\ \A i \in 1 .. Len(o) : p[i] = o[i]
  BY <1>1, <1>3, AppendFacts
<1>5. DOMAIN p = 1 .. Len(o) + 1 /\ Len(o) \in Nat  BY <1>3, <1>4
<1>6. L \in DOMAIN calls /\ \A i \in DOMAIN calls : calls[i].index = m <=> i = L
  <2>1. L \in 1 .. Len(o) + 1  BY <1>5
  <2>2. \A i \in 1 .. Len(o) + 1 : i \in 1 .. Len(o) \/ i = L  BY <1>5
  <2> QED  BY <1>2, <1>3, <1>4, <1>5, <2>1, <2>2
<1>7. c.kind = "call" /\ c.index = m /\ c.id = <<>> /\ c.unit = u  BY DEF MoreChunk
<1>8. calls' = [i \in DOMAIN calls |-> MoreOf(c, calls[i])]  BY <1>7 DEF Heard
<1>9. \A r : MoreOf(c, r) = IF r.index = m THEN [r EXCEPT !.args = Append(@, u)] ELSE r
  BY <1>7 DEF MoreOf
<1> HIDE DEF L
<1>10. calls' = [calls EXCEPT ![L].args = Append(@, u)]
  <2> DEFINE more(r) == [r EXCEPT !.args = Append(@, u)]
  <2>3. \A i \in DOMAIN calls : MoreOf(c, calls[i]) = IF i = L THEN more(calls[i]) ELSE calls[i]
    BY <1>6, <1>9
  <2>4. calls' = [i \in DOMAIN calls |-> IF i = L THEN more(calls[i]) ELSE calls[i]]
    <3> HIDE DEF more
    <3> QED  BY <1>8, <2>3
  <2>1. calls' = [i \in DOMAIN calls |->
                    IF i = L THEN [calls[i] EXCEPT !.args = Append(@, u)] ELSE calls[i]]
    BY <2>4
  <2>2. calls \in Seq(CallRec)  BY DEF Typed
  <2> QED  BY <1>6, <2>1, <2>2
<1> QED  BY <1>6, <1>10

\* A chunk of text is one or two fragments more.
LEMMA SaysMore ==
  ASSUME NEW t \in Seq(Fragment), NEW us \in Seq(Fragment), Len(us) \in 1 .. 2
  PROVE  \E f, g \in Fragment : t \o us \in {Append(t, f), t \o <<f, g>>}
<1>1. CASE Len(us) = 1
  <2>1. us[1] \in Fragment /\ us = <<us[1]>>  BY <1>1
  <2>2. t \o <<us[1]>> = Append(t, us[1])  BY <2>1, AppendFacts
  <2>3. t \o us = Append(t, us[1])  BY <2>1, <2>2
  <2> QED  BY <2>1, <2>3
<1>2. CASE Len(us) = 2
  <2> DEFINE f == us[1]
             g == us[2]
  <2>3. f \in Fragment /\ g \in Fragment  BY <1>2
  <2>1. f \in Fragment /\ g \in Fragment /\ us = <<f, g>>
    <3>1. us[1] = f /\ us[2] = g  OBVIOUS
    <3> HIDE DEF f, g
    <3> DEFINE v == <<f, g>>
    <3>2. v \in Seq(Fragment) /\ Len(v) = 2 /\ v[1] = f /\ v[2] = g  BY <2>3
    <3> HIDE DEF v
    <3>3. \A i \in 1 .. Len(us) : i = 1 \/ i = 2  BY <1>2
    <3>4. us = v  BY <1>2, <3>1, <3>2, <3>3, SeqEqual
    <3> QED  BY <2>3, <3>4 DEF v
  <2> HIDE DEF f, g
  <2>2. t \o us = t \o <<f, g>>  BY <2>1
  <2> QED  BY <2>1, <2>2
<1>3. Len(us) = 1 \/ Len(us) = 2  OBVIOUS
<1> QED  BY <1>1, <1>2, <1>3

\* What the consumer hears is a step of the chat stream.
LEMMA DeliverChat ==
  ASSUME DialectsInv, DialectsInv', Deliver
  PROVE  Chat!Next
<1> DEFINE c == Head(outbox)
<1>1. /\ Typed /\ InPlace /\ AnthropicInv /\ WholeInv /\ Typed' /\ WholeInv'
  BY DEF DialectsInv
<1>2. /\ Heard(c) /\ c \in Chunk /\ outbox \in Seq(Chunk) /\ outbox # <<>>
      /\ WellMade(c)
  BY <1>1, DeliverHeard, ChunkKinds DEF Deliver, Typed
<1>3. /\ role' = TRUE /\ finish = "none"
      /\ Arranged(outbox, ~role, stage = "sent", FullFinish)
      /\ c = outbox[1] /\ 1 \in 1 .. Len(outbox)
  BY <1>1, RoleHeard
<1>4. text \in Seq(Fragment) /\ calls \in Seq(CallRec) /\ role \in BOOLEAN  BY <1>1 DEF Typed
<1>5. c.kind # "role" => role = TRUE  BY <1>3, <1>4 DEF Arranged
<1>6. c.kind # "content" => text' = text
  <2>1. text \o <<>> = text  BY <1>4
  <2>2. text' = text \o TextOf(c)  BY <1>2 DEF Heard
  <2>3. c.kind # "content" => TextOf(c) = <<>>  BY DEF TextOf
  <2> HIDE DEF c
  <2> QED  BY <2>1, <2>2, <2>3
<1>7. c.kind # "finish" => finish' = finish  BY <1>2 DEF Heard
<1>8. c.kind # "call" => calls' = calls  BY <1>2 DEF Heard
<1>9. c.kind \in {"role", "content", "call", "finish"}  BY <1>2 DEF WellMade
<1>10. CASE c.kind = "role"
  <2>1. ~role  BY <1>3, <1>10 DEF Arranged
  <2> HIDE DEF c
  <2>2. Chat!Role  BY <1>3, <1>6, <1>7, <1>8, <1>10, <2>1 DEF Chat!Role
  <2> QED  BY <2>2 DEF Chat!Next
<1>11. CASE c.kind = "content"
  <2>1. c.units \in Seq(Fragment) /\ Len(c.units) \in 1 .. 2
    BY <1>2, <1>3, <1>11 DEF WellMade, Arranged
  <2>2. text' = text \o c.units  BY <1>2, <1>11 DEF Heard, TextOf
  <2>3. \E f, g \in Fragment : text' \in {Append(text, f), text \o <<f, g>>}
    BY <1>4, <2>1, <2>2, SaysMore
  <2>4. role' = role /\ calls' = calls /\ finish' = finish /\ role
    BY <1>3, <1>5, <1>7, <1>8, <1>11
  <2> HIDE DEF c
  <2>5. Chat!Say  BY <1>3, <2>3, <2>4 DEF Chat!Say, Fragment
  <2> QED  BY <2>5 DEF Chat!Next
<1>12. CASE c.kind = "finish"
  <2>1. Len(outbox) = 1 /\ stage = "sent" /\ c.why = FullFinish /\ c = FinishChunk(c.why)
    BY <1>2, <1>3, <1>12 DEF Arranged, WellMade
  <2>2. outbox = <<FinishChunk(FullFinish)>>  BY <1>2, <1>3, <2>1
  <2>3. [k \in DOMAIN calls |-> calls[k].args] = FullCalls
    BY <1>1, <2>1, <2>2, AllHeard DEF OnlyFinishLeft
  <2>4. finish' = FullFinish  BY <1>2, <1>12, <2>1 DEF Heard
  <2>5. FullFinish \in Finishes /\ (FullFinish = "tool_calls" => FullCalls # <<>>)
    BY <1>1, FinishFacts, FullCallsFacts DEF Typed
  <2>6. FullCalls # <<>> => calls # <<>>
    <3> SUFFICES ASSUME calls = <<>> PROVE FullCalls = <<>>  OBVIOUS
    <3>1. FullCalls = [k \in {} |-> calls[k].args]  BY <2>3
    <3> QED  BY <3>1
  <2>7. role' = role /\ text' = text /\ calls' = calls /\ role
    BY <1>3, <1>5, <1>6, <1>8, <1>12
  <2> HIDE DEF c
  <2>8. Chat!Finish  BY <1>3, <2>4, <2>5, <2>6, <2>7 DEF Chat!Finish, Finishes
  <2> QED  BY <2>8 DEF Chat!Next
<1>13. CASE c.kind = "call" /\ c.id # <<>>
  <2>1. OpensNew(c)
    <3>1. CASE dialect # "anthropic"  BY <1>1, <1>13, <3>1, WholeOpensNew
    <3>2. CASE dialect = "anthropic"
      <4>1. CallsInv  BY <1>1, <3>2, AnthropicIs
      <4>2. PICK m \in 0 .. MaxBlocks :
              /\ m + 1 \in CallBlocks /\ m + 1 \in 1 .. MaxBlocks
              /\ \/ c = OpenChunk(m, m + 1, <<m + 1, 1>>) /\ calls = CallsAfter(CallBlocks, 2 * m)
                 \/ c = MoreChunk(m, <<m + 1, 2>>) /\ calls = CallsAfter(CallBlocks, 2 * m + 1)
        BY <1>1, <1>2, <1>13, <3>2, <4>1, CallOnItsWay
      <4>3. MoreChunk(m, <<m + 1, 2>>).id = <<>>  BY DEF MoreChunk
      <4>4. c = OpenChunk(m, m + 1, <<m + 1, 1>>) /\ calls = CallsAfter(CallBlocks, 2 * m)
        BY <1>13, <4>2, <4>3
      <4> QED  BY <1>1, <4>2, <4>4, AnthropicOpensNew
    <3> QED  BY <3>1, <3>2
  <2>2. c.unit \in Fragment  BY <1>2, <1>13 DEF WellMade
  <2> DEFINE new == [index |-> c.index, id |-> c.id[1], args |-> <<c.unit>>]
  <2>3. calls' = Append(calls, new)
    <3>1. CallsOf(c) = <<new>> /\ calls' = calls \o CallsOf(c)  BY <1>2, <1>13 DEF CallsOf, Heard
    <3>2. new \in CallRec
      <4>1. c.index \in Nat /\ c.id[1] \in Nat  BY <1>2, <1>13 DEF WellMade
      <4>2. <<c.unit>> \in Seq(Fragment)  BY <2>2
      <4> QED  BY <4>1, <4>2 DEF CallRec
    <3> HIDE DEF new, c
    <3>3. calls \o <<new>> = Append(calls, new)  BY <1>4, <3>2, AppendFacts
    <3> QED  BY <3>1, <3>3
  <2>4. c.index \in (0 .. MaxBlocks) \ Chat!Indexes /\ c.id[1] \in (0 .. MaxBlocks) \ Chat!Ids
    BY <2>1 DEF OpensNew, Chat!Indexes, Chat!Ids
  <2>5. role' = role /\ text' = text /\ finish' = finish /\ role
    BY <1>3, <1>5, <1>6, <1>7, <1>13
  <2> HIDE DEF c
  <2>6. Chat!OpenCall
    <3>1. \E i \in (0 .. MaxBlocks) \ Chat!Indexes, n \in (0 .. MaxBlocks) \ Chat!Ids,
             f \in Fragment : calls' = Append(calls, [index |-> i, id |-> n, args |-> <<f>>])
      BY <2>2, <2>3, <2>4
    <3> QED  BY <1>3, <2>5, <3>1 DEF Chat!OpenCall, Fragment
  <2> QED  BY <2>6 DEF Chat!Next
<1>14. CASE c.kind = "call" /\ c.id = <<>>
  <2>1. dialect = "anthropic"  BY <1>1, <1>3, <1>14 DEF WholeInv
  <2>2. CallsInv  BY <1>1, <2>1, AnthropicIs
  <2>3. PICK m \in 0 .. MaxBlocks :
          /\ m + 1 \in CallBlocks /\ m + 1 \in 1 .. MaxBlocks
          /\ \/ c = OpenChunk(m, m + 1, <<m + 1, 1>>) /\ calls = CallsAfter(CallBlocks, 2 * m)
             \/ c = MoreChunk(m, <<m + 1, 2>>) /\ calls = CallsAfter(CallBlocks, 2 * m + 1)
    BY <1>1, <1>2, <1>14, <2>1, <2>2, CallOnItsWay
  <2> DEFINE u == <<m + 1, 2>>
  <2>4. OpenChunk(m, m + 1, <<m + 1, 1>>).id # <<>>  BY DEF OpenChunk
  <2>5. c = MoreChunk(m, u) /\ calls = CallsAfter(CallBlocks, 2 * m + 1)
    BY <1>14, <2>3, <2>4
  <2>6. u \in Fragment /\ m \in Nat  BY <2>3, DialectsAssumption DEF Fragment
  <2> HIDE DEF u, c
  <2>7. \E k \in DOMAIN calls : calls' = [calls EXCEPT ![k].args = Append(@, u)]
    BY <1>1, <1>2, <2>3, <2>5, <2>6, MoreToLast
  <2>8. role' = role /\ text' = text /\ finish' = finish /\ role
    BY <1>3, <1>5, <1>6, <1>7, <1>14
  <2>9. Chat!MoreArguments
    <3>1. \E k \in DOMAIN calls, f \in Fragment :
            calls' = [calls EXCEPT ![k].args = Append(@, f)]
      BY <2>6, <2>7
    <3> QED  BY <1>3, <2>8, <3>1 DEF Chat!MoreArguments, Fragment
  <2> QED  BY <2>9 DEF Chat!Next
<1> QED  BY <1>9, <1>10, <1>11, <1>12, <1>13, <1>14

\* However the upstream cuts its answer into events, the chunks are a chat stream:
\* the role first, calls under an index and an id of their own before they get more
\* arguments, one finish_reason after which nothing comes, and which says tool_calls
\* only when there are some (anthropic.py:495-581, gemini.py:235-306,
\* ollama_native.py:292-341).  Every step of the translator and its consumer is a
\* step of ChatStream or changes nothing of it.
THEOREM DialectsChatProtocol == Spec => ChatProtocol
<1>1. Init => Chat!Init  BY DEF Init, Chat!Init
<1>2. DialectsInv /\ DialectsInv' /\ [Next]_vars => [Chat!Next]_(Chat!vars)
  <2> SUFFICES ASSUME DialectsInv, DialectsInv', [Next]_vars
               PROVE  [Chat!Next]_(Chat!vars)
    OBVIOUS
  <2>1. CASE Deliver
    <3>1. Chat!Next  BY <2>1, DeliverChat
    <3> QED  BY <3>1
  <2>2. CASE ~Deliver
    <3>1. UNCHANGED <<role, text, calls, finish>>
      BY <2>2 DEF Next, vars, consumer, MessageStart, BlockStart, BlockDelta, BlockStop,
            MessageDelta, MessageStop, GeminiChunk, OllamaStart, OllamaLine, BreakOff,
            EndMessage
    <3> QED  BY <3>1 DEF Chat!vars
  <2> QED  BY <2>1, <2>2
<1> QED  BY <1>1, <1>2, DialectsInvariant, PTL DEF Spec, ChatProtocol, Chat!Spec
=============================================================================
