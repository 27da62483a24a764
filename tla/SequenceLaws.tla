---------------------------- MODULE SequenceLaws ----------------------------
(***************************************************************************)
(* What FlattenSeq of SequencesExt does, for the proofs about streams and  *)
(* messages that are put together from pieces: it adds the pieces of the   *)
(* last sequence to those before.  The induction is over a set of numbers  *)
(* (a least number outside it), for the provers do not instantiate         *)
(* operator parameters.                                                    *)
(***************************************************************************)
EXTENDS Integers, Sequences, SequencesExt, SequenceTheorems, WellFoundedInduction, TLAPS

\* A set of numbers has a least one.
LEMMA LeastNumber ==
  ASSUME NEW T, T \subseteq Nat, T # {}
  PROVE  \E m \in T : \A k \in T : ~(k < m)
<1> DEFINE R == OpToRel(<, Nat)
<1>1. IsWellFoundedOn(R, Nat)  BY NatLessThanWellFounded
<1>2. \A a, b \in Nat : <<a, b>> \in R <=> a < b  BY DEF OpToRel
<1> HIDE DEF R
<1>3. PICK x \in T : \A y \in T : ~(<<y, x>> \in R)  BY <1>1, WFMin
<1> QED  BY <1>2, <1>3

\* Induction over the numbers up to a bound.
LEMMA InductionUpTo ==
  ASSUME NEW n \in Nat, NEW T, 0 \in T,
         \A i \in 0 .. n - 1 : i \in T => i + 1 \in T
  PROVE  0 .. n \subseteq T
<1> SUFFICES ASSUME (0 .. n) \ T # {} PROVE FALSE  OBVIOUS
<1> DEFINE Missing == (0 .. n) \ T
<1>1. PICK m \in Missing : \A k \in Missing : ~(k < m)
  <2>1. Missing \subseteq Nat /\ Missing # {}  OBVIOUS
  <2> HIDE DEF Missing
  <2> QED  BY <2>1, LeastNumber
<1>2. m # 0 /\ m - 1 \in 0 .. n - 1 /\ m - 1 \in 0 .. n  BY <1>1
<1>3. m - 1 \in T  BY <1>1, <1>2
<1>4. m - 1 + 1 \in T  BY <1>2, <1>3
<1> QED  BY <1>1, <1>4

-----------------------------------------------------------------------------
\* Sequences to be flattened; kept opaque, for the prover loses its way in
\* sequences of sequences.
SeqOfSeqs(S) == Seq(Seq(S))

\* f[i] is the concatenation of the first i sequences of ss.
Joins(f, ss, n) ==
  f = [i \in 1 .. n |-> IF i = 1 THEN ss[i] ELSE f[i - 1] \o ss[i]]

LEMMA JoinsAt ==
  ASSUME NEW ss, NEW n \in Nat, NEW f, Joins(f, ss, n), NEW i \in 1 .. n
  PROVE  f[i] = IF i = 1 THEN ss[i] ELSE f[i - 1] \o ss[i]
<1> DEFINE h(j) == IF j = 1 THEN ss[j] ELSE f[j - 1] \o ss[j]
<1>1. f = [j \in 1 .. n |-> h(j)]  BY DEF Joins
<1> HIDE DEF h
<1>2. f[i] = h(i)  BY <1>1
<1> QED  BY <1>2 DEF h

LEMMA JoinsExists ==
  ASSUME NEW S, NEW ss \in SeqOfSeqs(S)
  PROVE  \E f : Joins(f, ss, Len(ss))
<1> DEFINE T == {n \in Nat : \E f : Joins(f, ss, n)}
<1>1. 0 \in T
  <2>1. Joins([i \in 1 .. 0 |-> <<>>], ss, 0)  BY DEF Joins
  <2> QED  BY <2>1
<1>2. ASSUME NEW n \in 0 .. Len(ss) - 1, n \in T  PROVE n + 1 \in T
  <2>1. PICK f : Joins(f, ss, n)  BY <1>2
  <2>2. \A i \in 1 .. n : f[i] = IF i = 1 THEN ss[i] ELSE f[i - 1] \o ss[i]
    <3> SUFFICES ASSUME NEW i \in 1 .. n
                 PROVE  f[i] = IF i = 1 THEN ss[i] ELSE f[i - 1] \o ss[i]
      OBVIOUS
    <3>1. n \in Nat  OBVIOUS
    <3> QED  BY <2>1, <3>1, JoinsAt
  <2> DEFINE g == [i \in 1 .. n + 1 |->
                     IF i <= n THEN f[i] ELSE IF i = 1 THEN ss[i] ELSE f[i - 1] \o ss[i]]
             h == [i \in 1 .. n + 1 |-> IF i = 1 THEN ss[i] ELSE g[i - 1] \o ss[i]]
  <2>3. ASSUME NEW i \in 1 .. n + 1  PROVE g[i] = h[i]
    <3>1. CASE i <= n
      <4>1. f[i] = IF i = 1 THEN ss[i] ELSE f[i - 1] \o ss[i]  
        <5>1. i \in 1 .. n  BY <3>1
        <5> QED  BY <2>2, <5>1
      <4> QED  BY <3>1, <4>1
    <3>2. CASE ~(i <= n)  BY <3>2
    <3> QED  BY <3>1, <3>2
  <2>4. g = h  BY <2>3
  <2>5. Joins(g, ss, n + 1)  BY <2>4 DEF Joins
  <2> QED  BY <2>5
<1> HIDE DEF T
<1>3. Len(ss) \in Nat  OBVIOUS
<1>4. 0 .. Len(ss) \subseteq T  BY <1>1, <1>2, <1>3, InductionUpTo
<1>5. Len(ss) \in T  BY <1>3, <1>4
<1> QED  BY <1>5 DEF T

\* Two such functions agree where both are defined, also when one is for a
\* sequence that goes on.
Begins(ss, tt, n) == \A i \in 1 .. n : ss[i] = tt[i]

LEMMA JoinsAgree ==
  ASSUME NEW ss, NEW tt, NEW n \in Nat, NEW m \in Nat, NEW f, NEW g,
         Joins(f, ss, n), Joins(g, tt, m), n <= m, Begins(ss, tt, n)
  PROVE  \A i \in 1 .. n : f[i] = g[i]
<1> DEFINE T == {i \in Nat : i \in 1 .. n => f[i] = g[i]}
<1>1. 0 \in T  OBVIOUS
<1>2. ASSUME NEW i \in 0 .. n - 1, i \in T  PROVE i + 1 \in T
  <2>1. f[i + 1] = IF i + 1 = 1 THEN ss[i + 1] ELSE f[i + 1 - 1] \o ss[i + 1]
    <3>1. i + 1 \in 1 .. n  OBVIOUS
    <3> QED  BY <3>1, JoinsAt
  <2>2. g[i + 1] = IF i + 1 = 1 THEN tt[i + 1] ELSE g[i + 1 - 1] \o tt[i + 1]
    <3>1. i + 1 \in 1 .. m  OBVIOUS
    <3> QED  BY <3>1, JoinsAt
  <2>3. i = 0 \/ f[i] = g[i]  BY <1>2
  <2>4. ss[i + 1] = tt[i + 1]  BY DEF Begins
  <2> QED  BY <2>1, <2>2, <2>3, <2>4
<1> HIDE DEF T
<1>3. 0 .. n \subseteq T  BY <1>1, <1>2, InductionUpTo
<1> QED  BY <1>3 DEF T

LEMMA FlattenIsJoin ==
  ASSUME NEW S, NEW ss \in SeqOfSeqs(S), ss # <<>>,
         NEW f, Joins(f, ss, Len(ss))
  PROVE  FlattenSeq(ss) = f[Len(ss)]
<1> DEFINE g == CHOOSE g : Joins(g, ss, Len(ss))
<1>1. Joins(g, ss, Len(ss))  OBVIOUS
<1>2. FlattenSeq(ss) = g[Len(ss)]  BY DEF FlattenSeq, Joins
<1> HIDE DEF g
<1>3. Len(ss) \in 1 .. Len(ss)  OBVIOUS
<1>4. Begins(ss, ss, Len(ss))  BY DEF Begins
<1>5. \A i \in 1 .. Len(ss) : f[i] = g[i]  BY <1>1, <1>3, <1>4, JoinsAgree
<1> QED  BY <1>2, <1>3, <1>5

\* Flattening nothing gives nothing; a sequence more adds its elements at the end.
LEMMA FlattenAppend ==
  ASSUME NEW S, NEW ss \in SeqOfSeqs(S), NEW s \in Seq(S)
  PROVE  /\ FlattenSeq(<<>>) = <<>>
         /\ FlattenSeq(Append(ss, s)) = FlattenSeq(ss) \o s
<1>1. FlattenSeq(<<>>) = <<>>  BY DEF FlattenSeq
<1> DEFINE tt == Append(ss, s)
<1>2. /\ tt \in SeqOfSeqs(S) /\ tt # <<>> /\ Len(tt) = Len(ss) + 1 /\ Len(ss) \in Nat
      /\ \A i \in 1 .. Len(ss) : ss[i] = tt[i]
      /\ tt[Len(tt)] = s
  BY AppendProperties, LenProperties DEF SeqOfSeqs
<1> HIDE DEF tt
<1>3. PICK g : Joins(g, tt, Len(tt))  BY <1>2, JoinsExists
<1>4. FlattenSeq(tt) = g[Len(tt)]  BY <1>2, <1>3, FlattenIsJoin
<1>5. g[Len(tt)] = IF Len(tt) = 1 THEN s ELSE g[Len(tt) - 1] \o s
  <2>1. Len(tt) \in 1 .. Len(tt)  BY <1>2
  <2> QED  BY <1>2, <1>3, <2>1, JoinsAt
<1>6. CASE ss = <<>>
  <2>1. Len(tt) = 1  BY <1>2, <1>6
  <2>2. FlattenSeq(ss) \o s = s  BY <1>1, <1>6
  <2> QED  BY <1>1, <1>4, <1>5, <2>1, <2>2 DEF tt
<1>7. CASE ss # <<>>
  <2>1. PICK f : Joins(f, ss, Len(ss))  BY JoinsExists
  <2>2. FlattenSeq(ss) = f[Len(ss)]  BY <1>7, <2>1, FlattenIsJoin
  <2>3. Len(ss) \in 1 .. Len(ss) /\ Len(tt) # 1 /\ Len(tt) - 1 = Len(ss)  BY <1>2, <1>7
  <2>4. f[Len(ss)] = g[Len(ss)]
    <3>1. /\ Len(ss) \in Nat /\ Len(tt) \in Nat /\ Len(ss) <= Len(tt)
          /\ Begins(ss, tt, Len(ss))
      BY <1>2 DEF Begins
    <3>2. \A i \in 1 .. Len(ss) : f[i] = g[i]
      BY <1>3, <2>1, <3>1, JoinsAgree
    <3> QED  BY <2>3, <3>2
  <2> QED  BY <1>1, <1>4, <1>5, <2>2, <2>3, <2>4 DEF tt
<1> QED  BY <1>6, <1>7

LEMMA FlattenType ==
  ASSUME NEW S, NEW ss \in SeqOfSeqs(S)
  PROVE  FlattenSeq(ss) \in Seq(S)
<1> DEFINE T == {n \in Nat : n <= Len(ss) => FlattenSeq(SubSeq(ss, 1, n)) \in Seq(S)}
<1>1. 0 \in T
  <2>1. SubSeq(ss, 1, 0) = <<>>  OBVIOUS
  <2>2. FlattenSeq(<<>>) = <<>>  BY DEF FlattenSeq
  <2>3. FlattenSeq(SubSeq(ss, 1, 0)) \in Seq(S)  BY <2>1, <2>2, EmptySeq
  <2> QED  BY <2>3
<1>2. ASSUME NEW n \in 0 .. Len(ss) - 1, n \in T  PROVE n + 1 \in T
  <2>1. /\ SubSeq(ss, 1, n + 1) = Append(SubSeq(ss, 1, n), ss[n + 1])
        /\ SubSeq(ss, 1, n) \in SeqOfSeqs(S) /\ ss[n + 1] \in Seq(S)
    BY DEF SeqOfSeqs
  <2>2. FlattenSeq(SubSeq(ss, 1, n)) \in Seq(S)  BY <1>2
  <2>3. FlattenSeq(SubSeq(ss, 1, n + 1)) = FlattenSeq(SubSeq(ss, 1, n)) \o ss[n + 1]
    BY <2>1, FlattenAppend
  <2>4. FlattenSeq(SubSeq(ss, 1, n + 1)) \in Seq(S)  BY <2>1, <2>2, <2>3, ConcatProperties
  <2> QED  BY <2>4
<1> HIDE DEF T
<1>3. Len(ss) \in Nat  OBVIOUS
<1>4. 0 .. Len(ss) \subseteq T  BY <1>1, <1>2, <1>3, InductionUpTo
<1>5. Len(ss) \in T  BY <1>3, <1>4
<1>6. SubSeq(ss, 1, Len(ss)) = ss  BY SubSeqFull DEF SeqOfSeqs
<1>7. FlattenSeq(SubSeq(ss, 1, Len(ss))) \in Seq(S)  BY <1>3, <1>5 DEF T
<1> HIDE DEF T
<1> QED  BY <1>6, <1>7

LEMMA Associative ==
  ASSUME NEW S
  PROVE  \A s, t, u \in Seq(S) : (s \o t) \o u = s \o (t \o u)
<1> SUFFICES ASSUME NEW s \in Seq(S), NEW t \in Seq(S), NEW u \in Seq(S)
             PROVE  (s \o t) \o u = s \o (t \o u)
  OBVIOUS
<1> QED  BY ConcatAssociative

LEMMA ConcatAppend ==
  ASSUME NEW S, NEW s \in Seq(S), NEW t \in Seq(S), NEW e \in S
  PROVE  s \o Append(t, e) = Append(s \o t, e) /\ s \o t \in Seq(S)
OBVIOUS

LEMMA ConcatEmpty ==
  ASSUME NEW S
  PROVE  \A s \in Seq(S) : <<>> \o s = s /\ s \o <<>> = s
OBVIOUS

LEMMA FlattenConcat ==
  ASSUME NEW S, NEW ss \in SeqOfSeqs(S), NEW tt \in SeqOfSeqs(S)
  PROVE  FlattenSeq(ss \o tt) = FlattenSeq(ss) \o FlattenSeq(tt)
<1> DEFINE Law(n) == FlattenSeq(ss \o SubSeq(tt, 1, n))
                       = FlattenSeq(ss) \o FlattenSeq(SubSeq(tt, 1, n))
           T == {n \in Nat : n <= Len(tt) => Law(n)}
<1>1. 0 \in T
  <2>1. SubSeq(tt, 1, 0) = <<>> /\ ss \o <<>> = ss  OBVIOUS
  <2>2. FlattenSeq(<<>>) = <<>>  BY DEF FlattenSeq
  <2>3. FlattenSeq(ss) \in Seq(S)  BY FlattenType
  <2>4. FlattenSeq(ss) \o <<>> = FlattenSeq(ss)  BY <2>3, ConcatEmptySeq
  <2>5. Law(0)  BY <2>1, <2>2, <2>4
  <2> QED  BY <2>5
<1>2. ASSUME NEW n \in 0 .. Len(tt) - 1, n \in T  PROVE n + 1 \in T
  <2> DEFINE t == SubSeq(tt, 1, n)
             u == tt[n + 1]
  <2>1. /\ SubSeq(tt, 1, n + 1) = Append(t, u)
        /\ t \in SeqOfSeqs(S) /\ u \in Seq(S)
    BY DEF SeqOfSeqs
  <2>2. FlattenSeq(ss \o t) = FlattenSeq(ss) \o FlattenSeq(t)  BY <1>2
  <2> HIDE DEF t, u
  <2>3. ss \o Append(t, u) = Append(ss \o t, u) /\ ss \o t \in SeqOfSeqs(S)
    BY <2>1, ConcatAppend DEF SeqOfSeqs
  <2>4. FlattenSeq(ss \o Append(t, u)) = FlattenSeq(ss \o t) \o u
    BY <2>1, <2>3, FlattenAppend
  <2>5. FlattenSeq(Append(t, u)) = FlattenSeq(t) \o u  BY <2>1, FlattenAppend
  <2>6. FlattenSeq(ss) \in Seq(S) /\ FlattenSeq(t) \in Seq(S)  BY <2>1, FlattenType
  <2>7. (FlattenSeq(ss) \o FlattenSeq(t)) \o u = FlattenSeq(ss) \o (FlattenSeq(t) \o u)
    <3> DEFINE x == FlattenSeq(ss)
               y == FlattenSeq(t)
    <3>1. x \in Seq(S) /\ y \in Seq(S) /\ u \in Seq(S)  BY <2>1, <2>6
    <3> HIDE DEF x, y
    <3>2. (x \o y) \o u = x \o (y \o u)  BY ONLY <3>1, Associative, SMTT(30)
    <3> QED  BY <3>2 DEF x, y
  <2>8. Law(n + 1)  BY <2>1, <2>2, <2>4, <2>5, <2>7
  <2> HIDE DEF Law
  <2> QED  BY <2>8
<1> HIDE DEF T, Law
<1>3. Len(tt) \in Nat  OBVIOUS
<1>4. 0 .. Len(tt) \subseteq T  BY <1>1, <1>2, <1>3, InductionUpTo
<1>5. Law(Len(tt))  BY <1>3, <1>4 DEF T
<1>6. SubSeq(tt, 1, Len(tt)) = tt  BY SubSeqFull DEF SeqOfSeqs
<1> QED  BY <1>5, <1>6 DEF Law

-----------------------------------------------------------------------------
\* A prefix, element by element.
LEMMA PrefixIs ==
  ASSUME NEW S, NEW s \in Seq(S), NEW t \in Seq(S)
  PROVE  IsPrefix(s, t) <=> Len(s) <= Len(t) /\ \A i \in 1 .. Len(s) : s[i] = t[i]
<1>1. SubSeq(s, 1, Len(s)) = s  BY SubSeqFull
<1>2. ASSUME Len(s) <= Len(t)
      PROVE  /\ SubSeq(t, 1, Len(s)) \in Seq(S)
             /\ Len(SubSeq(t, 1, Len(s))) = Len(s)
             /\ \A i \in 1 .. Len(s) : SubSeq(t, 1, Len(s))[i] = t[i]
  BY <1>2
<1>3. ASSUME Len(s) <= Len(t), \A i \in 1 .. Len(s) : s[i] = t[i]
      PROVE  s = SubSeq(t, 1, Len(s))
  BY <1>2, <1>3, SeqEqual
<1> QED  BY <1>1, <1>2, <1>3 DEF IsPrefix

\* The beginning of a longer sequence.
LEMMA PrefixOfConcat ==
  ASSUME NEW S, NEW s \in Seq(S), NEW t \in Seq(S), NEW u \in Seq(S)
  PROVE  /\ IsPrefix(s, s)
         /\ IsPrefix(s, s \o t)
         /\ IsPrefix(s \o t, u) => IsPrefix(s, u)
         /\ IsPrefix(s, t) => IsPrefix(s, t \o u)
<1>1. /\ s \o t \in Seq(S) /\ Len(s \o t) = Len(s) + Len(t)
      /\ Len(s) \in Nat /\ Len(t) \in Nat
      /\ \A i \in 1 .. Len(s) : (s \o t)[i] = s[i]
  BY ConcatProperties
<1>2. /\ t \o u \in Seq(S) /\ Len(t \o u) = Len(t) + Len(u) /\ Len(u) \in Nat
      /\ \A i \in 1 .. Len(t) : (t \o u)[i] = t[i]
  BY ConcatProperties
<1>3. IsPrefix(s, s) /\ IsPrefix(s, s \o t)
  <2>1. Len(s) <= Len(s \o t)  BY <1>1
  <2>2. IsPrefix(s, s)  BY PrefixIs
  <2> QED  BY <1>1, <2>1, <2>2, PrefixIs
<1>4. ASSUME IsPrefix(s \o t, u)  PROVE IsPrefix(s, u)
  <2>1. Len(s \o t) <= Len(u) /\ \A i \in 1 .. Len(s \o t) : (s \o t)[i] = u[i]
    <3> DEFINE r == s \o t
    <3>1. r \in Seq(S)  BY <1>1
    <3>2. IsPrefix(r, u)  BY <1>4
    <3> HIDE DEF r
    <3>3. Len(r) <= Len(u) /\ \A i \in 1 .. Len(r) : r[i] = u[i]  BY <3>1, <3>2, PrefixIs
    <3> QED  BY <3>3 DEF r
  <2>2. Len(s) <= Len(u) /\ \A i \in 1 .. Len(s) : s[i] = u[i]  BY <1>1, <1>2, <2>1
  <2> QED  BY <2>2, PrefixIs
<1>5. ASSUME IsPrefix(s, t)  PROVE IsPrefix(s, t \o u)
  <2>1. Len(s) <= Len(t) /\ \A i \in 1 .. Len(s) : s[i] = t[i]  BY <1>5, PrefixIs
  <2>2. Len(s) <= Len(t \o u) /\ \A i \in 1 .. Len(s) : s[i] = (t \o u)[i]
    BY <1>1, <1>2, <2>1
  <2> QED  BY <1>2, <2>2, PrefixIs
<1> QED  BY <1>3, <1>4, <1>5

-----------------------------------------------------------------------------
\* Induction over the sequences of E, one element more at the end.
LEMMA SeqInduction ==
  ASSUME NEW E, NEW T, <<>> \in T,
         \A s \in Seq(E), e \in E : s \in T => Append(s, e) \in T
  PROVE  Seq(E) \subseteq T
<1> SUFFICES ASSUME NEW s \in Seq(E) PROVE s \in T  OBVIOUS
<1> DEFINE U == {n \in Nat : n <= Len(s) => SubSeq(s, 1, n) \in T}
<1>1. 0 \in U
  <2>1. SubSeq(s, 1, 0) = <<>>  OBVIOUS
  <2> QED  BY <2>1
<1>2. ASSUME NEW n \in 0 .. Len(s) - 1, n \in U  PROVE n + 1 \in U
  <2>1. /\ SubSeq(s, 1, n + 1) = Append(SubSeq(s, 1, n), s[n + 1])
        /\ SubSeq(s, 1, n) \in Seq(E) /\ s[n + 1] \in E
    OBVIOUS
  <2>2. SubSeq(s, 1, n) \in T  BY <1>2
  <2>3. SubSeq(s, 1, n + 1) \in T  BY <2>1, <2>2
  <2> QED  BY <2>3
<1> HIDE DEF U
<1>3. Len(s) \in Nat  OBVIOUS
<1>4. 0 .. Len(s) \subseteq U  BY <1>1, <1>2, <1>3, InductionUpTo
<1>5. SubSeq(s, 1, Len(s)) \in T  BY <1>3, <1>4 DEF U
<1> QED  BY <1>5, SubSeqFull

\* The sequences f gives for the elements of s, one after the other.
Into(f, E, S)  == f \in [E -> S]
Gives(f, E, S) == f \in [E -> Seq(S)]
Pieces(f, s)  == [i \in DOMAIN s |-> f[s[i]]]
FlatMap(f, s) == FlattenSeq(Pieces(f, s))

LEMMA PiecesType ==
  ASSUME NEW E, NEW S, NEW f, Gives(f, E, S), NEW s \in Seq(E)
  PROVE  Pieces(f, s) \in SeqOfSeqs(S)
<1> DEFINE R == Seq(S)
<1>1. f \in [E -> R]  BY DEF Gives
<1> HIDE DEF R
<1>2. Pieces(f, s) \in Seq(R)  BY <1>1 DEF Pieces
<1> QED  BY <1>2 DEF SeqOfSeqs, R

LEMMA PiecesAppend ==
  ASSUME NEW E, NEW S, NEW f \in [E -> S], NEW s \in Seq(E), NEW e \in E
  PROVE  Pieces(f, Append(s, e)) = Append(Pieces(f, s), f[e])
<1>1. Pieces(f, s) \in Seq(S) /\ Len(Pieces(f, s)) = Len(s)  BY DEF Pieces
<1> QED  BY <1>1 DEF Pieces

LEMMA ConcatAt ==
  ASSUME NEW S, NEW u \in Seq(S), NEW v \in Seq(S)
  PROVE  /\ u \o v \in Seq(S) /\ Len(u \o v) = Len(u) + Len(v)
         /\ \A i \in 1 .. Len(u) : (u \o v)[i] = u[i]
         /\ \A i \in 1 .. Len(v) : (u \o v)[Len(u) + i] = v[i]
<1>1. u \o v \in Seq(S) /\ Len(u \o v) = Len(u) + Len(v)  OBVIOUS
<1>2. \A i \in 1 .. Len(u) : (u \o v)[i] = u[i]  OBVIOUS
<1>3. \A i \in 1 .. Len(v) : (u \o v)[Len(u) + i] = v[i]  OBVIOUS
<1> QED  BY <1>1, <1>2, <1>3

LEMMA PiecesConcat ==
  ASSUME NEW E, NEW S, NEW f, Into(f, E, S), NEW s \in Seq(E), NEW t \in Seq(E)
  PROVE  Pieces(f, s \o t) = Pieces(f, s) \o Pieces(f, t)
<1>1. /\ Pieces(f, s) \in Seq(S) /\ Len(Pieces(f, s)) = Len(s)
      /\ Pieces(f, t) \in Seq(S) /\ Len(Pieces(f, t)) = Len(t)
  <2>1. ASSUME NEW r \in Seq(E)  PROVE Pieces(f, r) \in Seq(S) /\ Len(Pieces(f, r)) = Len(r)
    BY ONLY Into(f, E, S) DEF Pieces, Into
  <2> QED  BY <2>1
<1>2. /\ s \o t \in Seq(E) /\ Len(s \o t) = Len(s) + Len(t)
      /\ \A i \in 1 .. Len(s) : (s \o t)[i] = s[i]
      /\ \A i \in 1 .. Len(t) : (s \o t)[Len(s) + i] = t[i]
  BY ConcatProperties
<1>3. Pieces(f, s \o t) \in Seq(S) /\ Len(Pieces(f, s \o t)) = Len(s) + Len(t)
  BY <1>2 DEF Pieces, Into
<1> DEFINE u == Pieces(f, s)
           v == Pieces(f, t)
<1>4. /\ u \o v \in Seq(S) /\ Len(u \o v) = Len(s) + Len(t)
      /\ \A i \in 1 .. Len(s) : (u \o v)[i] = u[i]
      /\ \A i \in 1 .. Len(t) : (u \o v)[Len(s) + i] = v[i]
  <2>1. u \in Seq(S) /\ Len(u) = Len(s) /\ v \in Seq(S) /\ Len(v) = Len(t)  BY <1>1
  <2> HIDE DEF u, v
  <2>2. /\ u \o v \in Seq(S) /\ Len(u \o v) = Len(u) + Len(v)
        /\ \A i \in 1 .. Len(u) : (u \o v)[i] = u[i]
        /\ \A i \in 1 .. Len(v) : (u \o v)[Len(u) + i] = v[i]
    <3>1. ASSUME NEW x \in Seq(S), NEW y \in Seq(S)
          PROVE  /\ x \o y \in Seq(S) /\ Len(x \o y) = Len(x) + Len(y)
                 /\ \A i \in 1 .. Len(x) : (x \o y)[i] = x[i]
                 /\ \A i \in 1 .. Len(y) : (x \o y)[Len(x) + i] = y[i]
      BY ConcatAt
    <3>2. u \in Seq(S) /\ v \in Seq(S)  BY <2>1
    <3> QED  BY ONLY <3>1, <3>2
  <2> QED  BY <2>1, <2>2
<1>5. ASSUME NEW i \in 1 .. Len(s) + Len(t)  PROVE Pieces(f, s \o t)[i] = (u \o v)[i]
  <2>1. Pieces(f, s \o t)[i] = f[(s \o t)[i]]  BY <1>2 DEF Pieces, Into
  <2>2. CASE i \in 1 .. Len(s)
    <3>1. u[i] = f[s[i]]  BY <2>2 DEF Pieces, Into
    <3> QED  BY <1>2, <1>4, <2>1, <2>2, <3>1
  <2>3. CASE i \notin 1 .. Len(s)
    <3>1. PICK j \in 1 .. Len(t) : i = Len(s) + j
      <4>1. i - Len(s) \in 1 .. Len(t) /\ i = Len(s) + (i - Len(s))  BY <2>3
      <4> QED  BY <4>1
    <3>2. v[j] = f[t[j]]  BY DEF Pieces, Into
    <3> QED  BY <1>2, <1>4, <2>1, <3>1, <3>2
  <2> QED  BY <2>2, <2>3
<1> HIDE DEF u, v
<1>6. Pieces(f, s \o t) = u \o v  BY <1>3, <1>4, <1>5, SeqEqual
<1> QED  BY <1>6 DEF u, v

LEMMA FlatMapEmpty ==
  ASSUME NEW f
  PROVE  FlatMap(f, <<>>) = <<>>
<1>1. Pieces(f, <<>>) = <<>>  BY DEF Pieces
<1> QED  BY <1>1 DEF FlatMap, FlattenSeq

LEMMA FlatMapType ==
  ASSUME NEW E, NEW S, NEW f, Gives(f, E, S), NEW s \in Seq(E)
  PROVE  FlatMap(f, s) \in Seq(S)
<1>1. Pieces(f, s) \in SeqOfSeqs(S)  BY PiecesType
<1> QED  BY <1>1, FlattenType DEF FlatMap

LEMMA FlatMapAppend ==
  ASSUME NEW E, NEW S, NEW f, Gives(f, E, S), NEW s \in Seq(E), NEW e \in E
  PROVE  FlatMap(f, Append(s, e)) = FlatMap(f, s) \o f[e]
<1>1. Pieces(f, s) \in SeqOfSeqs(S)  BY PiecesType
<1>2. f[e] \in Seq(S)  BY DEF Gives
<1>3. Pieces(f, Append(s, e)) = Append(Pieces(f, s), f[e])
  <2> DEFINE R == Seq(S)
  <2>1. f \in [E -> R]  BY DEF Gives
  <2> HIDE DEF R
  <2> QED  BY <2>1, PiecesAppend
<1> QED  BY <1>1, <1>2, <1>3, FlattenAppend DEF FlatMap

LEMMA FlatMapConcat ==
  ASSUME NEW E, NEW S, NEW f, Gives(f, E, S), NEW s \in Seq(E), NEW t \in Seq(E)
  PROVE  FlatMap(f, s \o t) = FlatMap(f, s) \o FlatMap(f, t)
<1>1. Pieces(f, s) \in SeqOfSeqs(S) /\ Pieces(f, t) \in SeqOfSeqs(S)  BY PiecesType
<1>2. Pieces(f, s \o t) = Pieces(f, s) \o Pieces(f, t)
  <2> DEFINE R == Seq(S)
  <2>1. Into(f, E, R)  BY DEF Gives, Into
  <2> HIDE DEF R
  <2> QED  BY <2>1, PiecesConcat
<1> QED  BY <1>1, <1>2, FlattenConcat DEF FlatMap

LEMMA FlatMapOne ==
  ASSUME NEW E, NEW S, NEW f, Gives(f, E, S), NEW e \in E
  PROVE  FlatMap(f, <<e>>) = f[e]
<1>1. <<e>> = Append(<<>>, e) /\ <<>> \in Seq(E)  OBVIOUS
<1>2. FlatMap(f, Append(<<>>, e)) = FlatMap(f, <<>>) \o f[e]
  <2> DEFINE s == <<>>
  <2>1. s \in Seq(E)  BY <1>1
  <2> HIDE DEF s
  <2>2. FlatMap(f, Append(s, e)) = FlatMap(f, s) \o f[e]  BY <2>1, FlatMapAppend
  <2> QED  BY <2>2 DEF s
<1>3. f[e] \in Seq(S)  BY DEF Gives
<1>4. <<>> \o f[e] = f[e]  BY <1>3
<1> QED  BY <1>1, <1>2, <1>4, FlatMapEmpty

\* Two flat maps after one another are one.
LEMMA FlatMapTwice ==
  ASSUME NEW E, NEW S, NEW R, NEW f, Gives(f, E, S), NEW g, Gives(g, S, R),
         NEW h, Gives(h, E, R), \A e \in E : h[e] = FlatMap(g, f[e])
  PROVE  \A s \in Seq(E) : FlatMap(g, FlatMap(f, s)) = FlatMap(h, s)
<1> DEFINE T == {s \in Seq(E) : FlatMap(g, FlatMap(f, s)) = FlatMap(h, s)}
<1>1. <<>> \in T
  <2>1. FlatMap(f, <<>>) = <<>> /\ FlatMap(g, <<>>) = <<>> /\ FlatMap(h, <<>>) = <<>>
    BY FlatMapEmpty
  <2> QED  BY <2>1
<1>2. ASSUME NEW s \in Seq(E), NEW e \in E, s \in T  PROVE Append(s, e) \in T
  <2>1. FlatMap(f, Append(s, e)) = FlatMap(f, s) \o f[e]  BY FlatMapAppend
  <2>2. FlatMap(f, s) \in Seq(S) /\ f[e] \in Seq(S)  BY FlatMapType DEF Gives
  <2>3. FlatMap(g, FlatMap(f, s) \o f[e]) = FlatMap(g, FlatMap(f, s)) \o FlatMap(g, f[e])
    BY <2>2, FlatMapConcat
  <2>4. FlatMap(h, Append(s, e)) = FlatMap(h, s) \o h[e]  BY FlatMapAppend
  <2>5. FlatMap(g, FlatMap(f, s)) = FlatMap(h, s)  BY <1>2
  <2>6. Append(s, e) \in Seq(E)  OBVIOUS
  <2> QED  BY <2>1, <2>3, <2>4, <2>5, <2>6
<1> HIDE DEF T
<1>3. Seq(E) \subseteq T  BY <1>1, <1>2, SeqInduction
<1> QED  BY <1>3 DEF T

\* A flat map into single elements is a map, and one into nothing is empty.
Singles(f, s, t) == Len(t) = Len(s) /\ \A i \in 1 .. Len(s) : f[s[i]] = <<t[i]>>
Nothings(f, s)   == \A i \in 1 .. Len(s) : f[s[i]] = <<>>

LEMMA FlatMapIs ==
  ASSUME NEW E, NEW S, NEW f, Gives(f, E, S), NEW s \in Seq(E), NEW t \in Seq(S),
         Singles(f, s, t)
  PROVE  FlatMap(f, s) = t
<1> USE DEF Singles
<1> DEFINE Law(n) == FlatMap(f, SubSeq(s, 1, n)) = SubSeq(t, 1, n)
           T == {n \in Nat : n <= Len(s) => Law(n)}
<1>1. 0 \in T
  <2>1. SubSeq(s, 1, 0) = <<>> /\ SubSeq(t, 1, 0) = <<>>  OBVIOUS
  <2> QED  BY <2>1, FlatMapEmpty
<1>2. ASSUME NEW n \in 0 .. Len(s) - 1, n \in T  PROVE n + 1 \in T
  <2> DEFINE x == SubSeq(s, 1, n)
             e == s[n + 1]
  <2>1. SubSeq(s, 1, n + 1) = Append(x, e) /\ x \in Seq(E) /\ e \in E  OBVIOUS
  <2>2. /\ SubSeq(t, 1, n + 1) = SubSeq(t, 1, n) \o <<t[n + 1]>>
        /\ SubSeq(t, 1, n) \in Seq(S) /\ t[n + 1] \in S
    OBVIOUS
  <2>3. f[e] = <<t[n + 1]>>  OBVIOUS
  <2>4. FlatMap(f, x) = SubSeq(t, 1, n)  BY <1>2
  <2> HIDE DEF x, e
  <2>5. FlatMap(f, Append(x, e)) = FlatMap(f, x) \o f[e]  BY <2>1, FlatMapAppend
  <2>6. Law(n + 1)  BY <2>1, <2>2, <2>3, <2>4, <2>5
  <2> HIDE DEF Law
  <2> QED  BY <2>6
<1> HIDE DEF T, Law
<1>3. Len(s) \in Nat  OBVIOUS
<1>4. 0 .. Len(s) \subseteq T  BY <1>1, <1>2, <1>3, InductionUpTo
<1>5. Law(Len(s))  BY <1>3, <1>4 DEF T
<1>6. SubSeq(s, 1, Len(s)) = s /\ SubSeq(t, 1, Len(t)) = t  BY SubSeqFull
<1> QED  BY <1>5, <1>6 DEF Law

LEMMA FlatMapNothing ==
  ASSUME NEW E, NEW S, NEW f, Gives(f, E, S), NEW s \in Seq(E),
         Nothings(f, s)
  PROVE  FlatMap(f, s) = <<>>
<1> USE DEF Nothings
<1> DEFINE Law(n) == FlatMap(f, SubSeq(s, 1, n)) = <<>>
           T == {n \in Nat : n <= Len(s) => Law(n)}
<1>1. 0 \in T
  <2>1. SubSeq(s, 1, 0) = <<>>  OBVIOUS
  <2> QED  BY <2>1, FlatMapEmpty
<1>2. ASSUME NEW n \in 0 .. Len(s) - 1, n \in T  PROVE n + 1 \in T
  <2> DEFINE x == SubSeq(s, 1, n)
             e == s[n + 1]
  <2>1. SubSeq(s, 1, n + 1) = Append(x, e) /\ x \in Seq(E) /\ e \in E  OBVIOUS
  <2>2. f[e] = <<>>  OBVIOUS
  <2>3. FlatMap(f, x) = <<>>  BY <1>2
  <2> HIDE DEF x, e
  <2>4. FlatMap(f, Append(x, e)) = FlatMap(f, x) \o f[e]  BY <2>1, FlatMapAppend
  <2>5. <<>> \o <<>> = <<>>  OBVIOUS
  <2>6. Law(n + 1)  BY <2>1, <2>2, <2>3, <2>4, <2>5
  <2> HIDE DEF Law
  <2> QED  BY <2>6
<1> HIDE DEF T, Law
<1>3. Len(s) \in Nat  OBVIOUS
<1>4. 0 .. Len(s) \subseteq T  BY <1>1, <1>2, <1>3, InductionUpTo
<1>5. Law(Len(s))  BY <1>3, <1>4 DEF T
<1>6. SubSeq(s, 1, Len(s)) = s  BY SubSeqFull
<1> QED  BY <1>5, <1>6 DEF Law

\* The first element is taken off.
LEMMA FlatMapHead ==
  ASSUME NEW E, NEW S, NEW f, Gives(f, E, S), NEW s \in Seq(E), s # <<>>
  PROVE  /\ Head(s) \in E /\ Tail(s) \in Seq(E)
         /\ FlatMap(f, s) = f[Head(s)] \o FlatMap(f, Tail(s))
<1> DEFINE e == Head(s)
           x == <<e>>
           y == Tail(s)
<1>1. e \in E /\ y \in Seq(E) /\ x \in Seq(E) /\ s = x \o y  OBVIOUS
<1> HIDE DEF x, y, e
<1>2. FlatMap(f, x \o y) = FlatMap(f, x) \o FlatMap(f, y)  BY <1>1, FlatMapConcat
<1>3. FlatMap(f, <<e>>) = f[e]  BY <1>1, FlatMapOne
<1> QED  BY <1>1, <1>2, <1>3 DEF x, y, e

\* Flat maps that give the same for every element.
LEMMA FlatMapSame ==
  ASSUME NEW f, NEW g, NEW s, NEW t, DOMAIN s = DOMAIN t, \A i \in DOMAIN s : f[s[i]] = g[t[i]]
  PROVE  FlatMap(f, s) = FlatMap(g, t)
<1>1. Pieces(f, s) = Pieces(g, t)  BY DEF Pieces
<1> QED  BY <1>1 DEF FlatMap

\* A flat map that nothing of g is left of.
LEMMA FlatMapGone ==
  ASSUME NEW E, NEW S, NEW R, NEW f, Gives(f, E, S), NEW g, Gives(g, S, R),
         \A e \in E : FlatMap(g, f[e]) = <<>>, NEW s \in Seq(E)
  PROVE  FlatMap(g, FlatMap(f, s)) = <<>>
<1> DEFINE z == [e \in E |-> <<>>]
<1>1. Gives(z, E, R)  BY DEF Gives
<1>2. \A e \in E : z[e] = <<>>  OBVIOUS
<1> HIDE DEF z
<1>3. \A e \in E : z[e] = FlatMap(g, f[e])  BY <1>2
<1>4. FlatMap(g, FlatMap(f, s)) = FlatMap(z, s)  BY <1>1, <1>3, FlatMapTwice
<1>5. \A i \in 1 .. Len(s) : s[i] \in E  OBVIOUS
<1>6. Nothings(z, s)  BY <1>2, <1>5 DEF Nothings
<1> QED  BY <1>1, <1>4, <1>6, FlatMapNothing

\* Something is taken out of every element and put in front.  For g this changes
\* nothing when it sees only what is moved, or only what stays.
LEMMA MovedApart ==
  ASSUME NEW E, NEW S, NEW R, NEW a, Gives(a, E, S), NEW b, Gives(b, E, S),
         NEW g, Gives(g, S, R), NEW h, Gives(h, E, R), NEW s \in Seq(E),
         \/ \A e \in E : FlatMap(g, a[e]) = <<>> /\ FlatMap(g, b[e]) = h[e]
         \/ \A e \in E : FlatMap(g, a[e]) = h[e] /\ FlatMap(g, b[e]) = <<>>
  PROVE  FlatMap(g, FlatMap(a, s) \o FlatMap(b, s)) = FlatMap(h, s)
<1>1. FlatMap(a, s) \in Seq(S) /\ FlatMap(b, s) \in Seq(S) /\ FlatMap(h, s) \in Seq(R)
  BY FlatMapType
<1>2. FlatMap(g, FlatMap(a, s) \o FlatMap(b, s))
        = FlatMap(g, FlatMap(a, s)) \o FlatMap(g, FlatMap(b, s))
  BY <1>1, FlatMapConcat
<1>3. CASE \A e \in E : FlatMap(g, a[e]) = <<>> /\ FlatMap(g, b[e]) = h[e]
  <2>1. FlatMap(g, FlatMap(a, s)) = <<>>  BY <1>3, FlatMapGone
  <2>2. FlatMap(g, FlatMap(b, s)) = FlatMap(h, s)  BY <1>3, FlatMapTwice
  <2> QED  BY <1>1, <1>2, <2>1, <2>2
<1>4. CASE \A e \in E : FlatMap(g, a[e]) = h[e] /\ FlatMap(g, b[e]) = <<>>
  <2>1. FlatMap(g, FlatMap(b, s)) = <<>>  BY <1>4, FlatMapGone
  <2>2. FlatMap(g, FlatMap(a, s)) = FlatMap(h, s)  BY <1>4, FlatMapTwice
  <2> QED  BY <1>1, <1>2, <2>1, <2>2
<1> QED  BY <1>3, <1>4
=============================================================================
