------------------------ MODULE ServedStreams_proofs ------------------------
(***************************************************************************)
(* Proofs about ServedStreams for any number of pools, requests and slots. *)
(*                                                                         *)
(* Pools are numbered in the order they are built, and that order is the   *)
(* argument: the pool in use is younger than every pool that is drained or *)
(* being closed, and a pool that is being started is younger than both.    *)
(* Only the shutdown closes a pool out of this order.                      *)
(***************************************************************************)
EXTENDS ServedStreams, FiniteSetTheorems, TLAPS

Up == server \in {"starting", "serving"}

InOrder ==
  /\ current <= built /\ built + queued <= MaxPools
  /\ reloading # 0 => reloading = built /\ current < built
  /\ \A p \in drains : p < current
  /\ \A p \in closing : p <= built /\ (p < current \/ ~Up)
  /\ \A p \in dropped : 1 < p /\ p <= built

\* The pool in use, and the one that will be.
Alive ==
  /\ Up => clients[current] = "open"
  /\ server = "serving" => watcher[current] = "running"
  /\ server = "starting" => watcher[current] = IF current = 1 THEN "new" ELSE "running"
  /\ reloading # 0 => clients[reloading] = "open" /\ watcher[reloading] = "new"
  /\ \A p \in Pools : p > built => clients[p] = "none" /\ watcher[p] = "new"

GenInv == GenTypeOK /\ InOrder /\ Alive /\ NoPoolForgotten

-----------------------------------------------------------------------------
LEMMA PoolsAreNumbers ==
  /\ MaxPools \in Nat /\ MaxPools >= 1
  /\ Pools \subseteq Nat /\ 1 \in Pools /\ 0 \notin Pools
  /\ \A p \in Pools : p >= 1 /\ p <= MaxPools
BY PoolsAssumption DEF Pools

LEMMA GenInitOK == GenInit => GenInv
<1> SUFFICES ASSUME GenInit PROVE GenInv  OBVIOUS
<1> USE DEF GenInit
<1>1. GenTypeOK  BY PoolsAreNumbers DEF GenTypeOK
<1>2. InOrder  BY PoolsAreNumbers DEF InOrder
<1>3. Alive  BY PoolsAreNumbers DEF Alive, Up
<1>4. NoPoolForgotten  BY DEF NoPoolForgotten
<1> QED  BY <1>1, <1>2, <1>3, <1>4 DEF GenInv

LEMMA StartedOK == GenInv /\ Started => GenInv'
<1> SUFFICES ASSUME GenInv, Started PROVE GenInv'  OBVIOUS
<1> USE PoolsAreNumbers DEF GenInv, Started, Watched
<1>1. GenTypeOK'  BY DEF GenTypeOK, taskVars
<1>2. InOrder'  BY DEF GenTypeOK, InOrder, Up, taskVars
<1>3. Alive'  BY DEF GenTypeOK, InOrder, Alive, Up, taskVars
<1>4. NoPoolForgotten'  BY DEF NoPoolForgotten, InOrder, GenTypeOK, taskVars
<1> QED  BY <1>1, <1>2, <1>3, <1>4

LEMMA QueueOK == GenInv /\ Queue => GenInv'
<1> SUFFICES ASSUME GenInv, Queue PROVE GenInv'  OBVIOUS
<1> USE PoolsAreNumbers DEF GenInv, Queue
<1>1. GenTypeOK'  BY DEF GenTypeOK, poolVars
<1>2. InOrder'  BY DEF GenTypeOK, InOrder, Up, poolVars
<1>3. Alive'  BY DEF GenTypeOK, InOrder, Alive, Up, poolVars
<1>4. NoPoolForgotten'  BY DEF NoPoolForgotten, poolVars
<1> QED  BY <1>1, <1>2, <1>3, <1>4

LEMMA BeginReloadOK == GenInv /\ BeginReload => GenInv'
<1> SUFFICES ASSUME GenInv, BeginReload PROVE GenInv'  OBVIOUS
<1> USE PoolsAreNumbers DEF GenInv, BeginReload
<1>0. built + 1 \in Pools /\ queued - 1 \in Nat
  BY DEF GenTypeOK, InOrder, Pools
<1>1. GenTypeOK'  BY <1>0 DEF GenTypeOK
<1>2. InOrder'  BY <1>0 DEF GenTypeOK, InOrder, Up
<1>3. Alive'  BY <1>0 DEF GenTypeOK, InOrder, Alive, Up
<1>4. ASSUME NEW p \in 1 .. built', clients'[p] = "open"
      PROVE  p \in {current', reloading'} \cup drains' \cup closing' \cup dropped'
  <2>1. CASE p = built + 1  BY <2>1
  <2>2. CASE p \in 1 .. built
    <3>1. clients[p] = "open"  BY <1>0, <1>4, <2>2 DEF GenTypeOK
    <3>2. p # 0  BY <2>2
    <3> QED  BY <2>2, <3>1, <3>2 DEF NoPoolForgotten
  <2> QED  BY <1>0, <1>4, <2>1, <2>2 DEF GenTypeOK
<1>5. ASSUME NEW p \in dropped
      PROVE  p \notin {current', reloading'} \cup drains' \cup closing' /\ watcher'[p] = "new"
  BY DEF NoPoolForgotten, InOrder, GenTypeOK
<1>6. NoPoolForgotten'  BY <1>4, <1>5 DEF NoPoolForgotten
<1> QED  BY <1>1, <1>2, <1>3, <1>6

\* The pool that is left unclosed is younger than any other.
LEMMA FailReloadOK == GenInv /\ FailReload => GenInv'
<1> SUFFICES ASSUME GenInv, FailReload PROVE GenInv'  OBVIOUS
<1> USE PoolsAreNumbers DEF GenInv, FailReload
<1>0. built + 1 \in Pools /\ queued - 1 \in Nat
  BY DEF GenTypeOK, InOrder, Pools
<1>1. CASE UNCHANGED <<built, clients, dropped>>
  BY <1>0, <1>1 DEF GenTypeOK, InOrder, Up, Alive, NoPoolForgotten
<1>2. CASE ~UNCHANGED <<built, clients, dropped>>
  <2>1. /\ built' = built + 1 /\ clients' = [clients EXCEPT ![built + 1] = "open"]
        /\ dropped' = dropped \cup {built + 1}
    BY <1>2
  <2>2. GenTypeOK'  BY <1>0, <2>1 DEF GenTypeOK
  <2>3. InOrder'  BY <1>0, <2>1 DEF GenTypeOK, InOrder, Up
  <2>4. Alive'  BY <1>0, <2>1 DEF GenTypeOK, InOrder, Alive, Up
  <2>5. built + 1 \notin {current, reloading} \cup drains \cup closing
    <3>1. current <= built /\ reloading = 0 /\ (\A p \in drains : p < current)
      BY DEF InOrder
    <3>2. \A p \in closing : p <= built  BY DEF InOrder
    <3> QED  BY <1>0, <3>1, <3>2 DEF GenTypeOK
  <2>6. ASSUME NEW p \in 1 .. built', clients'[p] = "open"
        PROVE  p \in {current', reloading'} \cup drains' \cup closing' \cup dropped'
    <3>1. CASE p = built + 1  BY <2>1, <3>1
    <3>2. CASE p \in 1 .. built
      <4>1. clients[p] = "open"  BY <1>0, <2>1, <2>6, <3>2 DEF GenTypeOK
      <4> QED  BY <2>1, <3>2, <4>1 DEF NoPoolForgotten
    <3> QED  BY <1>0, <2>1, <3>1, <3>2 DEF GenTypeOK
  <2>7. ASSUME NEW p \in dropped'
        PROVE  p \notin {current', reloading'} \cup drains' \cup closing' /\ watcher'[p] = "new"
    BY <1>0, <2>1, <2>5, <2>7 DEF NoPoolForgotten, Alive, GenTypeOK
  <2> QED  BY <2>2, <2>3, <2>4, <2>6, <2>7 DEF NoPoolForgotten
<1> QED  BY <1>1, <1>2

\* The pool that is drained is older than the one that replaces it.
LEMMA SwapOK == GenInv /\ Swap => GenInv'
<1> SUFFICES ASSUME GenInv, Swap PROVE GenInv'  OBVIOUS
<1> USE PoolsAreNumbers DEF GenInv, Swap, Watched
<1>1. GenTypeOK'  BY DEF GenTypeOK
<1>2. InOrder'  BY DEF GenTypeOK, InOrder, Up
<1>3. Alive'  BY DEF GenTypeOK, InOrder, Alive, Up
<1>4. NoPoolForgotten'  BY DEF NoPoolForgotten, InOrder, GenTypeOK
<1> QED  BY <1>1, <1>2, <1>3, <1>4

LEMMA DrainOverOK ==
  ASSUME GenInv, NEW p \in Pools, DrainOver(p)
  PROVE  GenInv'
<1> USE PoolsAreNumbers DEF GenInv, DrainOver, Unwatched
<1>1. GenTypeOK'  BY DEF GenTypeOK
<1>2. InOrder'  BY DEF GenTypeOK, InOrder, Up
<1>3. Alive'
  <2>1. p < current /\ (reloading # 0 => p < reloading) /\ p <= built
    BY DEF GenTypeOK, InOrder
  <2> QED  BY <2>1 DEF GenTypeOK, Alive, Up
<1>4. NoPoolForgotten'  BY DEF NoPoolForgotten, InOrder, GenTypeOK
<1> QED  BY <1>1, <1>2, <1>3, <1>4

LEMMA WatcherEndsOK ==
  ASSUME GenInv, NEW p \in Pools, WatcherEnds(p)
  PROVE  GenInv'
<1> USE PoolsAreNumbers DEF GenInv, WatcherEnds
<1>1. GenTypeOK'  BY DEF GenTypeOK, taskVars
<1>2. InOrder'  BY DEF GenTypeOK, InOrder, Up, taskVars
<1>3. Alive'  BY DEF GenTypeOK, Alive, Up, taskVars
<1>4. NoPoolForgotten'  BY DEF NoPoolForgotten, GenTypeOK, taskVars
<1> QED  BY <1>1, <1>2, <1>3, <1>4

\* The end of an aclose(): while the server is up, the pool is older than the
\* one in use.
LEMMA CloseClientsOK ==
  ASSUME GenInv, NEW p \in Pools, CloseClients(p)
  PROVE  GenInv'
<1> USE PoolsAreNumbers DEF GenInv, CloseClients
<1>1. GenTypeOK'  BY DEF GenTypeOK
<1>2. InOrder'  BY DEF GenTypeOK, InOrder, Up
<1>3. Alive'
  <2>1. Up' => p < current  BY DEF GenTypeOK, InOrder, Up
  <2>2. reloading # p /\ p <= built
    BY DEF GenTypeOK, Alive
  <2> QED  BY <2>1, <2>2 DEF GenTypeOK, Alive, Up
<1>4. NoPoolForgotten'  BY DEF GenTypeOK, NoPoolForgotten
<1> QED  BY <1>1, <1>2, <1>3, <1>4

LEMMA ShutdownOK == GenInv /\ Shutdown => GenInv'
<1> SUFFICES ASSUME GenInv, Shutdown PROVE GenInv'  OBVIOUS
<1> USE PoolsAreNumbers DEF GenInv, Shutdown, Unwatched
<1>1. GenTypeOK'  BY DEF GenTypeOK
<1>2. InOrder'  BY DEF GenTypeOK, InOrder, Up
<1>3. Alive'
  <2>1. reloading # 1  BY DEF GenTypeOK, InOrder
  <2> QED  BY <2>1 DEF GenTypeOK, Alive, Up
<1>4. NoPoolForgotten'  BY DEF NoPoolForgotten, InOrder, GenTypeOK
<1> QED  BY <1>1, <1>2, <1>3, <1>4

LEMMA GenUnchangedOK == GenInv /\ UNCHANGED genVars => GenInv'
BY DEF GenInv, genVars, poolVars, taskVars, GenTypeOK, InOrder, Alive, Up, NoPoolForgotten

-----------------------------------------------------------------------------
(* The slots.  What a request holds is told from its stage; SlotsConserved *)
(* needs beside it only that a request that has come has a pool.           *)

ReqTypes ==
  /\ stage \in [Requests -> Stages]
  /\ poolOf \in [Requests -> Pools \cup {0}]
  /\ \A r \in Requests : stage[r] # "idle" => poolOf[r] \in Pools
  /\ free \in [Pools -> Int]

Holding(p, k) == {r \in Requests : poolOf[r] = p /\ SlotsHeld(r) >= k}

\* A set that changes in one element changes its size by one at most.
LEMMA CountChange ==
  ASSUME NEW S, IsFiniteSet(S), NEW T, NEW r, T \ {r} = S \ {r}
  PROVE  /\ Cardinality(S) \in Nat /\ Cardinality(T) \in Nat
         /\ r \in S <=> r \in T => Cardinality(T) = Cardinality(S)
         /\ r \in S /\ r \notin T => Cardinality(T) = Cardinality(S) - 1
         /\ r \notin S /\ r \in T => Cardinality(T) = Cardinality(S) + 1
<1>1. IsFiniteSet(S \ {r})  BY FS_RemoveElement
<1>2. IsFiniteSet(T)
  <2>1. IsFiniteSet((T \ {r}) \cup {r})  BY <1>1, FS_AddElement
  <2>2. T = IF r \in T THEN (T \ {r}) \cup {r} ELSE T \ {r}  OBVIOUS
  <2> QED  BY <1>1, <2>1, <2>2
<1>3. Cardinality(S) \in Nat /\ Cardinality(T) \in Nat  BY <1>2, FS_CardinalityType
<1>4. Cardinality(S \ {r}) = IF r \in S THEN Cardinality(S) - 1 ELSE Cardinality(S)
  BY FS_RemoveElement
<1>5. Cardinality(T \ {r}) = IF r \in T THEN Cardinality(T) - 1 ELSE Cardinality(T)
  BY <1>2, FS_RemoveElement
<1> QED  BY <1>3, <1>4, <1>5

LEMMA HeldIsHolding ==
  ASSUME NEW p
  PROVE  HeldIn(p) = Cardinality(Holding(p, 1)) + Cardinality(Holding(p, 2))
<1>1. \A r : SlotsHeld(r) \in {0, 1, 2}  BY DEF SlotsHeld
<1>2. {r \in Requests : poolOf[r] = p /\ SlotsHeld(r) = 2} = Holding(p, 2)
  BY <1>1 DEF Holding
<1> QED  BY <1>2 DEF HeldIn, Holding

LEMMA HoldingFinite ==
  ASSUME NEW p, NEW k PROVE IsFiniteSet(Holding(p, k))
BY SlotsAssumption, FS_Subset DEF Holding

\* One request goes on to another stage, and the semaphore of its pool pays or
\* gets the difference.
LEMMA OneMoves ==
  ASSUME ReqTypes, SlotsConserved, NEW r \in Requests, stage[r] # "idle",
         NEW s \in Stages, s # "idle", stage' = [stage EXCEPT ![r] = s], poolOf' = poolOf,
         free' = [free EXCEPT ![poolOf[r]] = @ + SlotsHeld(r) - SlotsHeld(r)']
  PROVE  ReqTypes' /\ SlotsConserved'
<1>1. poolOf[r] \in Pools  BY DEF ReqTypes
<1>2. \A q : SlotsHeld(q) \in {0, 1, 2} /\ SlotsHeld(q)' \in {0, 1, 2}  BY DEF SlotsHeld
<1>3. ReqTypes'  BY <1>1, <1>2 DEF ReqTypes
<1>4. SlotsConserved'
  <2> SUFFICES ASSUME NEW p \in Pools PROVE (free[p] + HeldIn(p) = MaxConcurrency)'
    BY DEF SlotsConserved
  <2>1. \A k \in {1, 2} : Holding(p, k)' \ {r} = Holding(p, k) \ {r}
    BY DEF Holding, SlotsHeld, ReqTypes
  <2>2. free[p] + Cardinality(Holding(p, 1)) + Cardinality(Holding(p, 2)) = MaxConcurrency
    <3>1. free[p] + HeldIn(p) = MaxConcurrency  BY DEF SlotsConserved
    <3>2. Cardinality(Holding(p, 1)) \in Nat /\ Cardinality(Holding(p, 2)) \in Nat
      BY HoldingFinite, FS_CardinalityType
    <3>3. free[p] \in Int  BY DEF ReqTypes
    <3> QED  BY <3>1, <3>2, <3>3, HeldIsHolding
  <2>3. free[p] \in Int /\ free'[p] \in Int  BY <1>3 DEF ReqTypes
  <2>4. HeldIn(p)' = Cardinality(Holding(p, 1)') + Cardinality(Holding(p, 2)')
    <3>1. \A q : SlotsHeld(q)' \in {0, 1, 2}  BY <1>2
    <3>2. {q \in Requests : poolOf'[q] = p /\ SlotsHeld(q)' = 2} = Holding(p, 2)'
      BY <3>1 DEF Holding
    <3> QED  BY <3>2 DEF HeldIn, Holding
  <2> DEFINE A == Holding(p, 1)  B == Holding(p, 2)
             C == Holding(p, 1)'  D == Holding(p, 2)'
  <2>5. /\ Cardinality(A) \in Nat /\ Cardinality(C) \in Nat
        /\ (r \in A <=> r \in C) => Cardinality(C) = Cardinality(A)
        /\ r \in A /\ r \notin C => Cardinality(C) = Cardinality(A) - 1
        /\ r \notin A /\ r \in C => Cardinality(C) = Cardinality(A) + 1
    <3>1. IsFiniteSet(A) /\ C \ {r} = A \ {r}  BY <2>1, HoldingFinite
    <3> HIDE DEF A, C
    <3> QED  BY <3>1, CountChange
  <2>6. /\ Cardinality(B) \in Nat /\ Cardinality(D) \in Nat
        /\ (r \in B <=> r \in D) => Cardinality(D) = Cardinality(B)
        /\ r \in B /\ r \notin D => Cardinality(D) = Cardinality(B) - 1
        /\ r \notin B /\ r \in D => Cardinality(D) = Cardinality(B) + 1
    <3>1. IsFiniteSet(B) /\ D \ {r} = B \ {r}  BY <2>1, HoldingFinite
    <3> HIDE DEF B, D
    <3> QED  BY <3>1, CountChange
  <2>7. /\ r \in A <=> poolOf[r] = p /\ SlotsHeld(r) >= 1
        /\ r \in B <=> poolOf[r] = p /\ SlotsHeld(r) >= 2
        /\ r \in C <=> poolOf[r] = p /\ SlotsHeld(r)' >= 1
        /\ r \in D <=> poolOf[r] = p /\ SlotsHeld(r)' >= 2
    BY DEF Holding
  <2>8. free'[p] = IF poolOf[r] = p THEN free[p] + SlotsHeld(r) - SlotsHeld(r)' ELSE free[p]
    BY <1>1 DEF ReqTypes
  <2>9. MaxConcurrency \in Nat  BY SlotsAssumption
  <2> DEFINE h == SlotsHeld(r)  g == SlotsHeld(r)'
             a == Cardinality(A)  b == Cardinality(B)
             c == Cardinality(C)  d == Cardinality(D)
  <2>10. h \in {0, 1, 2} /\ g \in {0, 1, 2}  BY <1>2
  <2>11. free[p] + a + b = MaxConcurrency  BY <2>2
  <2>12. a \in Nat /\ b \in Nat /\ c \in Nat /\ d \in Nat  BY <2>5, <2>6
  <2>13. poolOf[r] # p => c = a /\ d = b  BY <2>5, <2>6, <2>7
  <2>14. poolOf[r] = p => c + d = a + b + g - h
    BY <2>5, <2>6, <2>7, <2>10
  <2>15. HeldIn(p)' = c + d  BY <2>4
  <2>16. free'[p] = IF poolOf[r] = p THEN free[p] + h - g ELSE free[p]  BY <2>8
  <2> HIDE DEF h, g, a, b, c, d, A, B, C, D
  <2>17. free'[p] + (c + d) = MaxConcurrency
    BY <2>3, <2>9, <2>10, <2>11, <2>12, <2>13, <2>14, <2>16
  <2> QED  BY <2>15, <2>17
<1> QED  BY <1>3, <1>4

LEMMA ComeOK ==
  ASSUME GenTypeOK, ReqTypes, SlotsConserved, NEW r \in Requests, Come(r)
  PROVE  ReqTypes' /\ SlotsConserved'
<1> USE DEF Come, slotVars
<1>1. ReqTypes'  BY DEF ReqTypes, GenTypeOK, Stages
<1>2. \A q \in Requests : SlotsHeld(q)' = SlotsHeld(q)  BY DEF SlotsHeld, ReqTypes
<1>3. \A q \in Requests : SlotsHeld(q) # 0 => poolOf'[q] = poolOf[q]
  BY DEF SlotsHeld, ReqTypes
<1>4. ASSUME NEW p \in Pools  PROVE HeldIn(p)' = HeldIn(p)
  <2>1. \A q \in Requests : poolOf'[q] = p /\ SlotsHeld(q)' >= 1
                             <=> poolOf[q] = p /\ SlotsHeld(q) >= 1
    BY <1>2, <1>3
  <2>2. \A q \in Requests : poolOf'[q] = p /\ SlotsHeld(q)' = 2
                             <=> poolOf[q] = p /\ SlotsHeld(q) = 2
    BY <1>2, <1>3
  <2> HIDE DEF Come
  <2> QED  BY <2>1, <2>2 DEF HeldIn
<1> QED  BY <1>1, <1>4 DEF SlotsConserved

LEMMA GrantOK ==
  ASSUME ReqTypes, SlotsConserved, NEW r \in Requests, Grant(r)
  PROVE  ReqTypes' /\ SlotsConserved'
<1> DEFINE s == IF stage[r] = "queued" THEN "opening" ELSE "reopening"
<1>1. stage' = [stage EXCEPT ![r] = s] /\ stage[r] \in {"queued", "requeued"}  BY DEF Grant
<1>2. SlotsHeld(r)' = SlotsHeld(r) + 1  BY <1>1 DEF SlotsHeld, ReqTypes
<1>3. poolOf' = poolOf /\ free' = [free EXCEPT ![poolOf[r]] = @ - 1]  BY DEF Grant
<1>4. poolOf[r] \in Pools /\ free[poolOf[r]] \in Int  BY <1>1 DEF ReqTypes
<1>5. SlotsHeld(r) \in {0, 1, 2}  BY DEF SlotsHeld
<1>6. free[poolOf[r]] - 1 = free[poolOf[r]] + SlotsHeld(r) - SlotsHeld(r)'
  BY <1>2, <1>4, <1>5
<1>7. free' = [free EXCEPT ![poolOf[r]] = @ + SlotsHeld(r) - SlotsHeld(r)']
  BY <1>3, <1>6
<1>8. s \in Stages /\ s # "idle" /\ stage[r] # "idle"  BY <1>1 DEF Stages
<1> HIDE DEF s
<1> QED  BY <1>1, <1>3, <1>7, <1>8, OneMoves

\* The request goes on with the slots it has.
LEMMA KeepsSlotsOK ==
  ASSUME ReqTypes, SlotsConserved, NEW r \in Requests, Ask(r) \/ Open(r) \/ Stuck(r)
  PROVE  ReqTypes' /\ SlotsConserved'
<1>1. PICK s \in Stages : /\ stage' = [stage EXCEPT ![r] = s]
                          /\ s # "idle" /\ stage[r] # "idle"
                          /\ SlotsHeld(r)' = SlotsHeld(r)
  <2>1. CASE Ask(r)
    <3> "queued" \in Stages  BY DEF Stages
    <3> WITNESS "queued" \in Stages
    <3> QED  BY <2>1 DEF Ask, SlotsHeld, ReqTypes, Stages
  <2>2. CASE Open(r)
    <3> DEFINE s == IF stage[r] = "opening" THEN "first" ELSE "second"
    <3> s \in Stages  BY DEF Stages
    <3> WITNESS s \in Stages
    <3> QED  BY <2>2 DEF Open, SlotsHeld, ReqTypes, Stages
  <2>3. CASE Stuck(r)
    <3> "requeued" \in Stages  BY DEF Stages
    <3> WITNESS "requeued" \in Stages
    <3> QED  BY <2>3 DEF Stuck, SlotsHeld, ReqTypes, Stages
  <2> QED  BY <2>1, <2>2, <2>3
<1>2. poolOf' = poolOf /\ free' = free  BY DEF Ask, Open, Stuck, slotVars
<1>3. poolOf[r] \in Pools /\ free[poolOf[r]] \in Int  BY <1>1 DEF ReqTypes
<1>4. SlotsHeld(r) \in {0, 1, 2}  BY DEF SlotsHeld
<1>5. free[poolOf[r]] = free[poolOf[r]] + SlotsHeld(r) - SlotsHeld(r)'
  BY <1>1, <1>3, <1>4
<1>6. free' = [free EXCEPT ![poolOf[r]] = @ + SlotsHeld(r) - SlotsHeld(r)']
  BY <1>2, <1>5 DEF ReqTypes
<1> QED  BY <1>1, <1>2, <1>6, OneMoves

\* What a request holds at a stage, and what a step from one to another has to free.
HeldAt(s) ==
  CASE s \in {"opening", "first", "requeued", "finishing", "left"} -> 1
    [] s \in {"reopening", "second", "leftBoth"} -> 2
    [] OTHER -> 0

Frees(r, s, n) ==
  /\ s \in Stages /\ s # "idle" /\ stage[r] # "idle"
  /\ n \in Nat /\ HeldAt(stage[r]) = HeldAt(s) + n

LEMMA GoOnOK ==
  ASSUME ReqTypes, SlotsConserved, NEW r \in Requests, NEW s, NEW n,
         GoOn(r, s, n), Frees(r, s, n)
  PROVE  ReqTypes' /\ SlotsConserved'
<1>1. /\ stage' = [stage EXCEPT ![r] = s] /\ poolOf' = poolOf
      /\ free' = [free EXCEPT ![poolOf[r]] = @ + n]
  BY DEF GoOn
<1>2. /\ s \in Stages /\ s # "idle" /\ stage[r] # "idle" /\ n \in Nat
      /\ HeldAt(stage[r]) = HeldAt(s) + n
  BY DEF Frees
<1>3. SlotsHeld(r) = HeldAt(stage[r]) /\ SlotsHeld(r)' = HeldAt(s)
  BY <1>1 DEF SlotsHeld, HeldAt, ReqTypes
<1>4. SlotsHeld(r) \in {0, 1, 2} /\ SlotsHeld(r)' \in {0, 1, 2}  BY DEF SlotsHeld
<1>5. poolOf[r] \in Pools /\ free[poolOf[r]] \in Int  BY <1>2 DEF ReqTypes
<1>6. free[poolOf[r]] + n = free[poolOf[r]] + SlotsHeld(r) - SlotsHeld(r)'
  BY <1>2, <1>3, <1>4, <1>5
<1>7. free' = [free EXCEPT ![poolOf[r]] = @ + SlotsHeld(r) - SlotsHeld(r)']
  BY <1>1, <1>6
<1> QED  BY <1>1, <1>2, <1>7, OneMoves

\* Every way out frees, at each of its stages, the difference.
LEMMA WaysOut ==
  ASSUME NEW r \in Requests,
         \/ Refuse(r) \/ Cut(r) \/ Finish(r) \/ Collect(r)
         \/ OpeningFails(r) \/ StreamEnds(r) \/ ClientLeaves(r)
  PROVE  \E s, n : GoOn(r, s, n) /\ Frees(r, s, n)
<1> USE DEF Frees, HeldAt, Stages
<1>1. CASE Refuse(r)
  <2>1. CASE stage[r] = "opening"  BY <1>1, <2>1 DEF Refuse
  <2>2. CASE stage[r] = "reopening"  BY <1>1, <2>2 DEF Refuse
  <2> QED  BY <1>1, <2>1, <2>2 DEF Refuse
<1>2. CASE Cut(r) \/ StreamEnds(r)
  <2>1. CASE stage[r] = "first"
    <3>1. GoOn(r, "finishing", 0)  BY <1>2, <2>1 DEF Cut, StreamEnds, StreamStops
    <3> QED  BY <2>1, <3>1
  <2>2. CASE stage[r] = "second"
    <3>1. GoOn(r, "finishing", 1)  BY <1>2, <2>2 DEF Cut, StreamEnds, StreamStops
    <3> QED  BY <2>2, <3>1
  <2> QED  BY <1>2, <2>1, <2>2 DEF Cut, StreamEnds, Streaming
<1>3. CASE Finish(r)  BY <1>3 DEF Finish
<1>4. CASE Collect(r)
  <2>1. CASE stage[r] = "left"  BY <1>4, <2>1 DEF Collect
  <2>2. CASE stage[r] = "leftBoth"  BY <1>4, <2>2 DEF Collect
  <2> QED  BY <1>4, <2>1, <2>2 DEF Collect
<1>5. CASE OpeningFails(r)
  <2>1. CASE stage[r] = "opening"  BY <1>5, <2>1 DEF OpeningFails
  <2>2. CASE stage[r] = "reopening"  BY <1>5, <2>2 DEF OpeningFails
  <2> QED  BY <1>5, <2>1, <2>2 DEF OpeningFails
<1>6. CASE ClientLeaves(r)
  <2>1. CASE LeaveWaiting(r)
    <3>1. CASE stage[r] \in {"body", "queued"}  BY <2>1, <3>1 DEF LeaveWaiting
    <3>2. CASE stage[r] = "requeued"  BY <2>1, <3>2 DEF LeaveWaiting
    <3> QED  BY <2>1, <3>1, <3>2 DEF LeaveWaiting
  <2>2. CASE LeaveOpening(r)
    <3>1. CASE stage[r] = "opening"  BY <2>2, <3>1 DEF LeaveOpening
    <3>2. CASE stage[r] = "reopening"  BY <2>2, <3>2 DEF LeaveOpening
    <3> QED  BY <2>2, <3>1, <3>2 DEF LeaveOpening
  <2>3. CASE LeaveStream(r)
    <3>1. CASE stage[r] \in {"first", "finishing"}
      <4>1. GoOn(r, "over", 1) \/ GoOn(r, "left", 0)  BY <2>3, <3>1 DEF LeaveStream
      <4> QED  BY <3>1, <4>1
    <3>2. CASE stage[r] = "second"
      <4>1. GoOn(r, "left", 1) \/ GoOn(r, "leftBoth", 0)  BY <2>3, <3>2 DEF LeaveStream
      <4> QED  BY <3>2, <4>1
    <3> QED  BY <2>3, <3>1, <3>2 DEF LeaveStream
  <2> QED  BY <1>6, <2>1, <2>2, <2>3 DEF ClientLeaves
<1> QED  BY <1>1, <1>2, <1>3, <1>4, <1>5, <1>6

LEMMA ReqUnchangedOK ==
  ReqTypes /\ SlotsConserved /\ UNCHANGED <<reqVars, slotVars>> => ReqTypes' /\ SlotsConserved'
BY DEF reqVars, slotVars, ReqTypes, SlotsConserved, HeldIn, SlotsHeld

LEMMA ReqStepOK ==
  ASSUME GenTypeOK, ReqTypes, SlotsConserved, NEW r \in Requests,
         Come(r) \/ Ask(r) \/ Proceed(r) \/ Answered(r) \/ ClientLeaves(r)
  PROVE  ReqTypes' /\ SlotsConserved'
<1>1. CASE Come(r)  BY <1>1, ComeOK
<1>2. CASE Grant(r)  BY <1>2, GrantOK
<1>3. CASE Ask(r) \/ Open(r) \/ Stuck(r)  BY <1>3, KeepsSlotsOK
<1>4. CASE \/ Refuse(r) \/ Cut(r) \/ Finish(r) \/ Collect(r)
           \/ OpeningFails(r) \/ StreamEnds(r) \/ ClientLeaves(r)
  <2>1. PICK s, n : GoOn(r, s, n) /\ Frees(r, s, n)  BY <1>4, WaysOut
  <2> QED  BY <2>1, GoOnOK
<1> QED  BY <1>1, <1>2, <1>3, <1>4 DEF Proceed, Answered

LEMMA ReqKeepsGen ==
  ASSUME NEW r \in Requests,
         Come(r) \/ Ask(r) \/ Proceed(r) \/ Answered(r) \/ ClientLeaves(r)
  PROVE  UNCHANGED genVars
<1>1. CASE Come(r) \/ Ask(r) \/ Grant(r) \/ Open(r) \/ Stuck(r)
  BY <1>1 DEF Come, Ask, Grant, Open, Stuck
<1>2. CASE \/ Refuse(r) \/ Cut(r) \/ Finish(r) \/ Collect(r)
           \/ OpeningFails(r) \/ StreamEnds(r) \/ ClientLeaves(r)
  BY <1>2, WaysOut DEF GoOn
<1> QED  BY <1>1, <1>2 DEF Proceed, Answered

-----------------------------------------------------------------------------
(* The theorems.                                                           *)

IInv == GenInv /\ ReqTypes /\ SlotsConserved

LEMMA InitOK == Init => IInv
<1> SUFFICES ASSUME Init PROVE IInv  OBVIOUS
<1>1. GenInv  BY GenInitOK DEF Init
<1>2. ReqTypes  BY SlotsAssumption DEF Init, ReqTypes, Stages
<1>3. SlotsConserved
  <2> SUFFICES ASSUME NEW p \in Pools PROVE free[p] + HeldIn(p) = MaxConcurrency
    BY DEF SlotsConserved
  <2>1. /\ {r \in Requests : poolOf[r] = p /\ SlotsHeld(r) >= 1} = {}
        /\ {r \in Requests : poolOf[r] = p /\ SlotsHeld(r) = 2} = {}
    BY DEF Init, SlotsHeld
  <2>2. HeldIn(p) = 0  BY <2>1, FS_EmptySet DEF HeldIn
  <2>3. free[p] = MaxConcurrency  BY DEF Init
  <2> QED  BY <2>2, <2>3, SlotsAssumption
<1> QED  BY <1>1, <1>2, <1>3 DEF IInv

LEMMA GenNextOK == GenInv /\ GenNext => GenInv'
BY StartedOK, QueueOK, BeginReloadOK, FailReloadOK, SwapOK, DrainOverOK, WatcherEndsOK,
   CloseClientsOK DEF GenNext, Renew, Sighup, AdminReload, Retire

LEMMA NextOK == IInv /\ [Next]_vars => IInv'
<1> SUFFICES ASSUME IInv, [Next]_vars PROVE IInv'  OBVIOUS
<1> USE DEF IInv
<1>1. CASE GenNext /\ UNCHANGED <<reqVars, slotVars>>
  BY <1>1, GenNextOK, ReqUnchangedOK
<1>2. CASE ShutdownIdle
  BY <1>2, ShutdownOK, ReqUnchangedOK DEF ShutdownIdle
<1>3. ASSUME NEW r \in Requests,
             Come(r) \/ Ask(r) \/ Proceed(r) \/ Answered(r) \/ ClientLeaves(r)
      PROVE  IInv'
  <2>1. GenInv'  BY <1>3, ReqKeepsGen, GenUnchangedOK
  <2>2. ReqTypes' /\ SlotsConserved'  BY <1>3, ReqStepOK DEF GenInv
  <2> QED  BY <2>1, <2>2
<1>4. CASE UNCHANGED vars
  BY <1>4, GenUnchangedOK, ReqUnchangedOK DEF vars
<1> QED  BY <1>1, <1>2, <1>3, <1>4 DEF Next

\* The inductive invariant: pools in the order they were built, and what each
\* semaphore adds up to.
THEOREM ServedInvariant == Spec => []IInv
<1> QED  BY InitOK, NextOK, PTL DEF Spec

\* However reloads, signals during the start and drain windows overlap, requests
\* are given a pool whose clients are open and whose watcher runs.
THEOREM ServedCurrentPool == Spec => []CurrentPoolServes
<1>1. IInv => CurrentPoolServes
  BY DEF IInv, GenInv, Alive, Up, CurrentPoolServes
<1> QED  BY <1>1, ServedInvariant, PTL

\* No reload leaves a pool open that is used by nobody, is closed by nobody and
\* has ever been in use: the only ones are those whose own reload failed
\* (reload.py:48-53), and they stay apart.
THEOREM ServedNoPoolForgotten == Spec => []NoPoolForgotten
<1>1. IInv => NoPoolForgotten  BY DEF IInv, GenInv
<1> QED  BY <1>1, ServedInvariant, PTL

\* Through rescues, refusals, cuts and clients that leave, whether a finally or the
\* collector frees what they held (openai_responses.py:422-430, 513-542;
\* retry.py:184), no slot of any pool is lost or freed twice.
THEOREM ServedSlotsConserved == Spec => []SlotsConserved
<1>1. IInv => SlotsConserved  BY DEF IInv
<1> QED  BY <1>1, ServedInvariant, PTL
=============================================================================
