------------------------- MODULE RequestFlow_proofs -------------------------
(***************************************************************************)
(* Proofs about RequestFlow for any number of backends, slots and requests *)
(* and any configuration the schema allows, in three parts:                *)
(*                                                                         *)
(*  - types, what the breaker and the health probes may and may not do to  *)
(*    a request, and when the retries are over;                            *)
(*  - the slots: none is lost or given twice, and nobody waits beside a    *)
(*    free one;                                                            *)
(*  - the refinement of SlotPool.                                          *)
(***************************************************************************)
EXTENDS RequestFlow, SequenceTheorems, FiniteSetTheorems, TLAPS

\* TypeOK in three parts, so that a step only looks at what it touches.
SlotTypes ==
  /\ sem \in [Backends -> Nat]
  /\ queue \in [Backends -> Seq(Requests)]
  /\ granted \in [Backends -> SUBSET Requests]
  /\ inflight \in [Backends -> Nat]

Cursors == [primary : 0 .. CursorWrap - 1, fallback : 0 .. CursorWrap - 1]

HistoryTypes ==
  /\ faults \in [Backends -> 0 .. FailuresThreshold]
  /\ failed \in [Backends -> 0 .. FailuresThreshold]
  /\ missed \in [Backends -> 0 .. EnoughMissed]

PoolTypes ==
  /\ breaker \in [Backends -> Breaker]
  /\ health \in [Backends -> Monitor]
  /\ toProbe \in SUBSET Backends
  /\ tokens \in [Backends -> Nat]
  /\ cursor \in Cursors
  /\ HistoryTypes

Places == {"idle", "token", "slot", "calling", "streaming", "dropped", "backoff"}

FlowTypes ==
  /\ pc \in [Requests -> Places]
  /\ target \in [Requests -> Backends \cup {NoTarget}]
  /\ attempt \in [Requests -> 0 .. RoutingRetries]
  /\ result \in [Requests -> Results]

\* A request that is on its way is bound for a backend.
Bound == \A r \in Requests : pc[r] # "idle" => target[r] \in Backends

TInv == SlotTypes /\ PoolTypes /\ FlowTypes /\ Bound

LEMMA TInvTypes == TInv => TypeOK
BY DEF TInv, SlotTypes, PoolTypes, HistoryTypes, FlowTypes, Places, Cursors, TypeOK

-----------------------------------------------------------------------------
(* What the operations of the components return                            *)

LEMMA BackendsAreNats == Backends \subseteq Nat /\ NoTarget \notin Backends
BY StrategyAssumption DEF Backends, NoTarget

\* Every method of a breaker leaves a breaker.
LEMMA BreakerMethods ==
  ASSUME NEW br \in Breaker
  PROVE  /\ Queried(br) \in Breaker
         /\ RecordSuccess(br) \in Breaker
         /\ RecordFailure(br) \in Breaker
         /\ Aged(br) \in Breaker
<1> USE BreakerAssumption DEF Breaker
<1>1. Queried(br) \in Breaker  BY DEF Queried
<1>2. RecordSuccess(br) \in Breaker  BY DEF RecordSuccess, NewBreaker
<1>3. CountFailure(br.failures) \in 0 .. FailuresThreshold  BY DEF CountFailure
<1>4. RecordFailure(br) \in Breaker  BY <1>3 DEF RecordFailure
<1>5. Aged(br) \in Breaker  BY DEF Aged
<1> QED  BY <1>1, <1>2, <1>4, <1>5

LEMMA ProbedIsMonitor ==
  ASSUME NEW m \in Monitor, NEW ok \in BOOLEAN
  PROVE  Probed(m, ok) \in Monitor
<1> USE HealthAssumption DEF Monitor
<1> DEFINE oks == IF ok THEN UpTo(HealthyThreshold, m.oks) ELSE 0
           fails == IF ok THEN 0 ELSE UpTo(UnhealthyThreshold, m.fails)
<1>1. oks \in 0 .. HealthyThreshold /\ fails \in 0 .. UnhealthyThreshold
  BY DEF UpTo
<1>2. Counted(m, ok) = [healthy |-> m.healthy, fails |-> fails, oks |-> oks]
  BY DEF Counted
<1> DEFINE up == IF m.healthy THEN fails < UnhealthyThreshold ELSE oks >= HealthyThreshold
<1>3. up \in BOOLEAN  OBVIOUS
<1> HIDE DEF oks, fails
<1>4. Probed(m, ok) = [healthy |-> up, fails |-> fails, oks |-> oks]
  BY <1>2 DEF Probed
<1> HIDE DEF up
<1> QED  BY <1>1, <1>3, <1>4

\* A cursor wraps below its bound.
LEMMA AdvancedInRange ==
  ASSUME NEW c \in 0 .. CursorWrap - 1
  PROVE  Advanced(c) \in 0 .. CursorWrap - 1
<1>1. CursorWrap \in Nat /\ CursorWrap > 0 /\ c + 1 \in Nat  BY PoolAssumption
<1> DEFINE n == c + 1
<1>2. n \in Nat  BY <1>1
<1> HIDE DEF n
<1>3. n % CursorWrap \in 0 .. CursorWrap - 1  BY <1>1, <1>2
<1> QED  BY <1>3 DEF Advanced, n

LEMMA PickMovesCursor ==
  ASSUME cursor \in Cursors, NEW model, NEW b, Pick(model, b)
  PROVE  cursor' \in Cursors
BY AdvancedInRange
   DEF Pick, ProbeBypass, PickPrimary, PickFallback, PickFirst, Cursors

\* A waiter taken out of the middle of the queue leaves a queue.
LEMMA WithoutIsSeq ==
  ASSUME NEW S, NEW s \in Seq(S), NEW i \in 1 .. Len(s)
  PROVE  [j \in 1 .. Len(s) - 1 |-> IF j < i THEN s[j] ELSE s[j + 1]] \in Seq(S)
<1>1. Len(s) \in Nat /\ Len(s) - 1 \in Nat /\ \A k \in 1 .. Len(s) : s[k] \in S
  OBVIOUS
<1>2. \A j \in 1 .. Len(s) - 1 : j \in 1 .. Len(s) /\ j + 1 \in 1 .. Len(s)
  BY <1>1
<1>3. [j \in 1 .. Len(s) - 1 |-> IF j < i THEN s[j] ELSE s[j + 1]]
        \in [1 .. Len(s) - 1 -> S]
  BY <1>1, <1>2
<1> QED  BY <1>1, <1>3, SeqDef

LEMMA WakeNextTypes ==
  ASSUME SlotTypes, NEW b \in Backends, NEW free \in Nat, NEW called \in SUBSET Requests,
         WakeNext(b, free, called), inflight' \in [Backends -> Nat]
  PROVE  SlotTypes'
<1>1. CASE /\ sem' = [sem EXCEPT ![b] = free]
           /\ granted' = [granted EXCEPT ![b] = called]
           /\ UNCHANGED queue
  BY <1>1 DEF SlotTypes
<1>2. CASE /\ queue[b] # <<>> /\ free > 0
           /\ sem' = [sem EXCEPT ![b] = free - 1]
           /\ granted' = [granted EXCEPT ![b] = called \cup {Head(queue[b])}]
           /\ queue' = [queue EXCEPT ![b] = Tail(@)]
  <2>1. queue[b] \in Seq(Requests)  BY DEF SlotTypes
  <2>2. Head(queue[b]) \in Requests /\ Tail(queue[b]) \in Seq(Requests)
    BY <1>2, <2>1
  <2>3. granted' \in [Backends -> SUBSET Requests]  BY <1>2, <2>2 DEF SlotTypes
  <2>4. queue' \in [Backends -> Seq(Requests)]  BY <1>2, <2>2 DEF SlotTypes
  <2>5. sem' \in [Backends -> Nat]  BY <1>2 DEF SlotTypes
  <2> QED  BY <2>3, <2>4, <2>5 DEF SlotTypes
<1> QED  BY <1>1, <1>2 DEF WakeNext

LEMMA ReleaseTypes ==
  ASSUME SlotTypes, NEW b \in Backends, NEW leaving \in SUBSET Requests,
         ReleaseSem(b, leaving), inflight' \in [Backends -> Nat]
  PROVE  SlotTypes'
<1>1. sem[b] + 1 \in Nat /\ granted[b] \ leaving \in SUBSET Requests  BY DEF SlotTypes
<1> QED  BY <1>1, WakeNextTypes DEF ReleaseSem

\* Whatever is done to the slots of a backend, they keep their types; above
\* all sem stays a natural number.
LEMMA SlotOpsTypes ==
  ASSUME SlotTypes, NEW b \in Backends, NEW r \in Requests,
         \/ TakeSlot(b) \/ QueueForSlot(r, b) \/ ResumeWithSlot(r, b)
         \/ LeaveSlot(b) \/ LeaveQueue(r, b) \/ ReturnGrant(r, b)
         \/ UNCHANGED slots
  PROVE  SlotTypes'
<1>1. CASE TakeSlot(b)  BY <1>1 DEF TakeSlot, SlotFree, SlotTypes
<1>2. CASE QueueForSlot(r, b)
  <2>1. Append(queue[b], r) \in Seq(Requests)  BY DEF SlotTypes
  <2> QED  BY <1>2, <2>1 DEF QueueForSlot, SlotTypes
<1>3. CASE ResumeWithSlot(r, b)
  <2>1. inflight' \in [Backends -> Nat]  BY <1>3 DEF ResumeWithSlot, SlotTypes
  <2>2. sem[b] \in Nat /\ granted[b] \ {r} \in SUBSET Requests  BY DEF SlotTypes
  <2> QED  BY <1>3, <2>1, <2>2, WakeNextTypes DEF ResumeWithSlot
<1>4. CASE LeaveSlot(b)
  <2>1. inflight' \in [Backends -> Nat]  BY <1>4 DEF LeaveSlot, SlotTypes
  <2> QED  BY <1>4, <2>1, ReleaseTypes DEF LeaveSlot
<1>5. CASE LeaveQueue(r, b)
  <2>1. queue[b] \in Seq(Requests)  BY DEF SlotTypes
  <2>2. PICK i \in 1 .. Len(queue[b]) :
          queue' = [queue EXCEPT ![b] =
            [j \in 1 .. Len(@) - 1 |-> IF j < i THEN @[j] ELSE @[j + 1]]]
    BY <1>5 DEF LeaveQueue
  <2>3. [j \in 1 .. Len(queue[b]) - 1 |->
           IF j < i THEN queue[b][j] ELSE queue[b][j + 1]] \in Seq(Requests)
    BY <2>1, WithoutIsSeq
  <2>4. queue' \in [Backends -> Seq(Requests)]  BY <2>2, <2>3 DEF SlotTypes
  <2> QED  BY <1>5, <2>4 DEF LeaveQueue, SlotTypes
<1>6. CASE ReturnGrant(r, b)
  <2>1. inflight' \in [Backends -> Nat]  BY <1>6 DEF ReturnGrant, SlotTypes
  <2> QED  BY <1>6, <2>1, ReleaseTypes DEF ReturnGrant
<1>7. CASE UNCHANGED slots  BY <1>7 DEF slots, SlotTypes
<1> QED  BY <1>1, <1>2, <1>3, <1>4, <1>5, <1>6, <1>7

\* Wherever a request goes, it goes there with a target.
LEMMA FlowMoves ==
  ASSUME FlowTypes, Bound, NEW r \in Requests
  PROVE  /\ \A place \in Places :
              pc[r] # "idle" /\ GoTo(r, place) => FlowTypes' /\ Bound'
         /\ \A how \in Results : EndWith(r, how) => FlowTypes' /\ Bound'
         /\ \A n \in 0 .. RoutingRetries, b \in Backends, place \in Places :
              Proceed(r, n, b, place) => FlowTypes' /\ Bound'
<1>1. ASSUME NEW place \in Places, pc[r] # "idle", GoTo(r, place)
      PROVE  FlowTypes' /\ Bound'
  BY <1>1 DEF GoTo, FlowTypes, Bound
<1>2. ASSUME NEW how \in Results, EndWith(r, how)
      PROVE  FlowTypes' /\ Bound'
  BY <1>2, FlowAssumption DEF EndWith, FlowTypes, Bound, Places
<1>3. ASSUME NEW n \in 0 .. RoutingRetries, NEW b \in Backends, NEW place \in Places,
             Proceed(r, n, b, place)
      PROVE  FlowTypes' /\ Bound'
  BY <1>3 DEF Proceed, FlowTypes, Bound, Results
<1> QED  BY <1>1, <1>2, <1>3

-----------------------------------------------------------------------------
(* TInv is inductive                                                       *)

LEMMA EnoughIsNat == EnoughMissed \in Nat
BY HealthAssumption, BreakerAssumption DEF EnoughMissed

\* A step that leaves the histories alone leaves their types alone.
LEMMA SameHistory == HistoryTypes /\ UNCHANGED history => HistoryTypes'
BY DEF HistoryTypes, history

LEMMA InitTypes == Init => TInv
<1> SUFFICES ASSUME Init PROVE TInv  OBVIOUS
<1>1. SlotTypes
  BY PoolAssumption, EmptySeq DEF Init, PoolInit, SlotTypes
<1>2. breaker \in [Backends -> Breaker]
  BY BreakerAssumption DEF Init, PoolInit, Breaker, NewBreaker
<1>3. health \in [Backends -> Monitor]
  <2>1. {[healthy |-> up, fails |-> 0, oks |-> 0] : up \in BOOLEAN} \subseteq Monitor
    BY HealthAssumption DEF Monitor
  <2> QED  BY <2>1 DEF Init, PoolInit
<1>4. PoolTypes
  <2>1. HistoryTypes
    BY EnoughIsNat, BreakerAssumption DEF Init, HistoryTypes
  <2> QED
    BY <1>2, <1>3, <2>1, PoolAssumption, BreakerAssumption
       DEF Init, PoolInit, PoolTypes, Cursors
<1>5. FlowTypes /\ Bound
  BY FlowAssumption DEF Init, FlowTypes, Bound, Places, Results
<1> QED  BY <1>1, <1>4, <1>5 DEF TInv

\* No token is taken that is not there.
LEMMA TokensStayNat ==
  ASSUME tokens \in [Backends -> Nat], NEW b \in Backends, HasToken(b), TakeToken(b)
  PROVE  tokens' \in [Backends -> Nat]
BY DEF HasToken, TakeToken

LEMMA RecordTypes ==
  ASSUME breaker \in [Backends -> Breaker], NEW b \in Backends, NEW ok, Record(b, ok)
  PROVE  breaker' \in [Backends -> Breaker]
BY BreakerMethods DEF Record

LEMMA FaultTypes ==
  ASSUME HistoryTypes, NEW b \in Backends
  PROVE  /\ Faulted(b) => faults' \in [Backends -> 0 .. FailuresThreshold]
         /\ CallFailed(b) => HistoryTypes'
         /\ CallWentWell(b) => HistoryTypes'
<1>1. \A n \in 0 .. FailuresThreshold : CountFailure(n) \in 0 .. FailuresThreshold
  BY BreakerAssumption DEF CountFailure
<1>2. 0 \in 0 .. EnoughMissed /\ 0 \in 0 .. FailuresThreshold
  BY EnoughIsNat, BreakerAssumption
<1>3. Faulted(b) => faults' \in [Backends -> 0 .. FailuresThreshold]
  BY <1>1 DEF Faulted, HistoryTypes
<1>4. CallFailed(b) => HistoryTypes'
  BY <1>1, <1>3 DEF CallFailed, HistoryTypes
<1>5. CallWentWell(b) => HistoryTypes'
  BY <1>2 DEF CallWentWell, HistoryTypes
<1> QED  BY <1>3, <1>4, <1>5

\* A probe counts what it missed, and no further than needed.
LEMMA MissedTypes ==
  ASSUME HistoryTypes, NEW b \in Backends, NEW ok \in BOOLEAN, WatcherProbes(b, ok)
  PROVE  HistoryTypes'
<1>1. \A n \in 0 .. EnoughMissed : UpTo(EnoughMissed, n) \in 0 .. EnoughMissed
  BY EnoughIsNat DEF UpTo
<1>2. missed' \in [Backends -> 0 .. EnoughMissed]
  BY <1>1 DEF WatcherProbes, HistoryTypes
<1>3. faults' \in [Backends -> 0 .. FailuresThreshold]
  BY FaultTypes DEF WatcherProbes, HistoryTypes
<1> QED  BY <1>2, <1>3 DEF WatcherProbes, HistoryTypes

LEMMA AcquireSlotTypes ==
  ASSUME SlotTypes, FlowTypes, Bound, NEW r \in Requests,
         NEW n \in 0 .. RoutingRetries, NEW b \in Backends, AcquireSlot(r, n, b)
  PROVE  SlotTypes' /\ FlowTypes' /\ Bound'
<1>1. SlotTypes'  BY SlotOpsTypes DEF AcquireSlot
<1>2. \E place \in Places : Proceed(r, n, b, place)  BY DEF AcquireSlot, Places
<1> QED  BY <1>1, <1>2, FlowMoves

LEMMA AttemptTypes ==
  ASSUME TInv, NEW r \in Requests, NEW n \in 0 .. RoutingRetries, Attempt(r, n)
  PROVE  TInv'
<1> USE DEF TInv
<1>1. breaker' \in [Backends -> Breaker]
  BY BreakerMethods DEF Attempt, QueryBreakers, PoolTypes
<1>2. ASSUME Available = {}, EndWith(r, "no_backend"), UNCHANGED <<tokens, slots, cursor>>
      PROVE  TInv'
  <2>1. SlotTypes'  BY <1>2 DEF slots, SlotTypes
  <2>2. FlowTypes' /\ Bound'  BY <1>2, FlowMoves DEF Results
  <2>3. PoolTypes'  BY <1>1, <1>2, SameHistory DEF Attempt, PoolTypes
  <2> QED  BY <2>1, <2>2, <2>3
<1>3. ASSUME NEW b \in Available, Pick(ModelOf[r], b), Admit(r, n, b)
      PROVE  TInv'
  <2>1. b \in Backends  BY DEF Available
  <2>2. cursor' \in Cursors  BY <1>3, PickMovesCursor DEF PoolTypes
  <2>3. CASE HasToken(b) /\ TakeToken(b) /\ AcquireSlot(r, n, b)
    <3>1. SlotTypes' /\ FlowTypes' /\ Bound'  BY <2>1, <2>3, AcquireSlotTypes
    <3>2. tokens' \in [Backends -> Nat]  BY <2>1, <2>3, TokensStayNat DEF PoolTypes
    <3> QED  BY <1>1, <2>2, <3>1, <3>2, SameHistory DEF Attempt, PoolTypes
  <2>4. CASE UNCHANGED <<tokens, slots>>
    <3>1. SlotTypes'  BY <2>4 DEF slots, SlotTypes
    <3>2. CASE Proceed(r, n, b, "token")
      <4>1. FlowTypes' /\ Bound'  BY <2>1, <3>2, FlowMoves DEF Places
      <4> QED  BY <1>1, <2>2, <2>4, <3>1, <4>1, SameHistory DEF Attempt, PoolTypes
    <3>3. CASE EndWith(r, "rate_limited")
      <4>1. FlowTypes' /\ Bound'  BY <3>3, FlowMoves DEF Results
      <4> QED  BY <1>1, <2>2, <2>4, <3>1, <4>1, SameHistory DEF Attempt, PoolTypes
    <3>4. CASE HasToken(b) /\ TakeToken(b) /\ AcquireSlot(r, n, b)  BY <2>3, <3>4
    <3> QED  BY <1>3, <3>2, <3>3, <3>4 DEF Admit
  <2> QED  BY <1>3, <2>3, <2>4 DEF Admit
<1> QED  BY <1>2, <1>3 DEF Attempt

\* Waiting, waking up and giving up.
LEMMA WaitingTypes ==
  ASSUME TInv, NEW r \in Requests,
         \/ GiveUpAfterBackoff(r) \/ WakeWithToken(r) \/ ResumeInSlot(r)
         \/ StreamStarts(r)
  PROVE  TInv'
<1> USE DEF TInv
<1>1. attempt[r] \in 0 .. RoutingRetries  BY DEF FlowTypes
<1>2. CASE GiveUpAfterBackoff(r)
  <2>1. FlowTypes' /\ Bound'  BY <1>2, FlowMoves DEF GiveUpAfterBackoff, Results
  <2> QED  BY <1>2, <2>1, SameHistory DEF GiveUpAfterBackoff, poolVars, slots, SlotTypes, PoolTypes
<1>3. CASE WakeWithToken(r)
  <2>1. target[r] \in Backends  BY <1>3 DEF WakeWithToken, Bound
  <2>2. AcquireSlot(r, attempt[r], target[r])  BY <1>3 DEF WakeWithToken
  <2>3. SlotTypes' /\ FlowTypes' /\ Bound'  BY <1>1, <2>1, <2>2, AcquireSlotTypes
  <2>4. tokens' \in [Backends -> Nat]
    BY <1>3, <2>1, TokensStayNat DEF WakeWithToken, PoolTypes
  <2> QED  BY <1>3, <2>3, <2>4, SameHistory DEF WakeWithToken, PoolTypes
<1>4. CASE ResumeInSlot(r)
  <2>1. target[r] \in Backends  BY <1>4 DEF ResumeInSlot, Bound
  <2>2. SlotTypes'  BY <1>4, <2>1, SlotOpsTypes DEF ResumeInSlot
  <2>3. FlowTypes' /\ Bound'  BY <1>4, FlowMoves DEF ResumeInSlot, Places
  <2> QED  BY <1>4, <2>2, <2>3, SameHistory DEF ResumeInSlot, PoolTypes
<1>5. CASE StreamStarts(r)
  <2>1. FlowTypes' /\ Bound'  BY <1>5, FlowMoves DEF StreamStarts, Places
  <2> QED  BY <1>5, <2>1, SameHistory DEF StreamStarts, poolVars, slots, SlotTypes, PoolTypes
<1> QED  BY <1>2, <1>3, <1>4, <1>5

\* The ends of an attempt.
LEMMA EndingTypes ==
  ASSUME TInv, NEW r \in Requests,
         \/ \E o \in AllOutcomes : Answer(r, o)
         \/ \E how \in {"ok", "error", "cancelled"} : StreamEnds(r, how)
         \/ Cancel(r) \/ Reclaim(r)
  PROVE  TInv'
<1> USE DEF TInv
<1>1. ASSUME NEW o \in AllOutcomes, Answer(r, o) PROVE TInv'
  <2>1. target[r] \in Backends  BY <1>1 DEF Answer, Bound
  <2>2. SlotTypes'  BY <1>1, <2>1, SlotOpsTypes DEF Answer
  <2>3. breaker' \in [Backends -> Breaker]
    BY <1>1, <2>1, RecordTypes DEF Answer, PoolTypes
  <2>4. HistoryTypes'
    BY <1>1, <2>1, FaultTypes DEF Answer, PoolTypes
  <2>5. ResultOf(o) \in Results  BY DEF ResultOf, Results
  <2>6. FlowTypes' /\ Bound'  BY <1>1, <2>5, FlowMoves DEF Answer, Places
  <2> QED  BY <1>1, <2>2, <2>3, <2>4, <2>6 DEF Answer, PoolTypes
<1>2. ASSUME NEW how \in {"ok", "error", "cancelled"}, StreamEnds(r, how) PROVE TInv'
  <2>1. target[r] \in Backends  BY <1>2 DEF StreamEnds, Bound
  <2>2. SlotTypes'  BY <1>2, <2>1, SlotOpsTypes DEF StreamEnds
  <2>3. breaker' \in [Backends -> Breaker]
    BY <1>2, <2>1, RecordTypes DEF StreamEnds, PoolTypes
  <2>4. HistoryTypes'
    BY <1>2, <2>1, FaultTypes DEF StreamEnds, PoolTypes
  <2>5. FlowTypes' /\ Bound'  BY <1>2, FlowMoves DEF StreamEnds, Results
  <2> QED  BY <1>2, <2>2, <2>3, <2>4, <2>5 DEF StreamEnds, PoolTypes
<1>3. CASE Cancel(r)
  <2>1. target[r] \in Backends  BY <1>3 DEF Cancel, Bound
  <2>2. SlotTypes'  BY <1>3, <2>1, SlotOpsTypes DEF Cancel
  <2>3. FlowTypes' /\ Bound'  BY <1>3, FlowMoves DEF Cancel, Places, Results
  <2> QED  BY <1>3, <2>2, <2>3, SameHistory DEF Cancel, PoolTypes
<1>4. CASE Reclaim(r)
  <2>1. target[r] \in Backends  BY <1>4 DEF Reclaim, Bound
  <2>2. SlotTypes'  BY <1>4, <2>1, SlotOpsTypes DEF Reclaim
  <2>3. FlowTypes' /\ Bound'  BY <1>4, FlowMoves DEF Reclaim, Results
  <2> QED  BY <1>4, <2>2, <2>3, SameHistory DEF Reclaim, PoolTypes
<1> QED  BY <1>1, <1>2, <1>3, <1>4

\* The watcher and the clock.
LEMMA BackgroundTypes ==
  ASSUME TInv, (\E b \in Backends, ok \in BOOLEAN : WatcherProbes(b, ok)) \/ ClockTicks
  PROVE  TInv'
<1> USE DEF TInv
<1>1. ASSUME NEW b \in Backends, NEW ok \in BOOLEAN, WatcherProbes(b, ok) PROVE TInv'
  <2>1. SlotTypes' /\ FlowTypes' /\ Bound'
    BY <1>1 DEF WatcherProbes, Probe, flowVars, slots, SlotTypes, FlowTypes, Bound
  <2>2. health' \in [Backends -> Monitor]
    BY <1>1, ProbedIsMonitor DEF WatcherProbes, Probe, PoolTypes
  <2>3. breaker' \in [Backends -> Breaker]
    BY <1>1, RecordTypes DEF WatcherProbes, Probe, PoolTypes
  <2>4. HistoryTypes'
    BY <1>1, MissedTypes DEF PoolTypes
  <2> QED  BY <1>1, <2>1, <2>2, <2>3, <2>4 DEF WatcherProbes, Probe, PoolTypes
<1>2. CASE ClockTicks
  <2>1. SlotTypes' /\ FlowTypes' /\ Bound'
    BY <1>2 DEF ClockTicks, Tick, flowVars, slots, SlotTypes, FlowTypes, Bound
  <2>2. breaker' \in [Backends -> Breaker]
    BY <1>2, BreakerMethods DEF ClockTicks, Tick, PoolTypes
  <2>3. tokens' \in [Backends -> Nat]
    BY <1>2, PoolAssumption DEF ClockTicks, Tick, PoolTypes
  <2> QED  BY <1>2, <2>1, <2>2, <2>3, SameHistory DEF ClockTicks, Tick, PoolTypes
<1> QED  BY <1>1, <1>2

LEMMA StepTypes == TInv /\ [Next]_vars => TInv'
<1> SUFFICES ASSUME TInv, [Next]_vars PROVE TInv'  OBVIOUS
<1>1. ASSUME NEW r \in Requests, Arrive(r) PROVE TInv'
  <2>1. 0 \in 0 .. RoutingRetries  BY FlowAssumption
  <2> QED  BY <1>1, <2>1, AttemptTypes DEF Arrive
<1>2. ASSUME NEW r \in Requests, RetryAfterBackoff(r) PROVE TInv'
  <2>1. attempt[r] + 1 \in 0 .. RoutingRetries
    BY <1>2, FlowAssumption DEF RetryAfterBackoff, TInv, FlowTypes
  <2> QED  BY <1>2, <2>1, AttemptTypes DEF RetryAfterBackoff
<1>3. CASE UNCHANGED vars
  BY <1>3, SameHistory
     DEF vars, poolVars, slots, flowVars, TInv, SlotTypes, PoolTypes, FlowTypes, Bound
<1> QED  BY <1>1, <1>2, <1>3, WaitingTypes, EndingTypes, BackgroundTypes DEF Next

\* The inductive invariant: every variable has its type, and a request that is
\* on its way is bound for a backend.
THEOREM TypesInvariant == Spec => []TInv
BY InitTypes, StepTypes, PTL DEF Spec

\* Type correctness, for every configuration: semaphores and buckets never go
\* below zero, no breaker or monitor counts past its threshold, no request
\* retries more often than routing.retry allows.
THEOREM FlowTypeOK == Spec => []TypeOK
BY TypesInvariant, TInvTypes, PTL

-----------------------------------------------------------------------------
(* The breakers follow the faults                                          *)

\* One breaker and the count of its backend's faults in a row.
Follows(br, n) ==
  /\ br.failures = n
  /\ br.state = "closed" <=> n < FailuresThreshold

\* Each method of the breaker agrees with what the history variable does when
\* the method is called.
LEMMA MethodsFollow ==
  ASSUME NEW br \in Breaker, NEW n \in 0 .. FailuresThreshold, Follows(br, n)
  PROVE  /\ Follows(Queried(br), n)
         /\ Follows(Aged(br), n)
         /\ Follows(RecordSuccess(br), 0)
         /\ Follows(RecordFailure(br), CountFailure(n))
<1> USE BreakerAssumption DEF Follows, Breaker
<1>1. Follows(Queried(br), n)  BY DEF Queried
<1>2. Follows(Aged(br), n)  BY DEF Aged
<1>3. Follows(RecordSuccess(br), 0)  BY DEF RecordSuccess, NewBreaker
<1>4. Follows(RecordFailure(br), CountFailure(n))  BY DEF RecordFailure, CountFailure
<1> QED  BY <1>1, <1>2, <1>3, <1>4

LEMMA FollowsFaults ==
  BreakerFollowsFaults <=> \A b \in Backends : Follows(breaker[b], faults[b])
BY DEF BreakerFollowsFaults, Follows

\* The three things a step does to breakers and history together.
LEMMA RecordFollows ==
  ASSUME TInv, BreakerFollowsFaults, NEW b \in Backends,
         \/ Record(b, TRUE) /\ CallWentWell(b)
         \/ Record(b, FALSE) /\ Faulted(b)
  PROVE  BreakerFollowsFaults'
<1> USE DEF TInv, PoolTypes, HistoryTypes
<1>1. \A c \in Backends : Follows(breaker[c], faults[c])  BY FollowsFaults
<1>2. \A c \in Backends : Follows(breaker'[c], faults'[c])
  <2>1. CASE Record(b, TRUE) /\ CallWentWell(b)
    BY <1>1, <2>1, MethodsFollow DEF Record, CallWentWell
  <2>2. CASE Record(b, FALSE) /\ Faulted(b)
    BY <1>1, <2>2, MethodsFollow DEF Record, Faulted
  <2> QED  BY <2>1, <2>2
<1> QED  BY <1>2 DEF BreakerFollowsFaults, Follows

LEMMA QueryFollows ==
  ASSUME TInv, BreakerFollowsFaults, UNCHANGED faults,
         \/ QueryBreakers \/ Tick \/ UNCHANGED breaker
  PROVE  BreakerFollowsFaults'
<1> USE DEF TInv, PoolTypes, HistoryTypes
<1>1. \A c \in Backends : Follows(breaker[c], faults[c])  BY FollowsFaults
<1>2. \A c \in Backends : Follows(breaker'[c], faults'[c])
  <2>1. CASE QueryBreakers  BY <1>1, <2>1, MethodsFollow DEF QueryBreakers
  <2>2. CASE Tick  BY <1>1, <2>2, MethodsFollow DEF Tick
  <2>3. CASE UNCHANGED breaker  BY <1>1, <2>3
  <2> QED  BY <2>1, <2>2, <2>3
<1> QED  BY <1>2 DEF BreakerFollowsFaults, Follows

LEMMA StepFollows ==
  ASSUME TInv, BreakerFollowsFaults, [Next]_vars
  PROVE  BreakerFollowsFaults'
<1>1. ASSUME NEW r \in Requests, Arrive(r) \/ RetryAfterBackoff(r)
      PROVE  BreakerFollowsFaults'
  BY <1>1, QueryFollows DEF Arrive, RetryAfterBackoff, Attempt, history
<1>2. ASSUME NEW r \in Requests,
             \/ GiveUpAfterBackoff(r) \/ WakeWithToken(r) \/ ResumeInSlot(r)
             \/ StreamStarts(r) \/ Cancel(r) \/ Reclaim(r)
      PROVE  BreakerFollowsFaults'
  <2>1. UNCHANGED <<breaker, faults>>
    BY <1>2 DEF GiveUpAfterBackoff, WakeWithToken, ResumeInSlot, StreamStarts,
                Cancel, Reclaim, poolVars, history
  <2> QED  BY <2>1, QueryFollows
<1>3. ASSUME NEW r \in Requests, NEW o \in AllOutcomes, Answer(r, o)
      PROVE  BreakerFollowsFaults'
  <2>1. target[r] \in Backends  BY <1>3 DEF Answer, TInv, Bound
  <2>2. (o = "ok" \/ o \in ClientErrors) <=> ~BackendAtFault(o)
    BY DEF AllOutcomes, Outcomes, ClientErrors, BackendAtFault
  <2>3. CASE BackendAtFault(o)
    BY <1>3, <2>1, <2>2, <2>3, RecordFollows DEF Answer, Record, CallFailed
  <2>4. CASE ~BackendAtFault(o)
    BY <1>3, <2>1, <2>2, <2>4, RecordFollows DEF Answer, Record
  <2> QED  BY <2>3, <2>4
<1>4. ASSUME NEW r \in Requests, NEW how, StreamEnds(r, how)
      PROVE  BreakerFollowsFaults'
  <2>1. target[r] \in Backends  BY <1>4 DEF StreamEnds, TInv, Bound
  <2> QED  BY <1>4, <2>1, RecordFollows DEF StreamEnds
<1>5. ASSUME NEW b \in Backends, NEW ok \in BOOLEAN, WatcherProbes(b, ok)
      PROVE  BreakerFollowsFaults'
  <2>1. health'[b] = Probed(health[b], ok)
    BY <1>5 DEF WatcherProbes, Probe, TInv, PoolTypes
  <2>2. FlipsUnhealthy(health[b], ok) <=> health[b].healthy /\ ~health'[b].healthy
    BY <2>1 DEF FlipsUnhealthy
  <2>3. CASE FlipsUnhealthy(health[b], ok)
    BY <1>5, <2>2, <2>3, RecordFollows DEF WatcherProbes, Probe
  <2>4. CASE ~FlipsUnhealthy(health[b], ok)
    BY <1>5, <2>2, <2>4, QueryFollows DEF WatcherProbes, Probe
  <2> QED  BY <2>3, <2>4
<1>6. CASE ClockTicks  BY <1>6, QueryFollows DEF ClockTicks, history
<1>7. CASE UNCHANGED vars  BY <1>7, QueryFollows DEF vars, poolVars, history
<1> QED  BY <1>1, <1>2, <1>3, <1>4, <1>5, <1>6, <1>7 DEF Next

\* A breaker is closed exactly while fewer than failures_threshold faults of
\* its backend came in a row, whatever requests, probes and cancellations did
\* in between (pool.py: a client error "must NOT count").
THEOREM FlowBreakerFollowsFaults == Spec => []BreakerFollowsFaults
<1>1. Init => BreakerFollowsFaults
  BY BreakerAssumption DEF Init, PoolInit, BreakerFollowsFaults, NewBreaker
<1> QED  BY <1>1, StepFollows, TypesInvariant, PTL DEF Spec

(***************************************************************************)
(* What is behind the faults.  Seen from the flag: every fault that was no *)
(* failed call took unhealthy_threshold failed probes, and the run of      *)
(* failed probes that is going on comes on top; only the first such run    *)
(* may have begun before the last good call.                               *)
(***************************************************************************)
Running(m) == IF m.healthy THEN m.fails ELSE 0

Backed(m, n, f, k) ==
  /\ f <= n
  /\ m.healthy => m.fails < UnhealthyThreshold
  /\ UnhealthyThreshold * n + Running(m) < UnhealthyThreshold * f + k + UnhealthyThreshold

Evidence == \A b \in Backends : Backed(health[b], faults[b], failed[b], missed[b])

\* One fault more is one threshold more.
LEMMA OneMore ==
  ASSUME NEW k \in Nat, NEW n \in Nat
  PROVE  k * (n + 1) = k * n + k /\ k * n \in Nat
OBVIOUS

LEMMA TimesMonotone ==
  ASSUME NEW k \in Nat, NEW n \in Nat, NEW l \in Nat, n <= l
  PROVE  k * n <= k * l /\ k * n \in Nat
OBVIOUS

\* A call that fails counts on both sides ...
LEMMA FailedCallBacked ==
  ASSUME NEW m \in Monitor, NEW n \in 0 .. FailuresThreshold,
         NEW f \in 0 .. FailuresThreshold, NEW k \in Nat, Backed(m, n, f, k)
  PROVE  Backed(m, CountFailure(n), CountFailure(f), k)
<1> DEFINE U == UnhealthyThreshold
<1>1. U \in Nat /\ n \in Nat /\ f \in Nat /\ FailuresThreshold \in Nat /\ Running(m) \in Nat
  BY HealthAssumption, BreakerAssumption DEF Monitor, Running
<1>2. /\ U * (n + 1) = U * n + U /\ U * n \in Nat
      /\ U * (f + 1) = U * f + U /\ U * f \in Nat
  BY <1>1, OneMore
<1>3. f <= n /\ U * n + Running(m) < U * f + k + U  BY DEF Backed
<1>4. CountFailure(f) <= CountFailure(n)
  BY <1>1, <1>3 DEF CountFailure
<1>5. U * CountFailure(n) + Running(m) < U * CountFailure(f) + k + U
  <2>1. CASE n < FailuresThreshold
    <3>1. CountFailure(n) = n + 1 /\ CountFailure(f) = f + 1
      BY <1>1, <1>3, <2>1 DEF CountFailure
    <3> QED  BY <1>1, <1>2, <1>3, <3>1
  <2>2. CASE ~(n < FailuresThreshold)
    <3>1. CountFailure(n) = n /\ (CountFailure(f) = f + 1 \/ CountFailure(f) = f)
      BY <1>1, <2>2 DEF CountFailure
    <3> QED  BY <1>1, <1>2, <1>3, <3>1
  <2> QED  BY <2>1, <2>2
<1> QED  BY <1>4, <1>5 DEF Backed

\* ... one that goes well starts afresh, up to the run that is going on ...
LEMMA GoodCallBacked ==
  ASSUME NEW m \in Monitor, m.healthy => m.fails < UnhealthyThreshold
  PROVE  Backed(m, 0, 0, 0)
<1>1. UnhealthyThreshold * 0 = 0 /\ UnhealthyThreshold \in Nat \ {0}
  BY HealthAssumption
<1>2. Running(m) < UnhealthyThreshold  BY <1>1 DEF Running, Monitor
<1> QED  BY <1>1, <1>2 DEF Backed, Monitor, Running

\* ... and a probe counts against the backend only at the end of a whole run.
LEMMA ProbeBacked ==
  ASSUME NEW m \in Monitor, NEW ok \in BOOLEAN, NEW n \in 0 .. FailuresThreshold,
         NEW f \in 0 .. FailuresThreshold, NEW k \in 0 .. EnoughMissed,
         Backed(m, n, f, k)
  PROVE  Backed(Probed(m, ok),
                IF FlipsUnhealthy(m, ok) THEN CountFailure(n) ELSE n,
                f,
                IF ok THEN k ELSE UpTo(EnoughMissed, k))
<1> DEFINE U == UnhealthyThreshold
           F == FailuresThreshold
           p == Probed(m, ok)
           n2 == IF FlipsUnhealthy(m, ok) THEN CountFailure(n) ELSE n
           k2 == IF ok THEN k ELSE UpTo(EnoughMissed, k)
<1>1. /\ U \in Nat \ {0} /\ F \in Nat \ {0} /\ n \in Nat /\ f \in Nat
      /\ m.fails \in 0 .. U /\ m.healthy \in BOOLEAN /\ n <= F
  BY HealthAssumption, BreakerAssumption DEF Monitor
<1>2. U * (n + 1) = U * n + U /\ U * n \in Nat /\ U * f \in Nat /\ U * F \in Nat
  BY <1>1, OneMore
<1>3. f <= n /\ (m.healthy => m.fails < U) /\ U * n + Running(m) < U * f + k + U
  BY DEF Backed
<1>4. n2 <= F /\ n2 \in Nat /\ (n2 = n \/ (FlipsUnhealthy(m, ok) /\ n2 = n + 1)) /\ f <= n2
  BY <1>1, <1>3 DEF CountFailure
<1>5. p.healthy => p.fails < U
  <2>1. p.fails = IF ok THEN 0 ELSE UpTo(U, m.fails)  BY DEF Probed, Counted
  <2>2. p.healthy <=> IF m.healthy THEN p.fails < U
                      ELSE (IF ok THEN UpTo(HealthyThreshold, m.oks) ELSE 0) >= HealthyThreshold
    BY DEF Probed, Counted
  <2>3. ok \/ m.healthy \/ ~p.healthy  BY <2>2, HealthAssumption
  <2> QED  BY <1>1, <2>1, <2>2, <2>3
<1>6. Running(p) \in 0 .. U - 1
  <2>1. p.fails \in Nat  BY <1>1 DEF Probed, Counted, UpTo
  <2> QED  BY <1>1, <1>5, <2>1 DEF Running
<1>7. U * n2 + Running(p) < U * f + k2 + U
  <2>1. CASE k2 = EnoughMissed
    <3>1. k2 = U * F  BY <2>1 DEF EnoughMissed
    <3>2. U * n2 <= U * F /\ U * n2 \in Nat  BY <1>1, <1>4, TimesMonotone
    <3> QED  BY <1>1, <1>2, <1>6, <3>1, <3>2
  <2>2. CASE ok
    <3>1. n2 = n /\ k2 = k /\ Running(p) = 0
      BY <1>1, <1>3, <2>2 DEF FlipsUnhealthy, Probed, Counted, Running
    <3> QED  BY <1>1, <1>2, <1>3, <3>1 DEF Running, Monitor
  <2>3. CASE ~ok /\ k2 # EnoughMissed
    <3>1. k2 = k + 1  BY <2>3, EnoughIsNat DEF UpTo
    <3>2. CASE FlipsUnhealthy(m, ok)
      <4>1. m.healthy /\ ~p.healthy  BY <3>2 DEF FlipsUnhealthy
      <4>2. p.healthy <=> UpTo(U, m.fails) < U  BY <2>3, <4>1 DEF Probed, Counted
      <4>3. m.fails = U - 1  BY <1>1, <1>3, <4>1, <4>2 DEF UpTo
      <4>4. Running(p) = 0 /\ Running(m) = U - 1  BY <4>1, <4>3 DEF Running
      <4> QED  BY <1>1, <1>2, <1>3, <1>4, <3>1, <4>4
    <3>3. CASE ~FlipsUnhealthy(m, ok)
      <4>1. Running(p) <= Running(m) + 1
        BY <1>1, <1>3, <2>3, <3>3, HealthAssumption
           DEF FlipsUnhealthy, Probed, Counted, UpTo, Running
      <4>2. Running(m) \in Nat  BY <1>1 DEF Running
      <4> QED  BY <1>1, <1>2, <1>3, <1>6, <3>1, <3>3, <4>1, <4>2
    <3> QED  BY <3>2, <3>3
  <2> QED  BY <2>1, <2>2, <2>3
<1> QED  BY <1>4, <1>5, <1>7 DEF Backed

LEMMA StepEvidence ==
  ASSUME TInv, Evidence, [Next]_vars
  PROVE  Evidence'
<1> USE DEF TInv, PoolTypes, HistoryTypes
<1>1. ASSUME UNCHANGED <<health, history>> PROVE Evidence'
  BY <1>1 DEF Evidence, history
<1>2. ASSUME NEW r \in Requests,
             \/ Arrive(r) \/ RetryAfterBackoff(r) \/ GiveUpAfterBackoff(r)
             \/ WakeWithToken(r) \/ ResumeInSlot(r) \/ StreamStarts(r)
             \/ Cancel(r) \/ Reclaim(r)
      PROVE  Evidence'
  BY <1>1, <1>2 DEF Arrive, RetryAfterBackoff, Attempt, GiveUpAfterBackoff,
                    WakeWithToken, ResumeInSlot, StreamStarts, Cancel, Reclaim, poolVars
<1>3. ASSUME NEW b \in Backends, CallFailed(b), UNCHANGED health PROVE Evidence'
  <2> SUFFICES ASSUME NEW c \in Backends
               PROVE  Backed(health[c], faults'[c], failed'[c], missed[c])
    BY <1>3 DEF Evidence, CallFailed
  <2>1. Backed(health[c], faults[c], failed[c], missed[c])  BY DEF Evidence
  <2>2. missed[c] \in Nat  BY EnoughIsNat
  <2>3. CASE c = b
    <3>1. faults'[c] = CountFailure(faults[c]) /\ failed'[c] = CountFailure(failed[c])
      BY <1>3, <2>3 DEF CallFailed, Faulted
    <3> QED  BY <2>1, <2>2, <3>1, FailedCallBacked
  <2>4. CASE c # b
    BY <1>3, <2>1, <2>4 DEF CallFailed, Faulted
  <2> QED  BY <2>3, <2>4
<1>4. ASSUME NEW b \in Backends, CallWentWell(b), UNCHANGED health PROVE Evidence'
  <2> SUFFICES ASSUME NEW c \in Backends
               PROVE  Backed(health[c], faults'[c], failed'[c], missed'[c])
    BY <1>4 DEF Evidence
  <2>1. Backed(health[c], faults[c], failed[c], missed[c])  BY DEF Evidence
  <2>2. CASE c = b
    <3>1. faults'[c] = 0 /\ failed'[c] = 0 /\ missed'[c] = 0
      BY <1>4, <2>2 DEF CallWentWell
    <3>2. health[c].healthy => health[c].fails < UnhealthyThreshold  BY <2>1 DEF Backed
    <3> QED  BY <3>1, <3>2, GoodCallBacked
  <2>3. CASE c # b
    BY <1>4, <2>1, <2>3 DEF CallWentWell
  <2> QED  BY <2>2, <2>3
<1>5. ASSUME NEW r \in Requests, NEW o \in AllOutcomes, Answer(r, o) PROVE Evidence'
  <2>1. target[r] \in Backends  BY <1>5 DEF Answer, Bound
  <2> QED  BY <1>3, <1>4, <1>5, <2>1 DEF Answer
<1>6. ASSUME NEW r \in Requests, NEW how, StreamEnds(r, how) PROVE Evidence'
  <2>1. target[r] \in Backends  BY <1>6 DEF StreamEnds, Bound
  <2> QED  BY <1>4, <1>6, <2>1 DEF StreamEnds
<1>7. ASSUME NEW b \in Backends, NEW ok \in BOOLEAN, WatcherProbes(b, ok) PROVE Evidence'
  <2> SUFFICES ASSUME NEW c \in Backends
               PROVE  Backed(health'[c], faults'[c], failed[c], missed'[c])
    BY <1>7 DEF Evidence, WatcherProbes
  <2>1. Backed(health[c], faults[c], failed[c], missed[c])  BY DEF Evidence
  <2>2. health'[b] = Probed(health[b], ok)  BY <1>7 DEF WatcherProbes, Probe
  <2>3. FlipsUnhealthy(health[b], ok) <=> health[b].healthy /\ ~health'[b].healthy
    BY <2>2 DEF FlipsUnhealthy
  <2>4. CASE c = b
    <3>1. faults'[c] = IF FlipsUnhealthy(health[c], ok) THEN CountFailure(faults[c])
                                                        ELSE faults[c]
      BY <1>7, <2>3, <2>4 DEF WatcherProbes, Faulted
    <3>2. missed'[c] = IF ok THEN missed[c] ELSE UpTo(EnoughMissed, missed[c])
      BY <1>7, <2>4 DEF WatcherProbes
    <3>3. health'[c] = Probed(health[c], ok)  BY <2>2, <2>4
    <3>4. /\ health[c] \in Monitor /\ faults[c] \in 0 .. FailuresThreshold
          /\ failed[c] \in 0 .. FailuresThreshold /\ missed[c] \in 0 .. EnoughMissed
      OBVIOUS
    <3> QED  BY <2>1, <3>1, <3>2, <3>3, <3>4, ProbeBacked
  <2>5. CASE c # b
    BY <1>7, <2>1, <2>5 DEF WatcherProbes, Probe, Faulted
  <2> QED  BY <2>4, <2>5
<1>8. CASE ClockTicks  BY <1>1, <1>8 DEF ClockTicks, Tick
<1>9. CASE UNCHANGED vars  BY <1>1, <1>9 DEF vars, poolVars
<1> QED  BY <1>2, <1>5, <1>6, <1>7, <1>8, <1>9 DEF Next

LEMMA InitEvidence == Init => Evidence
<1> SUFFICES ASSUME Init, NEW b \in Backends
             PROVE  Backed(health[b], faults[b], failed[b], missed[b])
  BY DEF Evidence
<1>1. health[b] \in Monitor  BY InitTypes DEF TInv, PoolTypes
<1>2. health[b].fails = 0 /\ faults[b] = 0 /\ failed[b] = 0 /\ missed[b] = 0
  BY DEF Init, PoolInit
<1> QED  BY <1>1, <1>2, GoodCallBacked, HealthAssumption

\* Behind every fault is a failed call or a whole run of failed probes.
THEOREM EvidenceInvariant == Spec => []Evidence
BY InitEvidence, StepEvidence, TypesInvariant, PTL DEF Spec

\* A request is refused for want of a backend only while every breaker is
\* cooling down, with failures_threshold faults behind each of them, and
\* probes alone make up a fault only unhealthy_threshold at a time: neither
\* flags that are down nor probes that fail now and then refuse anybody.
THEOREM FlowRefusedOnlyByOpenBreakers == Spec => RefusedOnlyByOpenBreakers
<1> DEFINE Refusal(r) == result'[r] = "no_backend" /\ result[r] # "no_backend"
           AllOpen == \A b \in Backends :
             /\ breaker[b].cooling > 0
             /\ UnhealthyThreshold * FailuresThreshold
                  < UnhealthyThreshold * failed[b] + missed[b] + UnhealthyThreshold
<1>1. ASSUME TInv, BreakerFollowsFaults, Evidence, [Next]_vars
      PROVE  [\A r \in Requests : Refusal(r) => AllOpen]_vars
  <2> SUFFICES ASSUME NEW r \in Requests, Refusal(r), Next PROVE AllOpen
    BY <1>1
  <2>1. PICK q \in Requests, n \in Nat : Attempt(q, n) /\ Available = {}
    <3>1. ASSUME NEW q \in Requests, NEW n \in Nat, Attempt(q, n)
          PROVE  Available = {}
      <4> SUFFICES ASSUME NEW b \in Available, Admit(q, n, b)  PROVE FALSE
        BY <3>1 DEF Attempt
      <4>1. \/ \E place : Proceed(q, n, b, place)
            \/ EndWith(q, "rate_limited")
        BY DEF Admit, AcquireSlot
      <4> QED  BY <1>1, <4>1 DEF Proceed, EndWith, TInv, FlowTypes
    <3>2. ASSUME NEW q \in Requests, Arrive(q)
          PROVE  \E n \in Nat : Attempt(q, n)
      BY <3>2 DEF Arrive
    <3>3. ASSUME NEW q \in Requests, RetryAfterBackoff(q)
          PROVE  \E n \in Nat : Attempt(q, n)
      BY <1>1, <3>3 DEF RetryAfterBackoff, TInv, FlowTypes
    <3>4. ASSUME NEW q \in Requests,
                 \/ \E place : GoTo(q, place)
                 \/ \E n, b, place : Proceed(q, n, b, place)
                 \/ \E how : how # "no_backend" /\ EndWith(q, how)
          PROVE  FALSE
      BY <1>1, <3>4 DEF GoTo, Proceed, EndWith, TInv, FlowTypes
    <3>5. ASSUME NEW q \in Requests, GiveUpAfterBackoff(q) PROVE FALSE
      BY <3>4, <3>5 DEF GiveUpAfterBackoff
    <3>6. ASSUME NEW q \in Requests, WakeWithToken(q) PROVE FALSE
      BY <3>4, <3>6 DEF WakeWithToken, AcquireSlot
    <3>7. ASSUME NEW q \in Requests, ResumeInSlot(q) \/ StreamStarts(q) PROVE FALSE
      BY <3>4, <3>7 DEF ResumeInSlot, StreamStarts
    <3>8. ASSUME NEW q \in Requests, NEW o \in AllOutcomes, Answer(q, o) PROVE FALSE
      <4>1. ResultOf(o) # "no_backend"  BY DEF ResultOf
      <4> QED  BY <3>4, <3>8, <4>1 DEF Answer
    <3>9. ASSUME NEW q \in Requests, NEW how \in {"ok", "error", "cancelled"},
                 StreamEnds(q, how)
          PROVE  FALSE
      BY <3>4, <3>9 DEF StreamEnds
    <3>10. ASSUME NEW q \in Requests, Cancel(q) \/ Reclaim(q) PROVE FALSE
      BY <3>4, <3>10 DEF Cancel, Reclaim
    <3>11. ASSUME UNCHANGED flowVars PROVE FALSE
      BY <3>11 DEF flowVars
    <3> QED  BY <3>1, <3>2, <3>3, <3>5, <3>6, <3>7, <3>8, <3>9, <3>10, <3>11
             DEF Next, WatcherProbes, ClockTicks
  <2>2. ASSUME NEW b \in Backends
        PROVE  /\ breaker[b].cooling > 0
               /\ UnhealthyThreshold * FailuresThreshold
                    < UnhealthyThreshold * failed[b] + missed[b] + UnhealthyThreshold
    <3>1. breaker[b].state = "open" /\ breaker[b].cooling # 0
      BY <2>1 DEF Available, IsAvailable
    <3>2. breaker[b] \in Breaker /\ faults[b] \in 0 .. FailuresThreshold
      BY <1>1 DEF TInv, PoolTypes, HistoryTypes
    <3>3. breaker[b].cooling > 0  BY <3>1, <3>2, BreakerAssumption DEF Breaker
    <3>4. faults[b] = FailuresThreshold
      BY <1>1, <3>1, <3>2, BreakerAssumption DEF BreakerFollowsFaults
    <3>5. Backed(health[b], FailuresThreshold, failed[b], missed[b])
      BY <1>1, <3>4 DEF Evidence
    <3>6. /\ health[b] \in Monitor /\ failed[b] \in 0 .. FailuresThreshold
          /\ missed[b] \in 0 .. EnoughMissed
      BY <1>1 DEF TInv, PoolTypes, HistoryTypes
    <3>7. Running(health[b]) \in Nat /\ UnhealthyThreshold \in Nat /\ missed[b] \in Nat
      BY <3>6, EnoughIsNat, HealthAssumption DEF Running, Monitor
    <3>8. /\ UnhealthyThreshold * FailuresThreshold \in Nat
          /\ UnhealthyThreshold * failed[b] \in Nat
      BY <3>6, <3>7, OneMore, BreakerAssumption
    <3> QED  BY <3>3, <3>5, <3>7, <3>8 DEF Backed
  <2> QED  BY <2>2
<1>2. TInv /\ BreakerFollowsFaults /\ Evidence /\ [Next]_vars
        => [\A r \in Requests : Refusal(r) => AllOpen]_vars
  BY <1>1
<1> QED
  BY <1>2, TypesInvariant, FlowBreakerFollowsFaults, EvidenceInvariant, PTL
     DEF Spec, RefusedOnlyByOpenBreakers

-----------------------------------------------------------------------------
(* Retries                                                                 *)

\* No backend asks for more retries than the loop of retry.py goes round.
OverridesWithinRouting == \A b \in Backends : EffectiveRetries(b) <= RoutingRetries

\* A retryable error that is handed on comes from an attempt that was not to
\* be repeated.
LEMMA StepExhausts ==
  ASSUME OverridesWithinRouting, TInv, [Next]_vars, NEW r \in Requests,
         pc[r] # "idle", pc'[r] = "idle", result'[r] = "retryable_error"
  PROVE  attempt[r] >= EffectiveRetries(target[r])
<1> USE DEF TInv, FlowTypes
<1>1. target[r] \in Backends  BY DEF Bound
<1>2. EffectiveRetries(target[r]) \in Nat /\ attempt[r] \in Nat
  BY <1>1, FlowAssumption DEF EffectiveRetries
<1>3. ASSUME NEW q \in Requests,
             \/ \E place : place # "idle" /\ GoTo(q, place)
             \/ \E n, b, place : place # "idle" /\ Proceed(q, n, b, place)
             \/ \E how : how # "retryable_error" /\ EndWith(q, how)
      PROVE  FALSE
  BY <1>3 DEF GoTo, Proceed, EndWith
<1>4. ASSUME NEW q \in Requests, NEW n, Attempt(q, n) PROVE FALSE
  <2>1. ASSUME NEW b, Admit(q, n, b) PROVE FALSE
    BY <1>3, <2>1 DEF Admit, AcquireSlot
  <2> QED  BY <1>3, <1>4, <2>1 DEF Attempt
<1>5. ASSUME NEW q \in Requests, Arrive(q) \/ RetryAfterBackoff(q) PROVE FALSE
  BY <1>4, <1>5 DEF Arrive, RetryAfterBackoff
<1>6. ASSUME NEW q \in Requests, GiveUpAfterBackoff(q)
      PROVE  attempt[r] >= EffectiveRetries(target[r])
  <2>1. q = r  BY <1>6 DEF GiveUpAfterBackoff, EndWith
  <2> QED  BY <1>1, <1>2, <1>6, <2>1, FlowAssumption
           DEF GiveUpAfterBackoff, OverridesWithinRouting
<1>7. ASSUME NEW q \in Requests, WakeWithToken(q) \/ ResumeInSlot(q) \/ StreamStarts(q)
      PROVE  FALSE
  BY <1>3, <1>7 DEF WakeWithToken, AcquireSlot, ResumeInSlot, StreamStarts
<1>8. ASSUME NEW q \in Requests, NEW o \in AllOutcomes, Answer(q, o)
      PROVE  attempt[r] >= EffectiveRetries(target[r])
  <2>1. ~Retries(q, o) /\ EndWith(q, ResultOf(o))  BY <1>3, <1>8 DEF Answer
  <2>2. q = r /\ ResultOf(o) = "retryable_error"  BY <1>3, <2>1 DEF EndWith
  <2>3. o \in RetryableOutcomes  BY <2>2 DEF ResultOf
  <2> QED  BY <1>2, <2>1, <2>2, <2>3 DEF Retries
<1>9. ASSUME NEW q \in Requests, NEW how \in {"ok", "error", "cancelled"}, StreamEnds(q, how)
      PROVE  FALSE
  BY <1>3, <1>9 DEF StreamEnds
<1>10. ASSUME NEW q \in Requests, Cancel(q) \/ Reclaim(q) PROVE FALSE
  BY <1>3, <1>10 DEF Cancel, Reclaim
<1>11. ASSUME UNCHANGED flowVars PROVE FALSE
  BY <1>11 DEF flowVars
<1> QED  BY <1>5, <1>6, <1>7, <1>8, <1>9, <1>10, <1>11
         DEF Next, WatcherProbes, ClockTicks, vars

\* As long as no backend's retry section asks for more than routing.retry, a
\* retryable error reaches the client only when the retries of the backend
\* that gave it are used up.  The hypothesis is needed: see the finding about
\* max_retries in README.md.
THEOREM FlowGivesUpOnlyWhenExhausted ==
  ASSUME OverridesWithinRouting
  PROVE  Spec => GivesUpOnlyWhenExhausted
<1>1. TInv /\ [Next]_vars
        => [ \A r \in Requests :
               pc[r] # "idle" /\ pc'[r] = "idle" /\ result'[r] = "retryable_error"
                 => attempt[r] >= EffectiveRetries(target[r]) ]_vars
  BY StepExhausts
<1> QED  BY <1>1, TypesInvariant, PTL DEF Spec, GivesUpOnlyWhenExhausted

-----------------------------------------------------------------------------
(* The slots.  The argument has two halves.  Every step of RequestFlow is  *)
(* one of seven kinds as far as slots are concerned (StepKinds), and each  *)
(* kind keeps the inductive invariant SInv, which adds to the two          *)
(* properties who may be in a queue and among the granted.                 *)

InsidePlaces == {"calling", "streaming", "dropped"}

\* r neither holds a slot nor waits for one.
Outside(r) == pc[r] \notin InsidePlaces \cup {"slot"}

\* Nothing happens to the others.
OthersStay(r) ==
  \A q \in Requests \ {r} : pc'[q] = pc[q] /\ target'[q] = target[q]

Enter(r, b) ==
  /\ Outside(r)
  /\ TakeSlot(b)
  /\ pc'[r] = "calling" /\ target'[r] = b
  /\ OthersStay(r)

LineUp(r, b) ==
  /\ Outside(r)
  /\ QueueForSlot(r, b)
  /\ pc'[r] = "slot" /\ target'[r] = b
  /\ OthersStay(r)

Resume(r, b) ==
  /\ pc[r] = "slot" /\ target[r] = b
  /\ ResumeWithSlot(r, b)
  /\ pc'[r] = "calling" /\ target'[r] = b
  /\ OthersStay(r)

Exit(r, b) ==
  /\ pc[r] \in InsidePlaces /\ target[r] = b
  /\ LeaveSlot(b)
  /\ Outside(r)'
  /\ OthersStay(r)

GiveUpPlace(r, b) ==
  /\ pc[r] = "slot" /\ target[r] = b
  /\ LeaveQueue(r, b)
  /\ Outside(r)'
  /\ OthersStay(r)

Decline(r, b) ==
  /\ pc[r] = "slot" /\ target[r] = b
  /\ ReturnGrant(r, b)
  /\ Outside(r)'
  /\ OthersStay(r)

Neutral ==
  /\ UNCHANGED slots
  /\ \A q \in Requests :
       \/ Outside(q) /\ Outside(q)'
       \/ pc'[q] = pc[q] /\ target'[q] = target[q]
       \/ pc[q] \in InsidePlaces /\ pc'[q] \in InsidePlaces /\ target'[q] = target[q]

SlotStep ==
  \/ \E r \in Requests, b \in Backends :
       \/ Enter(r, b) \/ LineUp(r, b) \/ Resume(r, b) \/ Exit(r, b)
       \/ GiveUpPlace(r, b) \/ Decline(r, b)
  \/ Neutral

-----------------------------------------------------------------------------
(* Every step is of one kind                                               *)

\* Where the flow operators leave the request and the others.
LEMMA FlowPlaces ==
  ASSUME FlowTypes, NEW r \in Requests
  PROVE  /\ \A place \in Places : GoTo(r, place) =>
              pc'[r] = place /\ target'[r] = target[r] /\ OthersStay(r)
         /\ \A how \in Results : EndWith(r, how) => pc'[r] = "idle" /\ OthersStay(r)
         /\ \A n, b, place : Proceed(r, n, b, place) =>
              pc'[r] = place /\ target'[r] = b /\ OthersStay(r)
BY DEF FlowTypes, GoTo, EndWith, Proceed, OthersStay

LEMMA AcquireKinds ==
  ASSUME TInv, NEW r \in Requests, NEW n, NEW b \in Backends,
         Outside(r), AcquireSlot(r, n, b)
  PROVE  SlotStep
<1>1. CASE TakeSlot(b) /\ Proceed(r, n, b, "calling")
  BY <1>1, FlowPlaces DEF TInv, SlotStep, Enter
<1>2. CASE QueueForSlot(r, b) /\ Proceed(r, n, b, "slot")
  BY <1>2, FlowPlaces DEF TInv, SlotStep, LineUp
<1> QED  BY <1>1, <1>2 DEF AcquireSlot

\* A request stays outside and the slots stay as they are.
LEMMA StayingOutside ==
  ASSUME TInv, NEW r \in Requests, Outside(r), UNCHANGED slots,
         \/ \E how \in Results : EndWith(r, how)
         \/ \E n, b : Proceed(r, n, b, "token")
  PROVE  SlotStep
<1>1. OthersStay(r) /\ pc'[r] \in {"idle", "token"}  BY FlowPlaces DEF TInv
<1> QED  BY <1>1 DEF SlotStep, Neutral, OthersStay, Outside, InsidePlaces

LEMMA AttemptKinds ==
  ASSUME TInv, NEW r \in Requests, NEW n, Outside(r), Attempt(r, n)
  PROVE  SlotStep
<1>1. CASE EndWith(r, "no_backend") /\ UNCHANGED <<tokens, slots, cursor>>
  BY <1>1, StayingOutside DEF Results
<1>2. ASSUME NEW b \in Available, Admit(r, n, b) PROVE SlotStep
  <2>1. b \in Backends  BY DEF Available
  <2>2. CASE AcquireSlot(r, n, b)  BY <2>1, <2>2, AcquireKinds
  <2>3. CASE Proceed(r, n, b, "token") /\ UNCHANGED <<tokens, slots>>
    BY <2>3, StayingOutside
  <2>4. CASE EndWith(r, "rate_limited") /\ UNCHANGED <<tokens, slots>>
    BY <2>4, StayingOutside DEF Results
  <2> QED  BY <1>2, <2>2, <2>3, <2>4 DEF Admit
<1> QED  BY <1>1, <1>2 DEF Attempt

LEMMA WaitingKinds ==
  ASSUME TInv, NEW r \in Requests,
         \/ Arrive(r) \/ RetryAfterBackoff(r) \/ GiveUpAfterBackoff(r)
         \/ WakeWithToken(r) \/ ResumeInSlot(r) \/ StreamStarts(r)
  PROVE  SlotStep
<1>1. CASE Arrive(r) \/ RetryAfterBackoff(r)
  BY <1>1, AttemptKinds DEF Arrive, RetryAfterBackoff, Outside, InsidePlaces
<1>2. CASE GiveUpAfterBackoff(r)
  BY <1>2, StayingOutside
     DEF GiveUpAfterBackoff, Outside, InsidePlaces, Results, poolVars
<1>3. CASE WakeWithToken(r)
  <2>1. target[r] \in Backends  BY <1>3 DEF WakeWithToken, TInv, Bound
  <2>2. Outside(r)  BY <1>3 DEF WakeWithToken, Outside, InsidePlaces
  <2> QED  BY <1>3, <2>1, <2>2, AcquireKinds DEF WakeWithToken
<1>4. CASE ResumeInSlot(r)
  <2>1. target[r] \in Backends  BY <1>4 DEF ResumeInSlot, TInv, Bound
  <2> QED  BY <1>4, <2>1, FlowPlaces DEF ResumeInSlot, TInv, Places, SlotStep, Resume
<1>5. CASE StreamStarts(r)
  <2>1. pc[r] = "calling" /\ pc'[r] = "streaming" /\ target'[r] = target[r] /\ OthersStay(r)
    BY <1>5, FlowPlaces DEF StreamStarts, TInv, Places
  <2> QED  BY <1>5, <2>1
           DEF StreamStarts, poolVars, SlotStep, Neutral, OthersStay, InsidePlaces
<1> QED  BY <1>1, <1>2, <1>3, <1>4, <1>5

LEMMA EndingKinds ==
  ASSUME TInv, NEW r \in Requests,
         \/ \E o \in AllOutcomes : Answer(r, o)
         \/ \E how \in {"ok", "error", "cancelled"} : StreamEnds(r, how)
         \/ Cancel(r) \/ Reclaim(r)
  PROVE  SlotStep
<1> USE DEF TInv
<1>1. ASSUME pc[r] \in InsidePlaces, LeaveSlot(target[r]),
             GoTo(r, "backoff") \/ \E how \in Results : EndWith(r, how)
      PROVE  SlotStep
  <2>1. target[r] \in Backends  BY <1>1 DEF Bound, InsidePlaces
  <2>2. pc'[r] \in {"backoff", "idle"} /\ OthersStay(r)
    BY <1>1, FlowPlaces DEF Places
  <2> QED  BY <1>1, <2>1, <2>2 DEF SlotStep, Exit, Outside, InsidePlaces
<1>2. ASSUME NEW o \in AllOutcomes, Answer(r, o) PROVE SlotStep
  <2>1. ResultOf(o) \in Results  BY DEF ResultOf, Results
  <2> QED  BY <1>1, <1>2, <2>1 DEF Answer, InsidePlaces
<1>3. ASSUME NEW how \in {"ok", "error", "cancelled"}, StreamEnds(r, how) PROVE SlotStep
  BY <1>1, <1>3 DEF StreamEnds, InsidePlaces, Results
<1>4. CASE Cancel(r)
  <2>1. CASE pc[r] \in {"token", "backoff"} /\ UNCHANGED slots /\ EndWith(r, "cancelled")
    BY <2>1, StayingOutside DEF Outside, InsidePlaces, Results
  <2>2. CASE /\ pc[r] = "slot"
             /\ LeaveQueue(r, target[r]) \/ ReturnGrant(r, target[r])
             /\ EndWith(r, "cancelled")
    <3>1. target[r] \in Backends  BY <2>2 DEF Bound
    <3>2. pc'[r] = "idle" /\ OthersStay(r)  BY <2>2, FlowPlaces DEF Results
    <3> QED  BY <2>2, <3>1, <3>2 DEF SlotStep, GiveUpPlace, Decline, Outside, InsidePlaces
  <2>3. CASE pc[r] = "calling" /\ LeaveSlot(target[r]) /\ EndWith(r, "cancelled")
    BY <1>1, <2>3 DEF InsidePlaces, Results
  <2>4. CASE pc[r] \in {"calling", "streaming"} /\ GoTo(r, "dropped") /\ UNCHANGED slots
    <3>1. pc'[r] = "dropped" /\ target'[r] = target[r] /\ OthersStay(r)
      BY <2>4, FlowPlaces DEF Places
    <3> QED  BY <2>4, <3>1 DEF SlotStep, Neutral, OthersStay, InsidePlaces
  <2> QED  BY <1>4, <2>1, <2>2, <2>3, <2>4 DEF Cancel
<1>5. CASE Reclaim(r)
  BY <1>1, <1>5 DEF Reclaim, InsidePlaces, Results
<1> QED  BY <1>2, <1>3, <1>4, <1>5

\* As far as the slots are concerned a step is of one of seven kinds.
LEMMA StepKinds == TInv /\ [Next]_vars => SlotStep
<1> SUFFICES ASSUME TInv, [Next]_vars PROVE SlotStep  OBVIOUS
<1>1. ASSUME UNCHANGED <<slots, flowVars>> PROVE SlotStep
  BY <1>1 DEF flowVars, SlotStep, Neutral
<1>2. ASSUME NEW b \in Backends, NEW ok \in BOOLEAN, WatcherProbes(b, ok) PROVE SlotStep
  BY <1>1, <1>2 DEF WatcherProbes, Probe
<1>3. CASE ClockTicks  BY <1>1, <1>3 DEF ClockTicks, Tick
<1>4. CASE UNCHANGED vars  BY <1>1, <1>4 DEF vars, poolVars
<1> QED  BY <1>2, <1>3, <1>4, WaitingKinds, EndingKinds DEF Next

-----------------------------------------------------------------------------
(* Queues without repetition                                               *)

Waiters(s) == {s[i] : i \in 1 .. Len(s)}

Once(s) == \A i, j \in 1 .. Len(s) : s[i] = s[j] => i = j

\* A newcomer stands last.
LEMMA AppendLine ==
  ASSUME NEW S, NEW s \in Seq(S), NEW x \in S, Once(s), x \notin Waiters(s)
  PROVE  /\ Waiters(Append(s, x)) = Waiters(s) \cup {x}
         /\ Once(Append(s, x))
<1> DEFINE t == Append(s, x)
<1>1. /\ Len(s) \in Nat /\ Len(t) = Len(s) + 1 /\ t[Len(s) + 1] = x
      /\ \A i \in 1 .. Len(s) : t[i] = s[i]
  BY AppendProperties
<1> HIDE DEF t
<1>2. \A i : i \in 1 .. Len(t) <=> i \in 1 .. Len(s) \/ i = Len(s) + 1  BY <1>1
<1>3. Waiters(t) = Waiters(s) \cup {x}  BY <1>1, <1>2 DEF Waiters
<1>4. Once(t)
  <2>1. \A i \in 1 .. Len(s) : t[i] # x  BY <1>1 DEF Waiters
  <2>2. ASSUME NEW i \in 1 .. Len(t), NEW j \in 1 .. Len(t), t[i] = t[j] PROVE i = j
    BY <1>1, <1>2, <2>1, <2>2 DEF Once
  <2> QED  BY <2>2 DEF Once
<1> QED  BY <1>3, <1>4 DEF t

\* The oldest waiter leaves.
LEMMA TailLine ==
  ASSUME NEW S, NEW s \in Seq(S), Once(s), s # <<>>
  PROVE  /\ Waiters(Tail(s)) = Waiters(s) \ {Head(s)}
         /\ Once(Tail(s))
         /\ Head(s) \in Waiters(s)
<1> DEFINE t == Tail(s)
<1>1. /\ Len(s) \in Nat \ {0} /\ Len(t) = Len(s) - 1 /\ Head(s) = s[1]
      /\ \A i \in 1 .. Len(t) : t[i] = s[i + 1]
  BY HeadTailProperties, EmptySeq
<1> HIDE DEF t
<1>2. \A i \in 1 .. Len(t) : i \in Nat /\ i + 1 \in 1 .. Len(s) /\ i + 1 # 1  BY <1>1
<1>3. 1 \in 1 .. Len(s)  BY <1>1
<1>4. \A i \in 1 .. Len(s) : i = 1 \/ (i - 1 \in 1 .. Len(t) /\ (i - 1) + 1 = i)  BY <1>1
<1>5. Waiters(t) = Waiters(s) \ {s[1]}
  <2>1. ASSUME NEW x \in Waiters(t) PROVE x \in Waiters(s) \ {s[1]}
    <3>1. PICK i \in 1 .. Len(t) : x = s[i + 1]  BY <1>1, <2>1 DEF Waiters
    <3> QED  BY <1>2, <1>3, <3>1 DEF Waiters, Once
  <2>2. ASSUME NEW x \in Waiters(s), x # s[1] PROVE x \in Waiters(t)
    <3>1. PICK i \in 1 .. Len(s) : x = s[i]  BY DEF Waiters
    <3>2. i - 1 \in 1 .. Len(t) /\ t[i - 1] = x  BY <1>1, <1>4, <2>2, <3>1
    <3> QED  BY <3>2 DEF Waiters
  <2> QED  BY <2>1, <2>2
<1>6. Once(t)
  <2>1. ASSUME NEW i \in 1 .. Len(t), NEW j \in 1 .. Len(t), t[i] = t[j] PROVE i = j
    <3>1. i + 1 = j + 1  BY <1>1, <1>2, <2>1 DEF Once
    <3> QED  BY <3>1
  <2> QED  BY <2>1 DEF Once
<1>7. s[1] \in Waiters(s)  BY <1>3 DEF Waiters
<1> QED  BY <1>1, <1>5, <1>6, <1>7 DEF t

\* A waiter leaves from anywhere in the line.
LEMMA WithoutLine ==
  ASSUME NEW S, NEW s \in Seq(S), Once(s), NEW k \in 1 .. Len(s), NEW t,
         t = [j \in 1 .. Len(s) - 1 |-> IF j < k THEN s[j] ELSE s[j + 1]]
  PROVE  /\ Waiters(t) = Waiters(s) \ {s[k]}
         /\ Once(t)
<1>1. Len(s) \in Nat \ {0} /\ Len(s) - 1 \in Nat /\ k \in Nat  OBVIOUS
<1>2. t \in Seq(S) /\ Len(t) = Len(s) - 1
  <2>1. t \in Seq(S)  BY WithoutIsSeq
  <2>2. DOMAIN t = 1 .. Len(s) - 1  OBVIOUS
  <2> QED  BY <1>1, <2>1, <2>2, LenProperties
<1> DEFINE from(i) == IF i < k THEN i ELSE i + 1
<1>3. \A i \in 1 .. Len(t) : t[i] = s[from(i)]  BY <1>2
<1>4. \A i \in 1 .. Len(t) : from(i) \in 1 .. Len(s) /\ from(i) # k  BY <1>1, <1>2
<1>5. \A i, j \in 1 .. Len(t) : from(i) = from(j) => i = j  BY <1>1, <1>2
<1>6. \A i \in 1 .. Len(s) : i # k => \E j \in 1 .. Len(t) : from(j) = i
  <2> TAKE i \in 1 .. Len(s)
  <2> HAVE i # k
  <2>1. CASE i < k
    <3>1. i \in 1 .. Len(t) /\ from(i) = i  BY <1>1, <1>2, <2>1
    <3> QED  BY <3>1
  <2>2. CASE i > k
    <3>1. i - 1 \in 1 .. Len(t) /\ from(i - 1) = i  BY <1>1, <1>2, <2>2
    <3> QED  BY <3>1
  <2> QED  BY <1>1, <2>1, <2>2
<1> HIDE DEF from
<1>7. Waiters(t) = Waiters(s) \ {s[k]}
  <2>1. ASSUME NEW x \in Waiters(t) PROVE x \in Waiters(s) \ {s[k]}
    <3>1. PICK i \in 1 .. Len(t) : x = s[from(i)]  BY <1>3 DEF Waiters
    <3> QED  BY <1>4, <3>1 DEF Waiters, Once
  <2>2. ASSUME NEW x \in Waiters(s), x # s[k] PROVE x \in Waiters(t)
    <3>1. PICK i \in 1 .. Len(s) : x = s[i]  BY DEF Waiters
    <3>2. PICK j \in 1 .. Len(t) : from(j) = i  BY <1>6, <2>2, <3>1
    <3> QED  BY <1>3, <3>1, <3>2 DEF Waiters
  <2> QED  BY <2>1, <2>2
<1>8. Once(t)
  <2>1. ASSUME NEW i \in 1 .. Len(t), NEW j \in 1 .. Len(t), t[i] = t[j] PROVE i = j
    BY <1>3, <1>4, <1>5, <2>1 DEF Once
  <2> QED  BY <2>1 DEF Once
<1> QED  BY <1>7, <1>8

-----------------------------------------------------------------------------
(* Who may be in a queue and among the granted                             *)

\* The requests that backend b makes wait.
Pending(b) == granted[b] \cup Waiters(queue[b])

LineInv ==
  \A b \in Backends :
    /\ Once(queue[b])
    /\ granted[b] \cap Waiters(queue[b]) = {}
    /\ \A q \in Pending(b) : pc[q] = "slot" /\ target[q] = b

\* A request that waits nowhere stands in no line.
LEMMA NotPending ==
  ASSUME LineInv, NEW r \in Requests, NEW b \in Backends,
         pc[r] # "slot" \/ target[r] # b
  PROVE  r \notin granted[b] /\ r \notin Waiters(queue[b])
BY DEF LineInv, Pending

LEMMA WaitersAreRequests ==
  ASSUME SlotTypes, NEW b \in Backends
  PROVE  Waiters(queue[b]) \subseteq Requests /\ Pending(b) \subseteq Requests
BY DEF SlotTypes, Waiters, Pending

\* What _wake_up_next() does to the line: whoever is called leaves the queue
\* for the called, and other backends see nothing of it.
LEMMA WakeLine ==
  ASSUME SlotTypes, LineInv, NEW b \in Backends, NEW free \in Nat,
         NEW called \in SUBSET granted[b], WakeNext(b, free, called)
  PROVE  /\ Once(queue'[b])
         /\ granted'[b] \cap Waiters(queue'[b]) = {}
         /\ granted'[b] \cup Waiters(queue'[b]) = called \cup Waiters(queue[b])
         /\ \A c \in Backends \ {b} :
              granted'[c] = granted[c] /\ queue'[c] = queue[c] /\ sem'[c] = sem[c]
<1>1. queue[b] \in Seq(Requests) /\ Once(queue[b]) /\ granted[b] \cap Waiters(queue[b]) = {}
  BY DEF SlotTypes, LineInv
<1>2. CASE /\ sem' = [sem EXCEPT ![b] = free]
           /\ granted' = [granted EXCEPT ![b] = called]
           /\ UNCHANGED queue
  BY <1>1, <1>2 DEF SlotTypes
<1>3. CASE /\ queue[b] # <<>>
           /\ sem' = [sem EXCEPT ![b] = free - 1]
           /\ granted' = [granted EXCEPT ![b] = called \cup {Head(queue[b])}]
           /\ queue' = [queue EXCEPT ![b] = Tail(@)]
  <2>1. /\ granted'[b] = called \cup {Head(queue[b])}
        /\ queue'[b] = Tail(queue[b])
        /\ \A c \in Backends \ {b} :
             granted'[c] = granted[c] /\ queue'[c] = queue[c] /\ sem'[c] = sem[c]
    BY <1>3 DEF SlotTypes
  <2>2. /\ Waiters(queue'[b]) = Waiters(queue[b]) \ {Head(queue[b])}
        /\ Once(queue'[b])
        /\ Head(queue[b]) \in Waiters(queue[b])
    BY <1>1, <1>3, <2>1, TailLine
  <2> QED  BY <1>1, <2>1, <2>2
<1> QED  BY <1>2, <1>3 DEF WakeNext

\* The three kinds of steps that wake the next: r is no longer called, and
\* when it leaves there is one slot more to give.
LEMMA WakingSteps ==
  ASSUME TInv, LineInv, NEW r \in Requests, NEW b \in Backends
  PROVE  /\ Resume(r, b) => WakeNext(b, sem[b], granted[b] \ {r})
         /\ Exit(r, b) \/ Decline(r, b) => WakeNext(b, sem[b] + 1, granted[b] \ {r})
         /\ sem[b] \in Nat /\ granted[b] \ {r} \in SUBSET granted[b]
<1>1. ASSUME Exit(r, b) PROVE WakeNext(b, sem[b] + 1, granted[b] \ {r})
  <2>1. r \notin granted[b]  BY <1>1, NotPending DEF Exit, InsidePlaces
  <2>2. granted[b] \ {} = granted[b] \ {r}  BY <2>1
  <2> QED  BY <1>1, <2>2 DEF Exit, LeaveSlot, ReleaseSem
<1>2. ASSUME Decline(r, b) PROVE WakeNext(b, sem[b] + 1, granted[b] \ {r})
  BY <1>2 DEF Decline, ReturnGrant, ReleaseSem
<1>3. ASSUME Resume(r, b) PROVE WakeNext(b, sem[b], granted[b] \ {r})
  BY <1>3 DEF Resume, ResumeWithSlot
<1> QED  BY <1>1, <1>2, <1>3 DEF TInv, SlotTypes

LEMMA SemIsNat ==
  ASSUME TInv, NEW b \in Backends
  PROVE  sem[b] \in Nat /\ sem[b] + 1 \in Nat
<1>1. sem[b] \in Nat  BY DEF TInv, SlotTypes
<1> QED  BY <1>1

\* The line of one backend after a step in which nobody but r changes.
LEMMA LineOf ==
  ASSUME TInv, LineInv, NEW r \in Requests, OthersStay(r), NEW b \in Backends,
         Once(queue'[b]), granted'[b] \cap Waiters(queue'[b]) = {},
         Pending(b)' \subseteq Pending(b) \cup {r},
         r \in Pending(b)' => pc'[r] = "slot" /\ target'[r] = b
  PROVE  /\ Once(queue[b])'
         /\ (granted[b] \cap Waiters(queue[b]))' = {}
         /\ \A q \in Pending(b)' : pc'[q] = "slot" /\ target'[q] = b
<1>1. ASSUME NEW q \in Pending(b)' PROVE pc'[q] = "slot" /\ target'[q] = b
  <2>1. CASE q = r  BY <2>1
  <2>2. CASE q # r
    <3>1. q \in Pending(b) /\ q \in Requests  BY <2>2, WaitersAreRequests DEF TInv
    <3>2. pc[q] = "slot" /\ target[q] = b  BY <3>1 DEF LineInv
    <3> QED  BY <2>2, <3>1, <3>2 DEF OthersStay
  <2> QED  BY <2>1, <2>2
<1> QED  BY <1>1 DEF Once, Waiters

LEMMA LineStep ==
  ASSUME TInv, LineInv, SlotStep
  PROVE  LineInv'
<1> USE DEF TInv
<1> SUFFICES ASSUME NEW c \in Backends
             PROVE  /\ Once(queue[c])'
                    /\ (granted[c] \cap Waiters(queue[c]))' = {}
                    /\ \A q \in Pending(c)' : pc'[q] = "slot" /\ target'[q] = c
  BY DEF LineInv
<1>1. Once(queue[c]) /\ granted[c] \cap Waiters(queue[c]) = {} /\ queue[c] \in Seq(Requests)
  BY DEF LineInv, SlotTypes
<1>2. Pending(c)' = granted'[c] \cup Waiters(queue'[c])  BY DEF Pending, Waiters
<1>3. ASSUME NEW r \in Requests, NEW b \in Backends, Enter(r, b) PROVE r \notin Pending(c)
  BY <1>3, NotPending DEF Enter, Outside, Pending
<1>4. ASSUME NEW r \in Requests, NEW b \in Backends, Enter(r, b)
      PROVE  /\ Once(queue'[c]) /\ granted'[c] \cap Waiters(queue'[c]) = {}
             /\ Pending(c)' \subseteq Pending(c) \ {r}
             /\ OthersStay(r)
  <2>1. UNCHANGED <<queue, granted>>  BY <1>4 DEF Enter, TakeSlot
  <2> QED  BY <1>1, <1>2, <1>3, <1>4, <2>1 DEF Enter, Pending
<1>5. ASSUME NEW r \in Requests, NEW b \in Backends, LineUp(r, b)
      PROVE  /\ Once(queue'[c]) /\ granted'[c] \cap Waiters(queue'[c]) = {}
             /\ Pending(c)' \subseteq Pending(c) \cup {r}
             /\ r \in Pending(c)' => c = b
             /\ OthersStay(r)
  <2>1. r \notin granted[c] /\ r \notin Waiters(queue[c])
    BY <1>5, NotPending DEF LineUp, Outside
  <2>2. granted' = granted /\ queue' = [queue EXCEPT ![b] = Append(@, r)]
    BY <1>5 DEF LineUp, QueueForSlot
  <2>3. CASE c = b
    <3>1. queue'[c] = Append(queue[c], r)  BY <2>2, <2>3 DEF SlotTypes
    <3>2. Waiters(queue'[c]) = Waiters(queue[c]) \cup {r} /\ Once(queue'[c])
      BY <1>1, <2>1, <3>1, AppendLine
    <3> QED  BY <1>1, <1>2, <1>5, <2>1, <2>2, <2>3, <3>2 DEF LineUp, Pending
  <2>4. CASE c # b
    <3>1. queue'[c] = queue[c]  BY <2>2, <2>4 DEF SlotTypes
    <3> QED  BY <1>1, <1>2, <1>5, <2>1, <2>2, <3>1 DEF LineUp, Pending
  <2> QED  BY <2>3, <2>4
<1>6. ASSUME NEW r \in Requests, NEW b \in Backends,
             Resume(r, b) \/ Exit(r, b) \/ Decline(r, b)
      PROVE  /\ Once(queue'[c]) /\ granted'[c] \cap Waiters(queue'[c]) = {}
             /\ Pending(c)' \subseteq Pending(c) \ {r}
             /\ OthersStay(r)
  <2>1. PICK free \in Nat : WakeNext(b, free, granted[b] \ {r})
    <3>1. sem[b] \in Nat /\ sem[b] + 1 \in Nat  BY SemIsNat
    <3> QED  BY <1>6, <3>1, WakingSteps
  <2>2. /\ Once(queue'[b]) /\ granted'[b] \cap Waiters(queue'[b]) = {}
        /\ granted'[b] \cup Waiters(queue'[b]) = (granted[b] \ {r}) \cup Waiters(queue[b])
        /\ \A d \in Backends \ {b} : granted'[d] = granted[d] /\ queue'[d] = queue[d]
    BY <2>1, WakingSteps, WakeLine
  <2>3. r \notin Waiters(queue[b])
    <3>1. CASE Exit(r, b)  BY <3>1, NotPending DEF Exit, InsidePlaces
    <3>2. CASE Resume(r, b) \/ Decline(r, b)
      BY <3>2 DEF Resume, ResumeWithSlot, Decline, ReturnGrant, LineInv
    <3> QED  BY <1>6, <3>1, <3>2
  <2>4. OthersStay(r)  BY <1>6 DEF Resume, Exit, Decline
  <2>5. CASE c = b
    BY <1>2, <2>2, <2>3, <2>4, <2>5 DEF Pending
  <2>6. CASE c # b
    <3>1. r \notin granted[c] /\ r \notin Waiters(queue[c])
      BY <1>6, <2>6, NotPending DEF Resume, Exit, Decline, InsidePlaces
    <3>2. granted'[c] = granted[c] /\ queue'[c] = queue[c]  BY <2>2, <2>6
    <3> QED  BY <1>1, <1>2, <2>4, <3>1, <3>2 DEF Pending
  <2> QED  BY <2>5, <2>6
<1>7. ASSUME NEW r \in Requests, NEW b \in Backends, GiveUpPlace(r, b)
      PROVE  /\ Once(queue'[c]) /\ granted'[c] \cap Waiters(queue'[c]) = {}
             /\ Pending(c)' \subseteq Pending(c) \ {r}
             /\ OthersStay(r)
  <2>1. PICK k \in 1 .. Len(queue[b]) :
          /\ queue[b][k] = r
          /\ queue' = [queue EXCEPT ![b] =
               [j \in 1 .. Len(@) - 1 |-> IF j < k THEN @[j] ELSE @[j + 1]]]
    BY <1>7 DEF GiveUpPlace, LeaveQueue
  <2>2. granted' = granted  BY <1>7 DEF GiveUpPlace, LeaveQueue
  <2>3. CASE c = b
    <3>1. queue'[c] = [j \in 1 .. Len(queue[c]) - 1 |->
                         IF j < k THEN queue[c][j] ELSE queue[c][j + 1]]
      BY <2>1, <2>3 DEF SlotTypes
    <3>2. Waiters(queue'[c]) = Waiters(queue[c]) \ {r} /\ Once(queue'[c])
      <4>1. k \in 1 .. Len(queue[c]) /\ queue[c][k] = r  BY <2>1, <2>3
      <4> DEFINE s == queue[c]
                 t == queue'[c]
      <4>2. /\ s \in Seq(Requests) /\ Once(s) /\ k \in 1 .. Len(s)
            /\ t = [j \in 1 .. Len(s) - 1 |-> IF j < k THEN s[j] ELSE s[j + 1]]
        BY <1>1, <3>1, <4>1
      <4> HIDE DEF s, t
      <4>3. Waiters(t) = Waiters(s) \ {s[k]} /\ Once(t)  BY <4>2, WithoutLine
      <4> QED  BY <4>1, <4>3 DEF s, t
    <3>3. r \in Waiters(queue[c])  BY <2>1, <2>3 DEF Waiters
    <3> QED  BY <1>1, <1>2, <1>7, <2>2, <3>2, <3>3 DEF GiveUpPlace, Pending
  <2>4. CASE c # b
    <3>1. queue'[c] = queue[c]  BY <2>1, <2>4 DEF SlotTypes
    <3>2. r \notin granted[c] /\ r \notin Waiters(queue[c])
      BY <1>7, <2>4, NotPending DEF GiveUpPlace
    <3> QED  BY <1>1, <1>2, <1>7, <2>2, <3>1, <3>2 DEF GiveUpPlace, Pending
  <2> QED  BY <2>3, <2>4
<1>8. CASE Neutral
  <2>1. UNCHANGED <<queue, granted>>  BY <1>8 DEF Neutral, slots
  <2>2. ASSUME NEW q \in Pending(c) PROVE pc'[q] = "slot" /\ target'[q] = c
    <3>1. q \in Requests /\ pc[q] = "slot" /\ target[q] = c
      BY WaitersAreRequests DEF LineInv
    <3> QED  BY <1>8, <3>1 DEF Neutral, Outside, InsidePlaces
  <2> QED  BY <1>1, <1>2, <2>1, <2>2 DEF Pending
<1> QED
  <2>1. ASSUME NEW r \in Requests, NEW b \in Backends, LineUp(r, b)
        PROVE  r \in Pending(c)' => pc'[r] = "slot" /\ target'[r] = c
    BY <1>5, <2>1 DEF LineUp
  <2> QED  BY <1>4, <1>5, <1>6, <1>7, <1>8, <2>1, LineOf DEF SlotStep

-----------------------------------------------------------------------------
(* Counting                                                                *)

LEMMA HoldersFinite ==
  ASSUME TInv, NEW b \in Backends
  PROVE  IsFiniteSet(Inside(b)) /\ IsFiniteSet(Holders(b)) /\ IsFiniteSet(granted[b])
<1>1. Inside(b) \subseteq Requests /\ granted[b] \subseteq Requests
  BY DEF Inside, TInv, SlotTypes
<1>2. Holders(b) \subseteq Requests  BY <1>1 DEF Holders
<1> QED  BY <1>1, <1>2, PoolAssumption, FS_Subset

LEMMA AddOne ==
  ASSUME NEW S, NEW x, IsFiniteSet(S), x \notin S
  PROVE  Cardinality(S \cup {x}) = Cardinality(S) + 1 /\ Cardinality(S) \in Nat
BY FS_AddElement, FS_CardinalityType

LEMMA RemoveOne ==
  ASSUME NEW S, NEW x, IsFiniteSet(S), x \in S
  PROVE  /\ Cardinality(S \ {x}) = Cardinality(S) - 1
         /\ Cardinality(S) \in Nat \ {0}
         /\ IsFiniteSet(S \ {x})
<1>1. /\ IsFiniteSet(S \ {x}) /\ Cardinality(S \ {x}) = Cardinality(S) - 1
  BY FS_RemoveElement
<1>2. Cardinality(S) \in Nat /\ Cardinality(S \ {x}) \in Nat
  BY <1>1, FS_CardinalityType
<1> QED  BY <1>1, <1>2

\* Only r moves in or out.
LEMMA InsideAfter ==
  ASSUME NEW r \in Requests, OthersStay(r), NEW c
  PROVE  Inside(c)' = IF pc'[r] \in InsidePlaces /\ target'[r] = c
                      THEN Inside(c) \cup {r} ELSE Inside(c) \ {r}
BY DEF Inside, InsidePlaces, OthersStay

\* What the properties say of one backend.
Accounted(b) ==
  /\ sem[b] + Cardinality(Holders(b)) = Capacity[b]
  /\ inflight[b] = Cardinality(Inside(b))
  /\ queue[b] # <<>> /\ sem[b] > 0 => granted[b] # {}

\* Nothing the properties look at changes.
LEMMA Untouched ==
  ASSUME NEW c, Accounted(c), sem'[c] = sem[c], inflight'[c] = inflight[c],
         granted'[c] = granted[c],
         Holders(c)' = Holders(c), Inside(c)' = Inside(c),
         queue'[c] # <<>> => queue[c] # <<>>
  PROVE  Accounted(c)'
BY DEF Accounted

\* A step at backend b leaves the others alone.
LEMMA ElsewhereUntouched ==
  ASSUME TInv, LineInv, NEW r \in Requests, NEW b \in Backends, NEW c \in Backends \ {b},
         Accounted(c),
         \/ Enter(r, b) \/ LineUp(r, b) \/ Resume(r, b) \/ Exit(r, b)
         \/ GiveUpPlace(r, b) \/ Decline(r, b)
  PROVE  Accounted(c)'
<1> USE DEF TInv, SlotTypes
<1>1. /\ sem'[c] = sem[c] /\ inflight'[c] = inflight[c]
      /\ granted'[c] = granted[c] /\ queue'[c] = queue[c]
  <2>1. CASE Enter(r, b)  BY <2>1 DEF Enter, TakeSlot
  <2>2. CASE LineUp(r, b)  BY <2>2 DEF LineUp, QueueForSlot
  <2>3. CASE Resume(r, b) \/ Exit(r, b) \/ Decline(r, b)
    <3>1. inflight'[c] = inflight[c]
      BY <2>3 DEF Resume, ResumeWithSlot, Exit, LeaveSlot, Decline, ReturnGrant
    <3>2. PICK free \in Nat : WakeNext(b, free, granted[b] \ {r})
      <4>1. sem[b] \in Nat /\ sem[b] + 1 \in Nat  BY SemIsNat
      <4> QED  BY <2>3, <4>1, WakingSteps
    <3> QED  BY <3>1, <3>2, WakingSteps, WakeLine
  <2>5. CASE GiveUpPlace(r, b)  BY <2>5 DEF GiveUpPlace, LeaveQueue
  <2> QED  BY <2>1, <2>2, <2>3, <2>5
<1>2. Inside(c)' = Inside(c)
  <2>1. /\ OthersStay(r)
        /\ r \notin Inside(c)
        /\ ~(pc'[r] \in InsidePlaces /\ target'[r] = c)
    BY DEF Enter, LineUp, Resume, Exit, GiveUpPlace, Decline, Outside, Inside, InsidePlaces
  <2>2. Inside(c)' = Inside(c) \ {r}  BY <2>1, InsideAfter
  <2>3. Inside(c) \ {r} = Inside(c)  BY <2>1
  <2> QED  BY <2>2, <2>3
<1>3. Holders(c)' = Holders(c)  BY <1>1, <1>2 DEF Holders
<1> QED  BY <1>1, <1>2, <1>3, Untouched

\* A slot is taken or queued for.
LEMMA ArrivalCounts ==
  ASSUME TInv, LineInv, NEW r \in Requests, NEW b \in Backends, Accounted(b),
         Enter(r, b) \/ LineUp(r, b)
  PROVE  Accounted(b)'
<1> USE DEF TInv, SlotTypes
<1>1. /\ sem[b] \in Nat /\ inflight[b] \in Nat
      /\ IsFiniteSet(Inside(b)) /\ IsFiniteSet(Holders(b))
      /\ r \notin Inside(b)
  BY HoldersFinite DEF Enter, LineUp, Outside, Inside, InsidePlaces
<1>2. CASE Enter(r, b)
  <2>1. Inside(b)' = Inside(b) \cup {r}  BY <1>2, InsideAfter DEF Enter, InsidePlaces
  <2>2. r \notin Holders(b)  BY <1>1, <1>2, NotPending DEF Enter, Outside, Holders
  <2>3. /\ sem'[b] = sem[b] - 1 /\ inflight'[b] = inflight[b] + 1
        /\ granted'[b] = granted[b] /\ queue'[b] = <<>>
    BY <1>2 DEF Enter, TakeSlot, SlotFree
  <2>4. Holders(b)' = Holders(b) \cup {r}  BY <2>1, <2>3 DEF Holders
  <2>5. /\ Cardinality(Holders(b)') = Cardinality(Holders(b)) + 1
        /\ Cardinality(Inside(b)') = Cardinality(Inside(b)) + 1
        /\ Cardinality(Holders(b)) \in Nat
    BY <1>1, <2>1, <2>2, <2>4, AddOne
  <2> QED  BY <1>1, <2>3, <2>5 DEF Accounted
<1>3. CASE LineUp(r, b)
  <2>1. Inside(b)' = Inside(b)
    <3>1. Inside(b)' = Inside(b) \ {r}  BY <1>3, InsideAfter DEF LineUp, InsidePlaces
    <3>2. Inside(b) \ {r} = Inside(b)  BY <1>1
    <3> QED  BY <3>1, <3>2
  <2>2. sem' = sem /\ inflight' = inflight /\ granted' = granted /\ ~SlotFree(b)
    BY <1>3 DEF LineUp, QueueForSlot
  <2>3. Holders(b)' = Holders(b)  BY <2>1, <2>2 DEF Holders
  <2>4. sem[b] > 0 => granted[b] # {}  BY <1>1, <2>2 DEF SlotFree, Accounted
  <2> QED  BY <2>1, <2>2, <2>3, <2>4 DEF Accounted
<1> QED  BY <1>2, <1>3

\* The next in line is called: with the slots that held keep and those that
\* are free, all are accounted for before and after.
LEMMA WakeCounts ==
  ASSUME TInv, LineInv, NEW b \in Backends, NEW free \in Nat,
         NEW called \in SUBSET granted[b], WakeNext(b, free, called),
         NEW held \in SUBSET Holders(b), free + Cardinality(held) = Capacity[b],
         Holders(b)' = held \cup (granted'[b] \ called)
  PROVE  /\ sem'[b] + Cardinality(Holders(b)') = Capacity[b]
         /\ queue'[b] # <<>> /\ sem'[b] > 0 => granted'[b] # {}
<1> USE DEF TInv, SlotTypes
<1>1. queue[b] \in Seq(Requests) /\ IsFiniteSet(held) /\ Cardinality(held) \in Nat
  BY HoldersFinite, FS_Subset, FS_CardinalityType
<1>2. CASE /\ queue[b] = <<>> \/ free = 0
           /\ sem' = [sem EXCEPT ![b] = free]
           /\ granted' = [granted EXCEPT ![b] = called]
           /\ UNCHANGED queue
  <2>1. sem'[b] = free /\ granted'[b] = called /\ queue'[b] = queue[b]  BY <1>2
  <2>2. Holders(b)' = held  BY <2>1
  <2>3. sem'[b] + Cardinality(Holders(b)') = Capacity[b]  BY <2>1, <2>2
  <2>4. queue'[b] # <<>> => ~(sem'[b] > 0)  BY <1>2, <2>1
  <2> QED  BY <2>3, <2>4
<1>3. CASE /\ queue[b] # <<>> /\ free > 0
           /\ sem' = [sem EXCEPT ![b] = free - 1]
           /\ granted' = [granted EXCEPT ![b] = called \cup {Head(queue[b])}]
  <2> DEFINE first == Head(queue[b])
  <2>1. sem'[b] = free - 1 /\ granted'[b] = called \cup {first}  BY <1>3
  <2>2. first \in Waiters(queue[b])
    BY <1>1, <1>3, TailLine DEF LineInv
  <2>3. first \notin granted[b] /\ pc[first] = "slot"
    BY <2>2 DEF LineInv, Pending
  <2>4. first \notin held  BY <2>3 DEF Holders, Inside
  <2>5. Holders(b)' = held \cup {first}  BY <2>1, <2>3
  <2>6. Cardinality(Holders(b)') = Cardinality(held) + 1
    BY <1>1, <2>4, <2>5, AddOne
  <2>7. sem'[b] + Cardinality(Holders(b)') = Capacity[b]  BY <1>1, <2>1, <2>6
  <2>8. granted'[b] # {}  BY <2>1
  <2> QED  BY <2>7, <2>8
<1> QED  BY <1>2, <1>3 DEF WakeNext

\* Who holds a slot after the next in line was called.
LEMMA HoldersAfterWake ==
  ASSUME TInv, LineInv, NEW r \in Requests, NEW b \in Backends,
         Resume(r, b) \/ Exit(r, b) \/ Decline(r, b)
  PROVE  Holders(b)' = (IF Resume(r, b) THEN Holders(b) ELSE Holders(b) \ {r})
                         \cup (granted'[b] \ (granted[b] \ {r}))
<1>1. PICK free \in Nat : WakeNext(b, free, granted[b] \ {r})
  <2>1. sem[b] \in Nat /\ sem[b] + 1 \in Nat  BY SemIsNat
  <2> QED  BY <2>1, WakingSteps
<1>2. granted[b] \ {r} \subseteq granted'[b]
  BY <1>1 DEF WakeNext, TInv, SlotTypes
<1>3. CASE Resume(r, b)
  <2>1. Inside(b)' = Inside(b) \cup {r}  BY <1>3, InsideAfter DEF Resume, InsidePlaces
  <2>2. r \in granted[b]  BY <1>3 DEF Resume, ResumeWithSlot
  <2> QED  BY <1>2, <1>3, <2>1, <2>2 DEF Holders
<1>4. CASE Exit(r, b) \/ Decline(r, b)
  <2>1. Inside(b)' = Inside(b) \ {r}  BY <1>4, InsideAfter DEF Exit, Decline, Outside
  <2>2. ~Resume(r, b)
    BY <1>4 DEF Exit, Decline, Resume, Outside, InsidePlaces
  <2>3. r \notin granted'[b]
    <3>1. r \notin Waiters(queue[b])
      <4>1. CASE Exit(r, b)  BY <4>1, NotPending DEF Exit, InsidePlaces
      <4>2. CASE Decline(r, b)  BY <4>2 DEF Decline, ReturnGrant, LineInv
      <4> QED  BY <1>4, <4>1, <4>2
    <3>2. granted'[b] \subseteq (granted[b] \ {r}) \cup Waiters(queue[b])
      BY <1>1, WakingSteps, WakeLine DEF TInv
    <3> QED  BY <3>1, <3>2
  <2> QED  BY <1>2, <2>1, <2>2, <2>3 DEF Holders
<1> QED  BY <1>3, <1>4

\* A called request comes, or one that has a slot leaves: the slots that are
\* free to be given, and those who keep theirs.
LEMMA WakeBalance ==
  ASSUME TInv, LineInv, NEW r \in Requests, NEW b \in Backends, Accounted(b)
  PROVE  /\ Resume(r, b) => sem[b] + Cardinality(Holders(b)) = Capacity[b]
         /\ Exit(r, b) \/ Decline(r, b) =>
              /\ r \in Holders(b)
              /\ (sem[b] + 1) + Cardinality(Holders(b) \ {r}) = Capacity[b]
<1>1. IsFiniteSet(Holders(b)) /\ sem[b] \in Nat
  BY HoldersFinite DEF TInv, SlotTypes
<1>2. ASSUME Exit(r, b) \/ Decline(r, b)
      PROVE  /\ r \in Holders(b)
             /\ (sem[b] + 1) + Cardinality(Holders(b) \ {r}) = Capacity[b]
  <2>1. r \in Holders(b)
    BY <1>2 DEF Exit, Decline, ReturnGrant, Holders, Inside, InsidePlaces
  <2>2. /\ Cardinality(Holders(b) \ {r}) = Cardinality(Holders(b)) - 1
        /\ Cardinality(Holders(b)) \in Nat \ {0}
    BY <1>1, <2>1, RemoveOne
  <2> QED  BY <1>1, <2>1, <2>2 DEF Accounted
<1> QED  BY <1>2 DEF Accounted

\* A called request comes and calls the next, or a slot is given back.
LEMMA WakingCounts ==
  ASSUME TInv, LineInv, NEW r \in Requests, NEW b \in Backends, Accounted(b),
         Resume(r, b) \/ Exit(r, b) \/ Decline(r, b)
  PROVE  Accounted(b)'
<1> USE DEF TInv, SlotTypes
<1>1. /\ sem[b] \in Nat /\ inflight[b] \in Nat /\ sem[b] + 1 \in Nat
      /\ IsFiniteSet(Inside(b))
      /\ granted[b] \ {r} \in SUBSET granted[b]
  BY HoldersFinite
<1>2. /\ sem'[b] + Cardinality(Holders(b)') = Capacity[b]
      /\ queue'[b] # <<>> /\ sem'[b] > 0 => granted'[b] # {}
  <2>1. CASE Resume(r, b)
    <3>1. /\ WakeNext(b, sem[b], granted[b] \ {r})
          /\ sem[b] + Cardinality(Holders(b)) = Capacity[b]
          /\ Holders(b)' = Holders(b) \cup (granted'[b] \ (granted[b] \ {r}))
      BY <2>1, WakingSteps, WakeBalance, HoldersAfterWake
    <3> QED  BY <1>1, <3>1, WakeCounts
  <2>2. CASE Exit(r, b) \/ Decline(r, b)
    <3>1. ~Resume(r, b)
      BY <2>2 DEF Exit, Decline, Resume, Outside, InsidePlaces
    <3>2. /\ WakeNext(b, sem[b] + 1, granted[b] \ {r})
          /\ (sem[b] + 1) + Cardinality(Holders(b) \ {r}) = Capacity[b]
          /\ Holders(b)' = (Holders(b) \ {r}) \cup (granted'[b] \ (granted[b] \ {r}))
      BY <2>2, <3>1, WakingSteps, WakeBalance, HoldersAfterWake
    <3>3. Holders(b) \ {r} \in SUBSET Holders(b)  OBVIOUS
    <3> QED  BY <1>1, <3>2, <3>3, WakeCounts
  <2> QED  BY <2>1, <2>2
<1>3. inflight'[b] = Cardinality(Inside(b)')
  <2>1. CASE Resume(r, b)
    <3>1. Inside(b)' = Inside(b) \cup {r}  BY <2>1, InsideAfter DEF Resume, InsidePlaces
    <3>2. r \notin Inside(b)  BY <2>1 DEF Resume, Inside
    <3>3. inflight'[b] = inflight[b] + 1  BY <2>1 DEF Resume, ResumeWithSlot
    <3> QED  BY <1>1, <3>1, <3>2, <3>3, AddOne DEF Accounted
  <2>2. CASE Exit(r, b)
    <3>1. Inside(b)' = Inside(b) \ {r}  BY <2>2, InsideAfter DEF Exit, Outside
    <3>2. r \in Inside(b)  BY <2>2 DEF Exit, Inside, InsidePlaces
    <3>3. /\ Cardinality(Inside(b)') = Cardinality(Inside(b)) - 1
          /\ Cardinality(Inside(b)) \in Nat \ {0}
      BY <1>1, <3>1, <3>2, RemoveOne
    <3>4. inflight'[b] = IF inflight[b] > 0 THEN inflight[b] - 1 ELSE 0
      BY <2>2 DEF Exit, LeaveSlot
    <3> QED  BY <3>3, <3>4 DEF Accounted
  <2>3. CASE Decline(r, b)
    <3>1. Inside(b)' = Inside(b) \ {r}  BY <2>3, InsideAfter DEF Decline, Outside
    <3>2. r \notin Inside(b)  BY <2>3 DEF Decline, Inside
    <3>3. Inside(b)' = Inside(b)  BY <3>1, <3>2
    <3>4. inflight' = inflight  BY <2>3 DEF Decline, ReturnGrant
    <3> QED  BY <3>3, <3>4 DEF Accounted
  <2> QED  BY <2>1, <2>2, <2>3
<1> QED  BY <1>2, <1>3 DEF Accounted

\* A place in the line is given up.
LEMMA GiveUpCounts ==
  ASSUME TInv, LineInv, NEW r \in Requests, NEW b \in Backends, Accounted(b),
         GiveUpPlace(r, b)
  PROVE  Accounted(b)'
<1>1. r \notin Inside(b) /\ Inside(b)' = Inside(b) \ {r}
  BY InsideAfter DEF GiveUpPlace, Outside, Inside
<1>2. UNCHANGED <<sem, granted, inflight>> /\ queue[b] # <<>>
  BY DEF GiveUpPlace, LeaveQueue
<1>3. Inside(b)' = Inside(b) /\ Holders(b)' = Holders(b)  BY <1>1, <1>2 DEF Holders
<1> QED  BY <1>2, <1>3, Untouched

SInv == TInv /\ LineInv /\ \A b \in Backends : Accounted(b)

LEMMA InitSlots == Init => SInv
<1> SUFFICES ASSUME Init PROVE SInv  OBVIOUS
<1>1. LineInv  BY DEF Init, PoolInit, LineInv, Pending, Once, Waiters
<1>2. ASSUME NEW b \in Backends PROVE Accounted(b)
  <2>1. Inside(b) = {} /\ Holders(b) = {}
    BY DEF Init, PoolInit, Inside, Holders
  <2>2. Capacity[b] \in Nat  BY PoolAssumption
  <2> QED  BY <2>1, <2>2, FS_EmptySet DEF Init, PoolInit, Accounted
<1> QED  BY <1>1, <1>2, InitTypes DEF SInv

LEMMA StepSlots == SInv /\ [Next]_vars => SInv'
<1> SUFFICES ASSUME SInv, [Next]_vars PROVE SInv'  OBVIOUS
<1>1. TInv' /\ SlotStep  BY StepTypes, StepKinds DEF SInv
<1>2. LineInv'  BY <1>1, LineStep DEF SInv
<1>3. ASSUME NEW c \in Backends PROVE Accounted(c)'
  <2>1. ASSUME NEW r \in Requests, NEW b \in Backends,
               \/ Enter(r, b) \/ LineUp(r, b) \/ Resume(r, b) \/ Exit(r, b)
               \/ GiveUpPlace(r, b) \/ Decline(r, b)
        PROVE  Accounted(c)'
    BY <2>1, ElsewhereUntouched, ArrivalCounts, WakingCounts, GiveUpCounts DEF SInv
  <2>2. CASE Neutral
    <3>1. UNCHANGED <<sem, queue, granted, inflight>>  BY <2>2 DEF Neutral, slots
    <3>2. Inside(c)' = Inside(c)
      BY <2>2 DEF Neutral, Inside, Outside, InsidePlaces
    <3>3. Holders(c)' = Holders(c)  BY <3>1, <3>2 DEF Holders
    <3> QED  BY <3>1, <3>2, <3>3, Untouched DEF SInv
  <2> QED  BY <1>1, <2>1, <2>2 DEF SlotStep
<1> QED  BY <1>1, <1>2, <1>3 DEF SInv

\* The strengthened invariant: what each backend's slots add up to, and who
\* may stand in its line.
THEOREM SlotsInvariant == Spec => []SInv
BY InitSlots, StepSlots, PTL DEF Spec

\* No slot is lost and none is given twice, however attempts end.
THEOREM FlowSlotAccounting == Spec => []SlotAccounting
<1>1. SInv => SlotAccounting  BY DEF SInv, Accounted, SlotAccounting
<1> QED  BY <1>1, SlotsInvariant, PTL

\* Nobody waits for a slot beside a free one unless someone has been called
\* who will call the next.
THEOREM FlowNoSlotIdleBesideQueue == Spec => []NoSlotIdleBesideQueue
<1>1. SInv => NoSlotIdleBesideQueue  BY DEF SInv, Accounted, NoSlotIdleBesideQueue
<1> QED  BY <1>1, SlotsInvariant, PTL

-----------------------------------------------------------------------------
(* RequestFlow implements SlotPool, for every configuration: the requests  *)
(* that were handed a slot or are inside a backend are its holders, those  *)
(* that have not run since are called, the semaphore's queue is the line.  *)
(* Each of the seven kinds of slot steps is one action of SlotPool or a    *)
(* stutter.                                                                *)

\* The mapping of holders.
HoldersOf == [b \in Backends |-> Holders(b)]

\* SlotPool's Cardinality is FiniteSets', read through the instance.
LEMMA SameCardinality == \A S : SlotDiscipline!Cardinality(S) = Cardinality(S)
BY DEF Cardinality, SlotDiscipline!Cardinality

\* What a step does to the holders of the backend it works on.
LEMMA HoldersChange ==
  ASSUME TInv, LineInv, NEW r \in Requests, NEW b \in Backends,
         \/ Enter(r, b) \/ LineUp(r, b) \/ Resume(r, b) \/ Exit(r, b)
         \/ GiveUpPlace(r, b) \/ Decline(r, b)
  PROVE  HoldersOf' = [HoldersOf EXCEPT ![b] = Holders(b)']
<1>1. ASSUME NEW c \in Backends \ {b} PROVE Holders(c)' = Holders(c)
  <2>1. granted'[c] = granted[c]
    <3>1. CASE Enter(r, b)  BY <3>1 DEF Enter, TakeSlot
    <3>2. CASE LineUp(r, b)  BY <3>2 DEF LineUp, QueueForSlot
    <3>3. CASE Resume(r, b) \/ Exit(r, b) \/ Decline(r, b)
      <4>1. PICK free \in Nat : WakeNext(b, free, granted[b] \ {r})
        <5>1. sem[b] \in Nat /\ sem[b] + 1 \in Nat  BY SemIsNat
        <5> QED  BY <3>3, <5>1, WakingSteps
      <4> QED  BY <4>1, WakingSteps, WakeLine DEF TInv
    <3>5. CASE GiveUpPlace(r, b)  BY <3>5 DEF GiveUpPlace, LeaveQueue
    <3> QED  BY <3>1, <3>2, <3>3, <3>5
  <2>2. /\ OthersStay(r)
        /\ r \notin Inside(c)
        /\ ~(pc'[r] \in InsidePlaces /\ target'[r] = c)
    BY DEF Enter, LineUp, Resume, Exit, GiveUpPlace, Decline, Outside, Inside, InsidePlaces
  <2>3. Inside(c)' = Inside(c) \ {r}  BY <2>2, InsideAfter
  <2>4. Inside(c) \ {r} = Inside(c)  BY <2>2
  <2> QED  BY <2>1, <2>3, <2>4 DEF Holders
<1> QED  BY <1>1 DEF HoldersOf

\* A request that neither holds nor awaits a slot may join.
LEMMA MayJoin ==
  ASSUME TInv, LineInv, NEW r \in Requests, Outside(r), NEW c \in Backends
  PROVE  r \notin HoldersOf[c] /\ ~SlotDiscipline!Waits(c, r)
<1>1. r \notin granted[c] /\ r \notin Waiters(queue[c])
  BY NotPending DEF Outside
<1>2. r \notin Inside(c)  BY DEF Outside, Inside, InsidePlaces
<1> QED  BY <1>1, <1>2 DEF HoldersOf, Holders, Waiters, SlotDiscipline!Waits

LEMMA JoinStep ==
  ASSUME SInv, NEW r \in Requests, NEW b \in Backends, Enter(r, b) \/ LineUp(r, b)
  PROVE  SlotDiscipline!Join(b, r)
<1> USE DEF SInv
<1>1. \A c \in Backends : r \notin HoldersOf[c] /\ ~SlotDiscipline!Waits(c, r)
  BY MayJoin DEF Enter, LineUp
<1>2. /\ HoldersOf[b] = Holders(b)
      /\ HoldersOf' = [HoldersOf EXCEPT ![b] = Holders(b)']
  BY HoldersChange DEF HoldersOf
<1>3. sem[b] \in Nat /\ Capacity[b] \in Nat /\ Cardinality(Holders(b)) \in Nat
  BY HoldersFinite, FS_CardinalityType, PoolAssumption DEF TInv, SlotTypes
<1>4. SlotDiscipline!FreeToEnter(b) <=> SlotFree(b)
  <2>1. SlotDiscipline!Full(b, HoldersOf[b]) <=> sem[b] = 0
    BY <1>2, <1>3, SameCardinality DEF Accounted, SlotDiscipline!Full
  <2> QED  BY <1>3, <2>1 DEF SlotDiscipline!FreeToEnter, SlotFree, HoldersOf
<1>5. CASE Enter(r, b)
  <2>1. Inside(b)' = Inside(b) \cup {r}  BY <1>5, InsideAfter DEF Enter, InsidePlaces
  <2>2. queue' = queue /\ granted' = granted /\ SlotFree(b)  BY <1>5 DEF Enter, TakeSlot
  <2>3. Holders(b)' = Holders(b) \cup {r}  BY <2>1, <2>2 DEF Holders
  <2>4. HoldersOf' = [HoldersOf EXCEPT ![b] = @ \cup {r}]  BY <1>2, <2>3
  <2> QED  BY <1>1, <1>4, <2>2, <2>4 DEF SlotDiscipline!Join, HoldersOf
<1>6. CASE LineUp(r, b)
  <2>1. ~SlotFree(b) /\ queue' = [queue EXCEPT ![b] = Append(@, r)] /\ granted' = granted
    BY <1>6 DEF LineUp, QueueForSlot
  <2>2. r \notin Inside(b) /\ Inside(b)' = Inside(b) \ {r}
    BY <1>6, InsideAfter DEF LineUp, Outside, Inside, InsidePlaces
  <2>3. Holders(b)' = Holders(b)  BY <2>1, <2>2 DEF Holders
  <2>4. HoldersOf' = HoldersOf  BY <1>2, <2>3 DEF HoldersOf
  <2> QED  BY <1>1, <1>4, <2>1, <2>4 DEF SlotDiscipline!Join, HoldersOf
<1> QED  BY <1>5, <1>6

\* Waking the next is calling the next, when the free slots are those that
\* nobody in held has.
LEMMA CallStep ==
  ASSUME SInv, NEW b \in Backends, NEW free \in Nat, NEW called \in SUBSET granted[b],
         WakeNext(b, free, called), NEW held \in SUBSET Holders(b),
         free + Cardinality(held) = Capacity[b],
         Holders(b)' = held \cup (granted'[b] \ called),
         HoldersOf' = [HoldersOf EXCEPT ![b] = Holders(b)']
  PROVE  SlotDiscipline!CallNext(b, held, called)
<1> USE DEF SInv, TInv, SlotTypes
<1>1. IsFiniteSet(held) /\ Cardinality(held) \in Nat /\ Capacity[b] \in Nat
  BY HoldersFinite, FS_Subset, FS_CardinalityType, PoolAssumption
<1>2. SlotDiscipline!Full(b, held) <=> free = 0
  BY <1>1, SameCardinality DEF SlotDiscipline!Full
<1>3. CASE /\ queue[b] = <<>> \/ free = 0
           /\ granted' = [granted EXCEPT ![b] = called]
           /\ UNCHANGED queue
  <2>1. Holders(b)' = held  BY <1>3
  <2>2. HoldersOf' = [HoldersOf EXCEPT ![b] = held]  BY <2>1
  <2> QED  BY <1>2, <1>3, <2>2 DEF SlotDiscipline!CallNext, HoldersOf
<1>4. CASE /\ queue[b] # <<>> /\ free > 0
           /\ granted' = [granted EXCEPT ![b] = called \cup {Head(queue[b])}]
           /\ queue' = [queue EXCEPT ![b] = Tail(@)]
  <2>1. Head(queue[b]) \notin called
    <3>1. queue[b] \in Seq(Requests)  OBVIOUS
    <3>2. Head(queue[b]) \in Waiters(queue[b])  BY <1>4, <3>1, TailLine DEF LineInv
    <3> QED  BY <3>2 DEF LineInv
  <2>2. Holders(b)' = held \cup {Head(queue[b])}  BY <1>4, <2>1
  <2>3. HoldersOf' = [HoldersOf EXCEPT ![b] = held \cup {Head(queue[b])}]  BY <2>2
  <2> QED  BY <1>1, <1>2, <1>4, <2>3 DEF SlotDiscipline!CallNext, HoldersOf
<1> QED  BY <1>3, <1>4 DEF WakeNext

\* A request that was called comes.
LEMMA ComeStep ==
  ASSUME SInv, NEW r \in Requests, NEW b \in Backends, Resume(r, b)
  PROVE  SlotDiscipline!Come(b, r)
<1> USE DEF SInv
<1>1. /\ WakeNext(b, sem[b], granted[b] \ {r})
      /\ sem[b] \in Nat /\ granted[b] \ {r} \in SUBSET granted[b]
      /\ sem[b] + Cardinality(Holders(b)) = Capacity[b]
  BY WakingSteps, WakeBalance
<1>2. Holders(b)' = Holders(b) \cup (granted'[b] \ (granted[b] \ {r}))
  BY HoldersAfterWake
<1>3. /\ HoldersOf[b] = Holders(b)
      /\ HoldersOf' = [HoldersOf EXCEPT ![b] = Holders(b)']
  BY HoldersChange DEF HoldersOf
<1>4. SlotDiscipline!CallNext(b, Holders(b), granted[b] \ {r})
  BY <1>1, <1>2, <1>3, CallStep
<1>5. r \in granted[b]  BY DEF Resume, ResumeWithSlot
<1> QED  BY <1>3, <1>4, <1>5 DEF SlotDiscipline!Come, HoldersOf

\* A request that has a slot gives it back, whether it used it or not.
LEMMA LeaveStep ==
  ASSUME SInv, NEW r \in Requests, NEW b \in Backends, Exit(r, b) \/ Decline(r, b)
  PROVE  SlotDiscipline!Leave(b, r)
<1> USE DEF SInv
<1>1. /\ WakeNext(b, sem[b] + 1, granted[b] \ {r})
      /\ sem[b] + 1 \in Nat /\ granted[b] \ {r} \in SUBSET granted[b]
      /\ r \in Holders(b)
      /\ (sem[b] + 1) + Cardinality(Holders(b) \ {r}) = Capacity[b]
  BY WakingSteps, WakeBalance
<1>2. Holders(b)' = (Holders(b) \ {r}) \cup (granted'[b] \ (granted[b] \ {r}))
  <2>1. ~Resume(r, b)  BY DEF Exit, Decline, Resume, Outside, InsidePlaces
  <2> QED  BY <2>1, HoldersAfterWake
<1>3. /\ HoldersOf[b] = Holders(b)
      /\ HoldersOf' = [HoldersOf EXCEPT ![b] = Holders(b)']
  BY HoldersChange DEF HoldersOf
<1>4. Holders(b) \ {r} \in SUBSET Holders(b)  OBVIOUS
<1>5. SlotDiscipline!CallNext(b, Holders(b) \ {r}, granted[b] \ {r})
  BY <1>1, <1>2, <1>3, <1>4, CallStep
<1> QED  BY <1>1, <1>3, <1>5 DEF SlotDiscipline!Leave, HoldersOf

LEMMA AbandonStep ==
  ASSUME SInv, NEW r \in Requests, NEW b \in Backends, GiveUpPlace(r, b)
  PROVE  SlotDiscipline!Abandon(b, r)
<1> USE DEF SInv
<1>1. HoldersOf' = [HoldersOf EXCEPT ![b] = Holders(b)']  BY HoldersChange
<1>2. r \notin Inside(b) /\ Inside(b)' = Inside(b) \ {r}
  BY InsideAfter DEF GiveUpPlace, Outside, Inside
<1>3. Holders(b)' = Holders(b)  BY <1>2 DEF GiveUpPlace, LeaveQueue, Holders
<1>4. HoldersOf' = HoldersOf  BY <1>1, <1>3 DEF HoldersOf
<1> QED  BY <1>4
         DEF GiveUpPlace, LeaveQueue, SlotDiscipline!Abandon, SlotDiscipline!Without, HoldersOf

\* What requests do that leaves the slots alone is nothing to SlotPool.
LEMMA StutterStep ==
  ASSUME SInv, Neutral
  PROVE  UNCHANGED <<HoldersOf, granted, queue>>
<1>1. UNCHANGED <<queue, granted>>  BY DEF Neutral, slots
<1>2. \A c \in Backends : Inside(c)' = Inside(c)
  BY DEF Neutral, Inside, Outside, InsidePlaces
<1> QED  BY <1>1, <1>2 DEF HoldersOf, Holders

\* The semaphore with its queue, the hand-over and every way out of use()
\* implement the slot discipline: at most max_concurrency requests hold a
\* slot, in order of arrival, and every slot comes back.
THEOREM FlowImplementsSlotPool == Spec => ImplementsSlotPool
<1>1. Init => SlotDiscipline!Init
  BY DEF Init, PoolInit, SlotDiscipline!Init, Holders, Inside
<1>2. SInv /\ [Next]_vars => [SlotDiscipline!Next]_SlotDiscipline!slotVars
  <2> SUFFICES ASSUME SInv, [Next]_vars
               PROVE  SlotDiscipline!Next \/ UNCHANGED <<HoldersOf, granted, queue>>
    BY DEF SlotDiscipline!slotVars, HoldersOf
  <2>1. SlotStep  BY StepKinds DEF SInv
  <2>2. ASSUME NEW r \in Requests, NEW b \in Backends,
               \/ Enter(r, b) \/ LineUp(r, b) \/ Resume(r, b) \/ Exit(r, b)
               \/ Decline(r, b) \/ GiveUpPlace(r, b)
        PROVE  SlotDiscipline!Next
    BY <2>2, JoinStep, ComeStep, LeaveStep, AbandonStep DEF SlotDiscipline!Next
  <2> QED  BY <2>1, <2>2, StutterStep DEF SlotStep
<1> QED
  BY <1>1, <1>2, SlotsInvariant, PTL DEF Spec, ImplementsSlotPool, SlotDiscipline!Spec
=============================================================================
