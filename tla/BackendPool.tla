---------------------------- MODULE BackendPool -----------------------------
(***************************************************************************)
(* The pool (backends/pool.py): for every backend a circuit breaker, a     *)
(* health flag, a token bucket and a semaphore of max_concurrency slots,   *)
(* and for the pool as a whole the cursors of its two strategies.  This    *)
(* module has the pool's variables and what each operation does to them;   *)
(* RequestFlow has the requests that perform the operations.               *)
(*                                                                         *)
(* The proxy runs on one asyncio event loop: code between two awaits that  *)
(* really suspend is one step.                                             *)
(*                                                                         *)
(* asyncio.Semaphore is not the repository's: it is modelled as the FIFO   *)
(* semaphore of Python 3.11 (the Dockerfile's), whose release() hands the  *)
(* slot to the oldest waiter.  That task runs later; until then it is in   *)
(* granted, a newcomer stands in line even beside a free slot (locked()),  *)
(* and when it runs it hands the next free slot to the next in line.       *)
(***************************************************************************)
EXTENDS CircuitBreaker, HealthWatcher, Strategies, Sequences

CONSTANTS Requests,        \* the client requests in flight at one time
          Capacity,        \* Capacity[b]: max_concurrency
          RateMode,        \* RateMode[b]: "off", "wait" or "reject"
          Burst,           \* Burst[b]: size of the token bucket
          Strategy,        \* routing.strategy
          Fallback,        \* routing.fallback
          HealthEnabled,   \* routing.health_check.enabled
          CursorWrap       \* bound: cursors are kept modulo this number

ASSUME PoolAssumption ==
  /\ IsFiniteSet(Requests)
  /\ Capacity \in [Backends -> Nat \ {0}]
  /\ RateMode \in [Backends -> {"off", "wait", "reject"}]
  /\ Burst \in [Backends -> Nat]
  /\ Strategy \in StrategyNames \ {"none"}
  /\ Fallback \in {"round_robin", "least_busy", "none"}
  /\ HealthEnabled \in BOOLEAN
  /\ CursorWrap \in Nat \ {0}

\* A cursor is only used modulo the length of a ring of backends, so it may
\* wrap at any common multiple of the lengths.
ASSUME CursorAssumption == \A n \in Backends : CursorWrap % n = 0

VARIABLES breaker,    \* breaker[b]: see CircuitBreaker
          health,     \* health[b]: see HealthWatcher
          toProbe,    \* backends the running round of probes has yet to hear of
          tokens,     \* tokens[b]: whole tokens in the bucket
          sem,        \* sem[b]: value of the semaphore
          queue,      \* queue[b]: tasks suspended in sem.acquire(), oldest first
          granted,    \* granted[b]: tasks handed a slot that have not run since
          inflight,   \* inflight[b]: backend._inflight
          cursor      \* cursor of the primary and of the fallback strategy

slots == <<sem, queue, granted, inflight>>
poolVars == <<breaker, health, toProbe, tokens, slots, cursor>>

\* start() asks every backend once and takes the answer for the flag, then
\* starts the watcher, whose first round begins at once.
PoolInit ==
  /\ breaker = [b \in Backends |-> NewBreaker]
  /\ health \in [Backends -> {[healthy |-> up, fails |-> 0, oks |-> 0] : up \in BOOLEAN}]
  /\ toProbe = IF HealthEnabled THEN Backends ELSE {}
  /\ tokens = Burst
  /\ sem = Capacity
  /\ queue = [b \in Backends |-> <<>>]
  /\ granted = [b \in Backends |-> {}]
  /\ inflight = [b \in Backends |-> 0]
  /\ cursor = [primary |-> 0, fallback |-> 0]

-----------------------------------------------------------------------------
(* pick()                                                                  *)

\* Mutant: the safety net consults the health flags as well.
Available_OnlyHealthy ==
  {b \in Backends : IsAvailable(breaker[b]) /\ health[b].healthy}

Available == {b \in Backends : IsAvailable(breaker[b])}

Candidates == {b \in Available : health[b].healthy}

PrimaryRing(model) == Ring(Strategy, Candidates, model, inflight)

FallbackRing == Ring(Fallback, Candidates, NoModel, inflight)

Advanced(c) == (c + 1) % CursorWrap

\* Nothing passes both filters: the health flags are ignored.
ProbeBypass(b) ==
  /\ Candidates = {}
  /\ At(Available, 0, b)
  /\ UNCHANGED cursor

PickPrimary(model, b) ==
  /\ RoundRobin(PrimaryRing(model), cursor.primary, b)
  /\ cursor' = [cursor EXCEPT !.primary = Advanced(@)]

PickFallback(model, b) ==
  /\ PrimaryRing(model) = {}
  /\ RoundRobin(FallbackRing, cursor.fallback, b)
  /\ cursor' = [cursor EXCEPT !.fallback = Advanced(@)]

\* No strategy has an opinion: the first candidate.
PickFirst(model, b) ==
  /\ PrimaryRing(model) = {}
  /\ FallbackRing = {}
  /\ At(Candidates, 0, b)
  /\ UNCHANGED cursor

Pick(model, b) ==
  \/ ProbeBypass(b)
  \/ PickPrimary(model, b)
  \/ PickFallback(model, b)
  \/ PickFirst(model, b)

\* Whatever is picked, every breaker has been asked.
QueryBreakers == breaker' = [b \in Backends |-> Queried(breaker[b])]

-----------------------------------------------------------------------------
(* use(): the token, the slot, and what the end of the block records       *)

\* Mutant: the bucket is not looked at before a token is taken.
HasToken_Unchecked(b) == TRUE

HasToken(b) == RateMode[b] = "off" \/ tokens[b] >= 1

TakeToken(b) ==
  tokens' = IF RateMode[b] = "off" THEN tokens ELSE [tokens EXCEPT ![b] = @ - 1]

\* Mutant: a newcomer goes by the count alone.
SlotFree_CountOnly(b) == sem[b] > 0

\* ~sem.locked()
SlotFree(b) == sem[b] > 0 /\ queue[b] = <<>> /\ granted[b] = {}

\* _wake_up_next(), once: free slots, and the tasks called that have not run.
WakeNext(b, free, called) ==
  \/ /\ queue[b] = <<>> \/ free = 0
     /\ sem' = [sem EXCEPT ![b] = free]
     /\ granted' = [granted EXCEPT ![b] = called]
     /\ UNCHANGED queue
  \/ /\ queue[b] # <<>> /\ free > 0
     /\ sem' = [sem EXCEPT ![b] = free - 1]
     /\ granted' = [granted EXCEPT ![b] = called \cup {Head(queue[b])}]
     /\ queue' = [queue EXCEPT ![b] = Tail(@)]

TakeSlot(b) ==
  /\ SlotFree(b)
  /\ sem' = [sem EXCEPT ![b] = @ - 1]
  /\ inflight' = [inflight EXCEPT ![b] = @ + 1]
  /\ UNCHANGED <<queue, granted>>

QueueForSlot(r, b) ==
  /\ ~SlotFree(b)
  /\ queue' = [queue EXCEPT ![b] = Append(@, r)]
  /\ UNCHANGED <<sem, granted, inflight>>

\* Mutant: the task that runs again takes its slot and calls nobody.
ResumeWithSlot_CallsNobody(r, b) ==
  /\ r \in granted[b]
  /\ granted' = [granted EXCEPT ![b] = @ \ {r}]
  /\ inflight' = [inflight EXCEPT ![b] = @ + 1]
  /\ UNCHANGED <<sem, queue>>

\* The task that was handed a slot runs again; if slots are still free it
\* calls the next in line.
ResumeWithSlot(r, b) ==
  /\ r \in granted[b]
  /\ WakeNext(b, sem[b], granted[b] \ {r})
  /\ inflight' = [inflight EXCEPT ![b] = @ + 1]

\* sem.release(); leaving is the set of granted tasks that give up theirs.
ReleaseSem(b, leaving) == WakeNext(b, sem[b] + 1, granted[b] \ leaving)

\* Mutant: the finally block counts but does not release.
LeaveSlot_WithoutRelease(b) ==
  /\ inflight' = [inflight EXCEPT ![b] = IF @ > 0 THEN @ - 1 ELSE 0]
  /\ UNCHANGED <<sem, queue, granted>>

\* The finally block of use().
LeaveSlot(b) ==
  /\ inflight' = [inflight EXCEPT ![b] = IF @ > 0 THEN @ - 1 ELSE 0]
  /\ ReleaseSem(b, {})

\* Cancelled while suspended in sem.acquire(): out of the queue, or, if the
\* slot had just been handed over, the slot goes to the next in line.
LeaveQueue(r, b) ==
  /\ \E i \in 1 .. Len(queue[b]) :
       /\ queue[b][i] = r
       /\ queue' = [queue EXCEPT ![b] =
            [j \in 1 .. Len(@) - 1 |-> IF j < i THEN @[j] ELSE @[j + 1]]]
  /\ UNCHANGED <<sem, granted, inflight>>

ReturnGrant(r, b) ==
  /\ r \in granted[b]
  /\ ReleaseSem(b, {r})
  /\ UNCHANGED inflight

Record(b, ok) ==
  breaker' = [breaker EXCEPT ![b] = IF ok THEN RecordSuccess(@) ELSE RecordFailure(@)]

-----------------------------------------------------------------------------
(* The watcher and the clock                                               *)

\* _probe(b) hears its answer.  A round asks every backend once.
Probe(b, ok) ==
  /\ b \in toProbe
  /\ toProbe' = toProbe \ {b}
  /\ health' = [health EXCEPT ![b] = Probed(@, ok)]
  /\ IF FlipsUnhealthy(health[b], ok) THEN Record(b, FALSE) ELSE UNCHANGED breaker
  /\ UNCHANGED <<tokens, slots, cursor>>

\* The interval between two rounds of probes passes: cooldowns run, buckets
\* gain a token, and the watcher starts a round unless one is running.
Tick ==
  /\ breaker' = [b \in Backends |-> Aged(breaker[b])]
  /\ tokens' = [b \in Backends |-> IF tokens[b] < Burst[b] THEN tokens[b] + 1 ELSE tokens[b]]
  /\ toProbe' = IF HealthEnabled /\ toProbe = {} THEN Backends ELSE toProbe
  /\ UNCHANGED <<health, slots, cursor>>
=============================================================================
