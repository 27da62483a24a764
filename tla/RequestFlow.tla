---------------------------- MODULE RequestFlow -----------------------------
(***************************************************************************)
(* The life of a client request: the three loops of backends/retry.py, the *)
(* slot each attempt takes in BackendPool, and the end of the stream as    *)
(* the API handlers bring it about.                                        *)
(*                                                                         *)
(* pc[r] is the await request r is suspended in:                           *)
(*   idle       no request; result[r] says how the last one ended          *)
(*   token      the sleep of TokenBucket.acquire(mode="wait")              *)
(*   slot       sem.acquire()                                              *)
(*   calling    the upstream call (for a stream: up to its first chunk)    *)
(*   streaming  the client reads the stream; the slot is still held        *)
(*   dropped    cancelled where nothing calls the slot's __aexit__; the    *)
(*              slot stays taken until Python finalises the generator      *)
(*   backoff    the sleep before the next attempt                          *)
(***************************************************************************)
EXTENDS BackendPool

CONSTANTS Kind,            \* Kind[r]: "json", "stream" or "passthrough"
          ModelOf,         \* ModelOf[r]: a model or NoModel
          RoutingRetries,  \* routing.retry.max_retries
          BackendRetries,  \* BackendRetries[b]: its own max_retries ...
          NoOverride       \* ... or this, when the backend has no retry section

ASSUME FlowAssumption ==
  /\ Kind \in [Requests -> {"json", "stream", "passthrough"}]
  /\ ModelOf \in [Requests -> Models \cup {NoModel}]
  /\ RoutingRetries \in Nat
  /\ NoOverride \notin Nat
  /\ BackendRetries \in [Backends -> Nat \cup {NoOverride}]

VARIABLES pc, target, attempt, result,
          faults,  \* history: faults of b since its last good call: failed
                   \* calls, and times its health flag went down (a stream that
                   \* breaks after its first chunk is none: see MCSingleBackend)
          failed,  \* history: the failed calls among them
          missed   \* history: failed probes of b since its last good call

history == <<faults, failed, missed>>
flowVars == <<pc, target, attempt, result>>
vars == <<poolVars, flowVars, history>>

(***************************************************************************)
(* How an upstream call ends: a 2xx answer; a 4xx that is not retried; a   *)
(* 429; a 5xx of the retryable list or a connection error or timeout; any  *)
(* other exception (a 501, a body that is no JSON, a broken chunk).        *)
(* passthrough() returns an answer of any status as it is.                 *)
(***************************************************************************)
Outcomes(kind) ==
  IF kind = "passthrough" THEN {"ok", "server_error", "broken"}
  ELSE {"ok", "client_error", "throttled", "server_error", "broken"}

AllOutcomes == Outcomes("json")

\* Mutant: an upstream 429 counts against the breaker.
ClientErrors_Without429 == {"client_error"}

ClientErrors == {"client_error", "throttled"}

RetryableOutcomes == {"throttled", "server_error"}

\* What the client of the last request got: the last three are the
\* proxy's own.
Results == {"none", "ok", "error", "retryable_error",
            "no_backend", "rate_limited", "cancelled"}

ResultOf(o) == CASE o = "ok" -> "ok"
                 [] o \in RetryableOutcomes -> "retryable_error"
                 [] OTHER -> "error"

EffectiveRetries(b) ==
  IF BackendRetries[b] = NoOverride THEN RoutingRetries ELSE BackendRetries[b]

\* Not a backend: request r is bound for none.
NoTarget == 0

\* The model's own verdict on an answer, for the history variable.
BackendAtFault(o) == o \in {"server_error", "broken"}

\* The histories stop counting where no property can tell any more.
Faulted(b) == faults' = [faults EXCEPT ![b] = CountFailure(@)]

EnoughMissed == UnhealthyThreshold * FailuresThreshold

CallFailed(b) == /\ Faulted(b)
                 /\ failed' = [failed EXCEPT ![b] = CountFailure(@)]
                 /\ UNCHANGED missed

CallWentWell(b) == /\ faults' = [faults EXCEPT ![b] = 0]
                   /\ failed' = [failed EXCEPT ![b] = 0]
                   /\ missed' = [missed EXCEPT ![b] = 0]

Init ==
  /\ PoolInit
  /\ pc = [r \in Requests |-> "idle"]
  /\ target = [r \in Requests |-> NoTarget]
  /\ attempt = [r \in Requests |-> 0]
  /\ result = [r \in Requests |-> "none"]
  /\ faults = [b \in Backends |-> 0]
  /\ failed = [b \in Backends |-> 0]
  /\ missed = [b \in Backends |-> 0]

\* Suspended in an await; the loop keeps its local variables.
GoTo(r, place) == /\ pc' = [pc EXCEPT ![r] = place]
                  /\ UNCHANGED <<target, attempt, result>>

\* The loop returns or raises, and its local variables are gone.
EndWith(r, how) == /\ pc' = [pc EXCEPT ![r] = "idle"]
                   /\ target' = [target EXCEPT ![r] = NoTarget]
                   /\ attempt' = [attempt EXCEPT ![r] = 0]
                   /\ result' = [result EXCEPT ![r] = how]

\* Attempt n goes on at place, bound for backend b.
Proceed(r, n, b, place) == /\ pc' = [pc EXCEPT ![r] = place]
                           /\ target' = [target EXCEPT ![r] = b]
                           /\ attempt' = [attempt EXCEPT ![r] = n]
                           /\ result' = [result EXCEPT ![r] = "none"]

-----------------------------------------------------------------------------
(* An attempt begins.  From pick() to the first await that suspends is one *)
(* step: the bucket's lock is never held across an await, and a free       *)
(* semaphore is taken without suspending.                                  *)

AcquireSlot(r, n, b) ==
  \/ TakeSlot(b) /\ Proceed(r, n, b, "calling")
  \/ QueueForSlot(r, b) /\ Proceed(r, n, b, "slot")

Admit(r, n, b) ==
  \/ /\ HasToken(b)
     /\ TakeToken(b)
     /\ AcquireSlot(r, n, b)
  \/ /\ ~HasToken(b)
     /\ RateMode[b] = "wait"
     /\ Proceed(r, n, b, "token")
     /\ UNCHANGED <<tokens, slots>>
  \/ /\ ~HasToken(b)
     /\ RateMode[b] = "reject"
     /\ EndWith(r, "rate_limited")
     /\ UNCHANGED <<tokens, slots>>

Attempt(r, n) ==
  /\ QueryBreakers
  /\ \/ /\ Available = {}
        /\ EndWith(r, "no_backend")
        /\ UNCHANGED <<tokens, slots, cursor>>
     \/ \E b \in Available : Pick(ModelOf[r], b) /\ Admit(r, n, b)
  /\ UNCHANGED <<health, toProbe, history>>

Arrive(r) == pc[r] = "idle" /\ Attempt(r, 0)

RetryAfterBackoff(r) ==
  /\ pc[r] = "backoff"
  /\ attempt[r] < RoutingRetries
  /\ Attempt(r, attempt[r] + 1)

\* The for loop runs out although the attempt was told to retry.
GiveUpAfterBackoff(r) ==
  /\ pc[r] = "backoff"
  /\ attempt[r] >= RoutingRetries
  /\ EndWith(r, "retryable_error")
  /\ UNCHANGED <<poolVars, history>>

\* The sleep of acquire() ends with a token to take; without one it sleeps on.
WakeWithToken(r) ==
  LET b == target[r]
  IN  /\ pc[r] = "token"
      /\ HasToken(b)
      /\ TakeToken(b)
      /\ AcquireSlot(r, attempt[r], b)
      /\ UNCHANGED <<breaker, health, toProbe, cursor, history>>

ResumeInSlot(r) ==
  /\ pc[r] = "slot"
  /\ ResumeWithSlot(r, target[r])
  /\ GoTo(r, "calling")
  /\ UNCHANGED <<breaker, health, toProbe, tokens, cursor, history>>

-----------------------------------------------------------------------------
(* An attempt ends                                                         *)

\* A stream's first chunk is there: the slot goes to the handler.
StreamStarts(r) ==
  /\ pc[r] = "calling"
  /\ Kind[r] = "stream"
  /\ GoTo(r, "streaming")
  /\ UNCHANGED <<poolVars, history>>

\* Mutant: one retry too few.
Retries_OffByOne(r, o) ==
  o \in RetryableOutcomes /\ attempt[r] + 1 < EffectiveRetries(target[r])

Retries(r, o) == o \in RetryableOutcomes /\ attempt[r] < EffectiveRetries(target[r])

Answer(r, o) ==
  LET b == target[r]
  IN  /\ pc[r] = "calling"
      /\ o \in Outcomes(Kind[r])
      /\ Kind[r] = "stream" => o # "ok"
      /\ Record(b, o = "ok" \/ o \in ClientErrors)
      /\ LeaveSlot(b)
      /\ IF Retries(r, o) THEN GoTo(r, "backoff") ELSE EndWith(r, ResultOf(o))
      /\ IF BackendAtFault(o) THEN CallFailed(b) ELSE CallWentWell(b)
      /\ UNCHANGED <<health, toProbe, tokens, cursor>>

\* The handlers end a stream with slot.__aexit__(None, None, None), however
\* it ended: with the last byte, with an error of the upstream or a timeout,
\* or with a client that went away.
StreamEnds(r, how) ==
  LET b == target[r]
  IN  /\ pc[r] = "streaming"
      /\ Record(b, TRUE)
      /\ LeaveSlot(b)
      /\ EndWith(r, how)
      /\ CallWentWell(b)
      /\ UNCHANGED <<health, toProbe, tokens, cursor>>

(***************************************************************************)
(* The task is cancelled.  A json or passthrough call leaves through the   *)
(* finally of use(); CancelledError is no Exception, so nothing is         *)
(* recorded.  A stream that has not begun to be read has nobody to leave   *)
(* its slot.                                                               *)
(***************************************************************************)
Cancel(r) ==
  LET b == target[r]
  IN  /\ \/ /\ pc[r] \in {"token", "backoff"}
            /\ UNCHANGED slots
            /\ EndWith(r, "cancelled")
         \/ /\ pc[r] = "slot"
            /\ LeaveQueue(r, b) \/ ReturnGrant(r, b)
            /\ EndWith(r, "cancelled")
         \/ /\ pc[r] = "calling"
            /\ Kind[r] # "stream"
            /\ LeaveSlot(b)
            /\ EndWith(r, "cancelled")
         \/ /\ pc[r] \in {"calling", "streaming"}
            /\ Kind[r] = "stream"
            /\ GoTo(r, "dropped")
            /\ UNCHANGED slots
      /\ UNCHANGED <<breaker, health, toProbe, tokens, cursor, history>>

\* The event loop finalises the abandoned generator: GeneratorExit at the
\* yield of use(), so only its finally runs.
Reclaim(r) ==
  /\ pc[r] = "dropped"
  /\ LeaveSlot(target[r])
  /\ EndWith(r, "cancelled")
  /\ UNCHANGED <<breaker, health, toProbe, tokens, cursor, history>>

-----------------------------------------------------------------------------

\* A flag that goes down is a fault for the history variables.
WatcherProbes(b, ok) ==
  /\ Probe(b, ok)
  /\ IF health[b].healthy /\ ~health'[b].healthy THEN Faulted(b) ELSE UNCHANGED faults
  /\ missed' = IF ok THEN missed ELSE [missed EXCEPT ![b] = UpTo(EnoughMissed, @)]
  /\ UNCHANGED <<flowVars, failed>>

ClockTicks == Tick /\ UNCHANGED <<flowVars, history>>

Next ==
  \/ \E r \in Requests :
       \/ Arrive(r)
       \/ RetryAfterBackoff(r)
       \/ GiveUpAfterBackoff(r)
       \/ WakeWithToken(r)
       \/ ResumeInSlot(r)
       \/ StreamStarts(r)
       \/ \E o \in AllOutcomes : Answer(r, o)
       \/ \E how \in {"ok", "error", "cancelled"} : StreamEnds(r, how)
       \/ Cancel(r)
       \/ Reclaim(r)
  \/ \E b \in Backends, ok \in BOOLEAN : WatcherProbes(b, ok)
  \/ ClockTicks

Spec == Init /\ [][Next]_vars

(***************************************************************************)
(* The event loop runs every task that can run, the clock ticks, an        *)
(* upstream call ends (httpx has a timeout on every call) and a stream     *)
(* ends (with_timeout bounds it).  Clients, probes and cancellations owe   *)
(* nothing.  No task is favoured: of two tasks that race for something the *)
(* same one may lose every time, so all fairness is weak.                  *)
(***************************************************************************)
Fairness ==
  /\ \A r \in Requests :
       /\ WF_vars(RetryAfterBackoff(r))
       /\ WF_vars(GiveUpAfterBackoff(r))
       /\ WF_vars(WakeWithToken(r))
       /\ WF_vars(ResumeInSlot(r))
       /\ WF_vars(StreamStarts(r) \/ \E o \in AllOutcomes : Answer(r, o))
       /\ WF_vars(\E how \in {"ok", "error", "cancelled"} : StreamEnds(r, how))
       /\ WF_vars(Reclaim(r))
  /\ WF_vars(ClockTicks)

FairSpec == Spec /\ Fairness

\* Clients that never stop sending requests.
BusySpec == FairSpec /\ \A r \in Requests : WF_vars(Arrive(r))

-----------------------------------------------------------------------------
(* What holds in every state                                               *)

\* The type invariant.
TypeOK ==
  /\ breaker \in [Backends -> Breaker]
  /\ health \in [Backends -> Monitor]
  /\ toProbe \in SUBSET Backends
  /\ tokens \in [Backends -> Nat]
  /\ sem \in [Backends -> Nat]
  /\ queue \in [Backends -> Seq(Requests)]
  /\ granted \in [Backends -> SUBSET Requests]
  /\ inflight \in [Backends -> Nat]
  /\ cursor \in [primary : 0 .. CursorWrap - 1, fallback : 0 .. CursorWrap - 1]
  /\ pc \in [Requests -> {"idle", "token", "slot", "calling", "streaming", "dropped", "backoff"}]
  /\ target \in [Requests -> Backends \cup {NoTarget}]
  /\ attempt \in [Requests -> 0 .. RoutingRetries]
  /\ result \in [Requests -> Results]
  /\ faults \in [Backends -> 0 .. FailuresThreshold]
  /\ failed \in [Backends -> 0 .. FailuresThreshold]
  /\ missed \in [Backends -> 0 .. EnoughMissed]

Inside(b) == {r \in Requests : target[r] = b /\ pc[r] \in {"calling", "streaming", "dropped"}}

Holders(b) == granted[b] \cup Inside(b)

\* No slot is lost and none is given twice: over every way an attempt can end
\* (an answer, a stream given up, a cancellation while waiting, while being
\* handed the slot, or with the slot in hand) the semaphore of a backend and
\* the requests that hold one of its slots add up to max_concurrency, and the
\* _inflight counter LeastBusy compares is the number of requests inside.
SlotAccounting ==
  \A b \in Backends :
    /\ sem[b] + Cardinality(Holders(b)) = Capacity[b]
    /\ inflight[b] = Cardinality(Inside(b))

\* Nobody waits beside a free slot but for a task that has been called and
\* will, when it runs, call the next: a slot that is given back, declined by a
\* cancelled waiter or found free by a task that was called reaches the next
\* in the queue (release() and the end of acquire() in asyncio.Semaphore).
NoSlotIdleBesideQueue ==
  \A b \in Backends : queue[b] # <<>> /\ sem[b] > 0 => granted[b] # {}

\* The breaker is driven by the backend's faults alone (failed calls, and the
\* one failure a health flag records when it goes down): it is closed exactly
\* as long as fewer than failures_threshold of them came in a row.  Answers
\* the client is to blame for (4xx, 429), requests the local limiter turned
\* away and cancelled calls never open it (pool.py: "it must NOT count").
BreakerFollowsFaults ==
  \A b \in Backends :
    /\ breaker[b].failures = faults[b]
    /\ breaker[b].state = "closed" <=> faults[b] < FailuresThreshold

\* A request ends with an error that can be retried only when the retries of
\* the backend that gave it are used up, whichever backends the earlier
\* attempts went to (retry.py: "Per-backend wins").
GivesUpOnlyWhenExhausted ==
  [][ \A r \in Requests :
        pc[r] # "idle" /\ pc'[r] = "idle" /\ result'[r] = "retryable_error"
          => attempt[r] >= EffectiveRetries(target[r]) ]_vars

\* A request is refused for want of a backend only while every breaker is
\* cooling down, and behind each of them are, since the last good call,
\* failures_threshold faults: failed calls, or else unhealthy_threshold failed
\* probes for every fault that was none (the first of these runs of probes
\* may have begun before the good call).  Flags that are down refuse nobody by
\* themselves, and a probe that fails now and then opens no breaker (the
\* safety net of pick(), the hysteresis of _probe()).
RefusedOnlyByOpenBreakers ==
  [][ \A r \in Requests :
        result'[r] = "no_backend" /\ result[r] # "no_backend"
          => \A b \in Backends :
               /\ breaker[b].cooling > 0
               /\ UnhealthyThreshold * FailuresThreshold
                    < UnhealthyThreshold * failed[b] + missed[b] + UnhealthyThreshold ]_vars

\* The semaphore, the queue and the unwinding of use() implement the slot
\* discipline of SlotPool.
SlotDiscipline == INSTANCE SlotPool WITH
  holders <- [b \in Backends |-> Holders(b)],
  called <- granted,
  line <- queue

ImplementsSlotPool == SlotDiscipline!Spec

\* Every request that got past the limiter gets its slot, its answer, its
\* retries and its end, or comes back to wait for a token: no slot is waited
\* for in vain and no retry loop goes round for ever.
RequestMovesOn ==
  \A r \in Requests :
    pc[r] \notin {"idle", "token"} ~> pc[r] \in {"idle", "token"}
=============================================================================
