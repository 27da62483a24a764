---------------------------- MODULE TokenBucket -----------------------------
(***************************************************************************)
(* One token bucket (backends/rate_limit.py) and the tasks that take from  *)
(* it.  The floats of the code are whole numbers here: a token is Unit     *)
(* units, the clock ticks, and Rate units accrue per tick.                 *)
(*                                                                         *)
(* The bucket's lock is never held across an await, so the code between    *)
(* two sleeps is one step.                                                 *)
(***************************************************************************)
EXTENDS Naturals

CONSTANTS Tasks,
          Impatient,  \* the tasks that call acquire(mode="reject")
          Returning,  \* the tasks that come back for another token
          Unit,       \* units in one token
          Rate,       \* rps: units per tick
          Burst,      \* burst, in units; the schema allows less than one token
          LastTick    \* bound: from this tick on nobody comes back and the
                      \* history variables stand still

ASSUME BucketAssumption == /\ Impatient \subseteq Tasks
                           /\ Returning \subseteq Tasks
                           /\ Unit \in Nat \ {0}
                           /\ Rate \in Nat \ {0}
                           /\ Burst \in Nat \ {0}
                           /\ LastTick \in Nat

VARIABLES tokens,   \* _tokens, in units
          elapsed,  \* time.monotonic() - _last, at most the time of a full refill
          state,    \* state[t]: "new", "asleep", "served" or "refused"
          sleep,    \* sleep[t]: ticks before the sleep of t may end
          clock,    \* history: ticks since the start, up to LastTick
          taken     \* history: tokens taken up to tick LastTick

bucketVars == <<tokens, elapsed, state, sleep, clock, taken>>

Least(a, b) == IF a < b THEN a ELSE b

\* Refilling is capped, so time beyond a full refill makes no difference.
Long == Burst

\* Mutant: the bucket overflows.
Refilled_Uncapped == tokens + elapsed * Rate

Refilled == Least(Burst, tokens + elapsed * Rate)

\* The whole ticks of need / rps.
TicksFor(need) == (need + Rate - 1) \div Rate

BucketInit == /\ tokens = Burst
        /\ elapsed = 0
        /\ state = [t \in Tasks |-> "new"]
        /\ sleep = [t \in Tasks |-> 0]
        /\ clock = 0
        /\ taken = 0

Take(t) ==
  /\ Refilled >= Unit
  /\ tokens' = Refilled - Unit
  /\ state' = [state EXCEPT ![t] = "served"]
  /\ taken' = IF clock < LastTick THEN taken + 1 ELSE taken
  /\ UNCHANGED sleep

Refuse(t) ==
  /\ Refilled < Unit
  /\ t \in Impatient
  /\ tokens' = Refilled
  /\ state' = [state EXCEPT ![t] = "refused"]
  /\ UNCHANGED <<sleep, taken>>

FallAsleep(t) ==
  /\ Refilled < Unit
  /\ t \notin Impatient
  /\ tokens' = Refilled
  /\ state' = [state EXCEPT ![t] = "asleep"]
  /\ sleep' = [sleep EXCEPT ![t] = TicksFor(Unit - Refilled)]
  /\ UNCHANGED taken

\* The first section of acquire().
Acquire(t) ==
  /\ state[t] = "new"
  /\ Take(t) \/ Refuse(t) \/ FallAsleep(t)
  /\ elapsed' = 0
  /\ UNCHANGED clock

\* Mutant: waking up does not move _last.
Wake_KeepsLast(t) ==
  /\ state[t] = "asleep"
  /\ sleep[t] = 0
  /\ Take(t) \/ FallAsleep(t)
  /\ UNCHANGED <<elapsed, clock>>

\* Mutant: a task that another one beat to the token gives up.
Wake_WithoutRetry(t) ==
  /\ state[t] = "asleep"
  /\ sleep[t] = 0
  /\ \/ Take(t)
     \/ /\ Refilled < Unit
        /\ tokens' = Refilled
        /\ state' = [state EXCEPT ![t] = "refused"]
        /\ UNCHANGED <<sleep, taken>>
  /\ elapsed' = 0
  /\ UNCHANGED clock

\* The sleep ends: take the token or, when another task was faster, begin
\* again and fall asleep for what is missing now.
Wake(t) ==
  /\ state[t] = "asleep"
  /\ sleep[t] = 0
  /\ Take(t) \/ FallAsleep(t)
  /\ elapsed' = 0
  /\ UNCHANGED clock

\* The caller's next request.
ComeBack(t) ==
  /\ t \in Returning
  /\ state[t] \in {"served", "refused"}
  /\ clock < LastTick
  /\ state' = [state EXCEPT ![t] = "new"]
  /\ UNCHANGED <<tokens, elapsed, sleep, clock, taken>>

BucketTick ==
  /\ elapsed' = Least(Long, elapsed + 1)
  /\ sleep' = [t \in Tasks |-> IF sleep[t] > 0 THEN sleep[t] - 1 ELSE 0]
  /\ clock' = Least(LastTick, clock + 1)
  /\ UNCHANGED <<tokens, state, taken>>

BucketNext == \/ \E t \in Tasks : Acquire(t) \/ Wake(t) \/ ComeBack(t)
        \/ BucketTick

BucketSpec == BucketInit /\ [][BucketNext]_bucketVars

\* The event loop runs a task whose sleep is over, and time passes.
FairBucketSpec == /\ BucketSpec
            /\ WF_bucketVars(BucketTick)
            /\ \A t \in Tasks : WF_bucketVars(Wake(t))

-----------------------------------------------------------------------------

\* The type invariant.
BucketTypeOK == /\ tokens \in 0 .. Burst
          /\ elapsed \in 0 .. Long
          /\ state \in [Tasks -> {"new", "asleep", "served", "refused"}]
          /\ sleep \in [Tasks -> Nat]
          /\ clock \in 0 .. LastTick
          /\ taken \in Nat

\* The limiter limits: whatever the number of tasks, their modes and the
\* order in which sleepers wake, the tokens taken by tick n are at most the
\* burst and what accrued in n ticks.  (Recomputing the bucket lazily, in two
\* places, from one shared _last, never credits a stretch of time twice.)
RateBound == taken * Unit <= Burst + clock * Rate

\* What makes RateBound inductive: what is in the bucket, what is owed to it
\* for the time since _last, and what was taken out, is never more than that.
Budget ==
  clock < LastTick => tokens + elapsed * Rate + taken * Unit <= Burst + clock * Rate

\* A task that waits for a token gets one, if only finitely many others
\* compete with it ("Bounded recursion: rps>0 ensures progress").
SleepersServed == \A t \in Tasks : state[t] = "asleep" ~> state[t] = "served"
=============================================================================
