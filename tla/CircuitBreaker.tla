--------------------------- MODULE CircuitBreaker ---------------------------
(***************************************************************************)
(* One circuit breaker per backend (backends/circuit_breaker.py).  The     *)
(* breaker is a value, and each method of the class is an operator on it;  *)
(* BackendPool keeps one breaker per backend and says when the methods     *)
(* run.  Every method runs under the breaker's own lock, so each operator  *)
(* is one step.                                                            *)
(*                                                                         *)
(* Two abstractions of the data, neither of which the code can tell apart: *)
(*  - _opened_at is kept as the number of clock ticks the cooldown still   *)
(*    has to run (cooling), 0 when now - _opened_at >= cooldown_s;         *)
(*  - _failures is only ever compared with failures_threshold, so it       *)
(*    stops counting there.                                                *)
(***************************************************************************)
EXTENDS Naturals

CONSTANTS FailuresThreshold,  \* routing.circuit_breaker.failures
          Cooldown            \* routing.circuit_breaker.cooldown_s, in ticks

ASSUME BreakerAssumption == /\ FailuresThreshold \in Nat \ {0}
                            /\ Cooldown \in Nat

Breaker == [state    : {"closed", "open", "half_open"},
            failures : 0 .. FailuresThreshold,
            cooling  : 0 .. Cooldown]

NewBreaker == [state |-> "closed", failures |-> 0, cooling |-> 0]

\* What is_available answers ...
IsAvailable(br) == br.state = "open" => br.cooling = 0

\* Mutant: the caller is let through, the state is not moved.
Queried_StaysOpen(br) == br

\* ... and what it does to the breaker: asking an open breaker whose
\* cooldown is over is what moves it to half-open.
Queried(br) ==
  IF br.state = "open" /\ br.cooling = 0
  THEN [br EXCEPT !.state = "half_open"]
  ELSE br

\* From any state.  _opened_at is not read again before it is set again.
RecordSuccess(br) == NewBreaker

CountFailure(n) == IF n < FailuresThreshold THEN n + 1 ELSE n

\* A failure recorded by an open breaker starts its cooldown again.
RecordFailure(br) ==
  LET n == CountFailure(br.failures)
  IN  IF br.state = "half_open" \/ n >= FailuresThreshold
      THEN [state |-> "open", failures |-> n, cooling |-> Cooldown]
      ELSE [br EXCEPT !.failures = n]

\* One tick of time.monotonic(), seen by the breaker.
Aged(br) == [br EXCEPT !.cooling = IF @ > 0 THEN @ - 1 ELSE 0]
=============================================================================
