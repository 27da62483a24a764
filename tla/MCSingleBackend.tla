-------------------------- MODULE MCSingleBackend ---------------------------
(***************************************************************************)
(* A deployment with a single backend.  The first property here holds; the *)
(* others are statements of the code base's own comments that the code     *)
(* does not keep (README.md, Findings).                                    *)
(***************************************************************************)
EXTENDS RequestFlow, TLC

CONSTANTS r1, r2

MCServes == <<{}>>
MCCapacity == <<2>>
MCRateMode == <<"off">>
MCBurst == <<0>>
MCKind == (r1 :> "stream") @@ (r2 :> "json")
MCOneRequest == r1 :> "json"
MCModelOf == [r \in Requests |-> NoModel]
MCNoOverride == <<NoOverride>>
MCOverride == <<2>>

\* As long as the health flag keeps its value, up or down, an open breaker
\* comes to let a request through while clients keep asking: late failures of
\* requests that were already inside restart the cooldown (record_failure sets
\* _opened_at in every state), but there is only so much of them.
SteadyFlagReopens ==
  (<>[](health[1].healthy) \/ <>[](~health[1].healthy))
    => (breaker[1].state = "open" ~> breaker[1].state # "open")

\* The watcher never stops asking.
ProbedSpec == FairSpec /\ WF_vars(\E ok \in BOOLEAN : WatcherProbes(1, ok))

\* "a sustained unhealthy run will eventually flip the breaker into OPEN"
\* (health.py:14), instead of waiting for a client's request to fail: when a
\* backend that was healthy comes to fail every probe, and no call to it goes
\* well any more, its breaker is open at some time.
UnhealthyRunOpensBreaker ==
  /\ health[1].healthy
  /\ <>[](~health[1].healthy /\ health[1].oks = 0 /\ missed[1] > 0)
  => <>(breaker[1].state = "open")

\* "HALF_OPEN: allow exactly one probe" (circuit_breaker.py:49).  With one
\* backend, the request whose is_available() opened the breaker half-way is
\* the probe, so no further attempt may begin while the breaker is half open.
HalfOpenAdmitsOneProbe ==
  [][ breaker[1].state = "half_open" =>
        \A r \in Requests :
          pc[r] \in {"idle", "backoff"} => pc'[r] \in {"idle", "backoff"} ]_vars

\* "half-open-> next request is allowed; success closes, failure re-opens"
\* (circuit_breaker.py:6): a stream the upstream breaks off is a failure.
HalfOpenReopensOnBrokenStream ==
  [][ \A r \in Requests :
        /\ pc[r] = "streaming"
        /\ breaker[1].state = "half_open"
        /\ pc'[r] = "idle"
        /\ result'[r] = "error"
        => breaker'[1].state = "open" ]_vars

\* "open -> short-circuited: pick() skips this backend until cooldown
\* elapses" (circuit_breaker.py:5): while clients keep asking, an open
\* breaker comes to let one of them through.
OpenBreakerLetsARequestThrough ==
  breaker[1].state = "open" ~> breaker[1].state # "open"
=============================================================================
