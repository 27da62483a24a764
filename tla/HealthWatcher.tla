--------------------------- MODULE HealthWatcher ----------------------------
(***************************************************************************)
(* What the background watcher (backends/health.py) knows of one backend:  *)
(* the flag pick() consults and the two counters of consecutive probe      *)
(* outcomes that give the flag its hysteresis.  BackendPool runs the       *)
(* probes.  A counter is only compared with its threshold and stops        *)
(* counting there.                                                         *)
(***************************************************************************)
EXTENDS Naturals

CONSTANTS UnhealthyThreshold,  \* failed probes in a row that clear the flag
          HealthyThreshold     \* good probes in a row that set it again

ASSUME HealthAssumption == /\ UnhealthyThreshold \in Nat \ {0}
                           /\ HealthyThreshold \in Nat \ {0}

Monitor == [healthy : BOOLEAN,
            fails   : 0 .. UnhealthyThreshold,
            oks     : 0 .. HealthyThreshold]

UpTo(limit, n) == IF n < limit THEN n + 1 ELSE n

Counted(m, ok) ==
  [healthy |-> m.healthy,
   fails   |-> IF ok THEN 0 ELSE UpTo(UnhealthyThreshold, m.fails),
   oks     |-> IF ok THEN UpTo(HealthyThreshold, m.oks) ELSE 0]

\* The tail of _probe: a healthy backend stays so below the threshold of
\* failures, an unhealthy one comes back at the threshold of successes.
Probed(m, ok) ==
  LET c == Counted(m, ok)
  IN  [c EXCEPT !.healthy = IF m.healthy THEN c.fails < UnhealthyThreshold
                                         ELSE c.oks >= HealthyThreshold]

\* Mutant: every failed probe counts against the breaker.
FlipsUnhealthy_AnyFailure(m, ok) == ~ok

\* The one case in which a probe also records a failure on the breaker.
FlipsUnhealthy(m, ok) == m.healthy /\ ~Probed(m, ok).healthy
=============================================================================
