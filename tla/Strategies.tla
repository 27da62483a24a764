----------------------------- MODULE Strategies -----------------------------
(***************************************************************************)
(* The selection strategies (backends/strategies.py).  A backend is its    *)
(* position in the configured list, so "first" is "smallest".  Every       *)
(* strategy narrows the candidates to a ring and then goes round it with a *)
(* cursor of its own; an empty ring is pick() returning None.              *)
(***************************************************************************)
EXTENDS Naturals, FiniteSets

CONSTANTS NumBackends,
          Models,
          NoModel,      \* the request names no model
          Serves        \* Serves[b]: the models backend b declares

ASSUME StrategyAssumption == /\ NumBackends \in Nat \ {0}
                             /\ Serves \in [1 .. NumBackends -> SUBSET Models]
                             /\ NoModel \notin Models

Backends == 1 .. NumBackends

StrategyNames == {"round_robin", "least_busy", "model_affinity", "sticky", "none"}

Ring(strategy, candidates, model, load) ==
  CASE strategy \in {"round_robin", "sticky"} -> candidates
    [] strategy = "least_busy" ->
         {b \in candidates : \A c \in candidates : load[b] <= load[c]}
    [] strategy = "model_affinity" -> {b \in candidates : model \in Serves[b]}
    [] strategy = "none" -> {}

\* candidates[i] is the candidate with i candidates before it.
At(candidates, i, b) ==
  /\ b \in candidates
  /\ Cardinality({c \in candidates : c < b}) = i

RoundRobin(ring, cursor, b) ==
  /\ ring # {}
  /\ At(ring, cursor % Cardinality(ring), b)
=============================================================================
