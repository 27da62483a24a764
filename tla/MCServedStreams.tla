-------------------------- MODULE MCServedStreams ---------------------------
(***************************************************************************)
(* The two last properties are statements of the code base's docstrings    *)
(* that it does not keep (README.md, Findings).                            *)
(***************************************************************************)
EXTENDS ServedStreams

\* "In-flight requests against the previous pool finish naturally because we
\* hold references via the closure they captured" (config/reload.py:15).
InFlightFinish == \A r \in Requests : outcome[r] \notin {"cut", "refused"}

\* "On rescue, the user sees a brief pause while the second call starts"
\* (openai_responses.py:277): the second call starts, or the request ends.
BriefPause == \A r \in Requests : stage[r] = "requeued" ~> stage[r] # "requeued"
=============================================================================
