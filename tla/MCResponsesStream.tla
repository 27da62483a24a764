-------------------------- MODULE MCResponsesStream -------------------------
(***************************************************************************)
(* Three calls, one whose fragments carry an index and two whose fragments *)
(* do not, in both handlers.  The two last properties are statements of    *)
(* the code base's comments that the rescue handler does not keep          *)
(* (README.md, Findings).                                                  *)
(***************************************************************************)
EXTENDS ResponsesStream, TLC

CONSTANTS c1, c2, c3

MCIndexOf == (c1 :> 0) @@ (c2 :> NoIndex) @@ (c3 :> NoIndex)

\* "Reconstruct the cumulative output[] array for a terminal response.completed
\* event" (openai_responses.py:554): the answer of a rescued stream lists the
\* items of both its parts.
CumulativeOutput ==
  stage = "ended" /\ clean => st.heard.listed = st.heard.added

\* "emit a terminal response.completed with status=incomplete so the client
\* doesn't hang" (openai_responses.py:423): an answer that stops has told its
\* client so, whatever stopped it.
NobodyHangs ==
  stage \in {"ended", "raised"} => st.heard.final # "none"
=============================================================================
