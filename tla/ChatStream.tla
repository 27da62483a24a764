----------------------------- MODULE ChatStream -----------------------------
(***************************************************************************)
(* What a consumer of Chat Completions chunks relies on, whoever makes     *)
(* them: the assistant's role first; then text, and tool calls that are    *)
(* opened once under an index and an id of their own before they get more  *)
(* arguments; one finish_reason, after which nothing comes, and which says *)
(* tool_calls only when there are some.                                    *)
(***************************************************************************)
EXTENDS Naturals, Sequences

CONSTANTS Fragments,  \* the pieces texts and arguments come in
          Places      \* the indexes and the ids of tool calls

VARIABLES role,    \* the role has come
          text,    \* the fragments of the visible text so far
          calls,   \* the tool calls so far: their index, id and arguments
          finish   \* the finish_reason, "none" before

vars == <<role, text, calls, finish>>

Init == role = FALSE /\ text = <<>> /\ calls = <<>> /\ finish = "none"

Indexes == {calls[k].index : k \in DOMAIN calls}
Ids     == {calls[k].id : k \in DOMAIN calls}

Role == ~role /\ role' = TRUE /\ UNCHANGED <<text, calls, finish>>

Say ==
  /\ role /\ finish = "none"
  /\ \E f, g \in Fragments : text' \in {Append(text, f), text \o <<f, g>>}
  /\ UNCHANGED <<role, calls, finish>>

OpenCall ==
  /\ role /\ finish = "none"
  /\ \E i \in Places \ Indexes, n \in Places \ Ids, f \in Fragments :
       calls' = Append(calls, [index |-> i, id |-> n, args |-> <<f>>])
  /\ UNCHANGED <<role, text, finish>>

MoreArguments ==
  /\ role /\ finish = "none"
  /\ \E k \in DOMAIN calls, f \in Fragments :
       calls' = [calls EXCEPT ![k].args = Append(@, f)]
  /\ UNCHANGED <<role, text, finish>>

Finish ==
  /\ role /\ finish = "none"
  /\ finish' \in {"stop", "length", "content_filter", "tool_calls"}
  /\ finish' = "tool_calls" => calls # <<>>
  /\ UNCHANGED <<role, text, calls>>

Next == Role \/ Say \/ OpenCall \/ MoreArguments \/ Finish

Spec == Init /\ [][Next]_vars
=============================================================================
