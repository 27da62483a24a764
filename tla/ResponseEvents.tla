--------------------------- MODULE ResponseEvents ---------------------------
(***************************************************************************)
(* The Responses event stream as its client hears it                       *)
(* (adapters/chat_to_responses.py).  An output item is known by its        *)
(* output_index.  Each kind of event is an operator on what the client has *)
(* heard so far, and notes in `disorder' when the event comes where it     *)
(* makes no sense: an item added twice, a delta or a done for an item that *)
(* is not open, anything before response.created or after                  *)
(* response.completed.                                                     *)
(***************************************************************************)
EXTENDS Naturals

Heard == [created  : BOOLEAN,
          added    : SUBSET Nat,    \* response.output_item.added
          done     : SUBSET Nat,    \* response.output_item.done
          thinking : SUBSET Nat,    \* items whose text has an open <think>
          final    : {"none", "completed", "incomplete"},
          listed   : SUBSET Nat,    \* the output[] of response.completed
          disorder : BOOLEAN]

Silence == [created |-> FALSE, added |-> {}, done |-> {}, thinking |-> {},
            final |-> "none", listed |-> {}, disorder |-> FALSE]

\* The client heard h; the event was in order if inOrder.
Note(inOrder, h) == [h EXCEPT !.disorder = @ \/ ~inOrder]

Under(h) == h.created /\ h.final = "none"

IsOpen(h, i) == Under(h) /\ i \in h.added \ h.done

HearCreated(h) == Note(~h.created, [h EXCEPT !.created = TRUE])

HearAdded(h, i) ==
  Note(Under(h) /\ i \notin h.added, [h EXCEPT !.added = @ \cup {i}])

HearDelta(h, i) == Note(IsOpen(h, i), h)

HearThink(h, i) == [HearDelta(h, i) EXCEPT !.thinking = @ \cup {i}]

HearUnthink(h, i) == [HearDelta(h, i) EXCEPT !.thinking = @ \ {i}]

HearDone(h, i) == Note(IsOpen(h, i), [h EXCEPT !.done = @ \cup {i}])

\* One by one the items of new are added, and all of those given are done.
HearAllDone(h, new, items) ==
  Note(/\ items # {} => Under(h)
       /\ new \cap h.added = {}
       /\ items \subseteq (h.added \cup new) \ h.done,
       [h EXCEPT !.added = @ \cup new, !.done = @ \cup items])

HearFinal(h, status, output) ==
  Note(Under(h), [h EXCEPT !.final = status, !.listed = output])
=============================================================================
