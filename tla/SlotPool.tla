------------------------------ MODULE SlotPool ------------------------------
(***************************************************************************)
(* What BackendPool.use promises about a backend's concurrency slots, with *)
(* nothing said about how: at most Capacity[b] requests have a slot of     *)
(* backend b, the others stand in line, the line is served in order of     *)
(* arrival and nobody passes it, and a slot that is given back is back,    *)
(* whatever happened to the request that held it.  A request called from   *)
(* the line has its slot at once and comes to use it later; until it has   *)
(* come, newcomers stand in line even beside a free slot.  A step that     *)
(* gives a slot back, or in which a called request comes, calls the next.  *)
(***************************************************************************)
EXTENDS Naturals, Sequences, FiniteSets

CONSTANTS Requests, Backends, Capacity

VARIABLES holders,   \* holders[b]: the requests that have a slot of b
          called,    \* called[b]: those of them that have not come since
          line       \* line[b]: the requests waiting for one, oldest first

slotVars == <<holders, called, line>>

Init == /\ holders = [b \in Backends |-> {}]
        /\ called = [b \in Backends |-> {}]
        /\ line = [b \in Backends |-> <<>>]

Full(b, held) == Cardinality(held) >= Capacity[b]

Waits(b, r) == \E i \in 1 .. Len(line[b]) : line[b][i] = r

\* Seq s without its i-th element.
Without(s, i) == [j \in 1 .. Len(s) - 1 |-> IF j < i THEN s[j] ELSE s[j + 1]]

\* held have a slot of b, owed are yet to come: the next in line is called
\* if there is one and a slot for it.
CallNext(b, held, owed) ==
  \/ /\ line[b] = <<>> \/ Full(b, held)
     /\ holders' = [holders EXCEPT ![b] = held]
     /\ called' = [called EXCEPT ![b] = owed]
     /\ UNCHANGED line
  \/ /\ line[b] # <<>> /\ ~Full(b, held)
     /\ holders' = [holders EXCEPT ![b] = held \cup {Head(line[b])}]
     /\ called' = [called EXCEPT ![b] = owed \cup {Head(line[b])}]
     /\ line' = [line EXCEPT ![b] = Tail(@)]

FreeToEnter(b) == ~Full(b, holders[b]) /\ line[b] = <<>> /\ called[b] = {}

Join(b, r) ==
  /\ \A c \in Backends : r \notin holders[c] /\ ~Waits(c, r)
  /\ \/ /\ FreeToEnter(b)
        /\ holders' = [holders EXCEPT ![b] = @ \cup {r}]
        /\ UNCHANGED <<called, line>>
     \/ /\ ~FreeToEnter(b)
        /\ line' = [line EXCEPT ![b] = Append(@, r)]
        /\ UNCHANGED <<holders, called>>

Come(b, r) == r \in called[b] /\ CallNext(b, holders[b], called[b] \ {r})

Leave(b, r) == r \in holders[b] /\ CallNext(b, holders[b] \ {r}, called[b] \ {r})

Abandon(b, r) ==
  /\ \E i \in 1 .. Len(line[b]) :
       /\ line[b][i] = r
       /\ line' = [line EXCEPT ![b] = Without(@, i)]
  /\ UNCHANGED <<holders, called>>

Next == \E b \in Backends, r \in Requests :
          Join(b, r) \/ Come(b, r) \/ Leave(b, r) \/ Abandon(b, r)

Spec == Init /\ [][Next]_slotVars
=============================================================================
