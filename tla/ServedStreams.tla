--------------------------- MODULE ServedStreams ----------------------------
(***************************************************************************)
(* Streaming requests on the pools of a process that reloads its           *)
(* configuration.  A request keeps the pool it was given when it came      *)
(* (Depends(get_pool)), and with BACKEND_PROXY_AUTO_NUDGE=1 one whose      *)
(* first stream is stuck starts a second on it, while it holds the slot of *)
(* the first (api/openai_responses.py).  A pool has one backend; retries   *)
(* are RequestFlow's subject.                                              *)
(***************************************************************************)
EXTENDS PoolGenerations, Sequences

CONSTANTS Requests,
          MaxConcurrency   \* slots of a pool's backend

ASSUME SlotsAssumption == MaxConcurrency \in Nat \ {0} /\ IsFiniteSet(Requests)

VARIABLES stage,    \* stage[r]: "idle"; "body" (read before anything else); "queued"
                    \* for a slot, "opening" a stream with it, "first" stream;
                    \* "requeued", "reopening", "second" stream; "finishing" the
                    \* answer; "left" with one slot or "leftBoth", in generators
                    \* nobody asks any more; "over"
          poolOf,   \* the pool the request was given, 0 before
          outcome,  \* how it ended for the client: "none" yet, "complete",
                    \* "failed" by the upstream, "refused" or "cut" because the
                    \* clients were closed, "left" by the client
          free,     \* free[p]: the value of the semaphore
          line      \* line[p]: who waits for it, first come first

reqVars  == <<stage, poolOf, outcome>>
slotVars == <<free, line>>
vars == <<genVars, reqVars, slotVars>>

Init ==
  /\ GenInit
  /\ stage = [r \in Requests |-> "idle"]
  /\ poolOf = [r \in Requests |-> 0]
  /\ outcome = [r \in Requests |-> "none"]
  /\ free = [p \in Pools |-> MaxConcurrency]
  /\ line = [p \in Pools |-> <<>>]

Streaming(r) == stage[r] \in {"first", "second"}

-----------------------------------------------------------------------------
Come(r) ==
  /\ server = "serving" /\ stage[r] = "idle"
  /\ stage' = [stage EXCEPT ![r] = "body"]
  /\ poolOf' = [poolOf EXCEPT ![r] = current]
  /\ UNCHANGED <<genVars, outcome, slotVars>>

JoinLine(r) == line' = [line EXCEPT ![poolOf[r]] = Append(@, r)]

\* The body is there; retry_stream_start asks for a slot.
Ask(r) ==
  /\ stage[r] = "body"
  /\ stage' = [stage EXCEPT ![r] = "queued"]
  /\ JoinLine(r)
  /\ UNCHANGED <<genVars, poolOf, outcome, free>>

\* The semaphore wakes who waits longest.
Grant(r) ==
  LET p == poolOf[r]
  IN  /\ stage[r] \in {"queued", "requeued"}
      /\ line[p] # <<>> /\ Head(line[p]) = r /\ free[p] > 0
      /\ line' = [line EXCEPT ![p] = Tail(@)]
      /\ free' = [free EXCEPT ![p] = @ - 1]
      /\ stage' = [stage EXCEPT ![r] = IF @ = "queued" THEN "opening" ELSE "reopening"]
      /\ UNCHANGED <<genVars, poolOf, outcome>>

Open(r) ==
  /\ stage[r] \in {"opening", "reopening"} /\ clients[poolOf[r]] = "open"
  /\ stage' = [stage EXCEPT ![r] = IF @ = "opening" THEN "first" ELSE "second"]
  /\ UNCHANGED <<genVars, poolOf, outcome, slotVars>>

\* Mutant: a waiter that is cancelled keeps its place.
GoOn_StaysInLine(r, s, n) ==
  LET p == poolOf[r]
  IN  /\ stage' = [stage EXCEPT ![r] = s]
      /\ free' = [free EXCEPT ![p] = @ + n]
      /\ UNCHANGED <<genVars, poolOf, line>>

\* The request goes on or ends, out of the line if it was in one, and n of its
\* slots are freed.
GoOn(r, s, n) ==
  LET p == poolOf[r]
  IN  /\ stage' = [stage EXCEPT ![r] = s]
      /\ free' = [free EXCEPT ![p] = @ + n]
      /\ line' = [line EXCEPT ![p] = SelectSeq(@, LAMBDA q : q # r)]
      /\ UNCHANGED <<genVars, poolOf>>

EndsAs(r, how) == outcome' = [outcome EXCEPT ![r] = how]

\* A closed httpx client raises RuntimeError: retry_stream_start frees the slot
\* it has just taken and raises it.  It is no ProxyError, so the rescue handler
\* does not go on either, and its finally frees the slot of the first stream.
Refuse(r) ==
  /\ stage[r] \in {"opening", "reopening"} /\ clients[poolOf[r]] = "closed"
  /\ \/ stage[r] = "opening" /\ GoOn(r, "over", 1)
     \/ stage[r] = "reopening" /\ GoOn(r, "over", 2)
  /\ EndsAs(r, "refused")

\* The first stream ends and looks stuck: the rescue asks for a second slot.
Stuck(r) ==
  /\ stage[r] = "first" /\ clients[poolOf[r]] = "open"
  /\ stage' = [stage EXCEPT ![r] = "requeued"]
  /\ JoinLine(r)
  /\ UNCHANGED <<genVars, poolOf, outcome, free>>

\* The upstream refuses a stream, and retry_stream_start frees its slot.  A
\* request whose rescue is refused is finalised with what it has.
OpeningFails(r) ==
  /\ stage[r] \in {"opening", "reopening"} /\ clients[poolOf[r]] = "open"
  /\ \/ stage[r] = "opening" /\ GoOn(r, "over", 1) /\ EndsAs(r, "failed")
     \/ stage[r] = "reopening" /\ GoOn(r, "finishing", 1) /\ EndsAs(r, "complete")

\* Mutant: the slot of the rescue is left to the last finally, which frees the
\* other one.
StreamStops_KeepsRescueSlot(r) == GoOn(r, "finishing", 0)

\* A stream stops: the slot of a rescue is freed at once, that of the first stream
\* when the rest of the answer has been sent.
StreamStops(r) == GoOn(r, "finishing", IF stage[r] = "second" THEN 1 ELSE 0)

\* A stream ends, or breaks before its end, on its own account.
StreamEnds(r) ==
  /\ Streaming(r) /\ clients[poolOf[r]] = "open"
  /\ StreamStops(r)
  /\ \E how \in {"complete", "failed"} : EndsAs(r, how)

\* Closing the clients closes the connections of the streams that use them.
Cut(r) ==
  /\ Streaming(r) /\ clients[poolOf[r]] = "closed"
  /\ StreamStops(r) /\ EndsAs(r, "cut")

\* The events that close the answer are sent; the finally of the handler's
\* generator frees the slot.
Finish(r) ==
  /\ stage[r] = "finishing"
  /\ GoOn(r, "over", 1) /\ UNCHANGED outcome

\* The client leaves, and what the request awaits is cancelled.  While it waits
\* for the body or for a slot, nothing but the slot of a first stream is held, and
\* freed by the generator's finally.
LeaveWaiting(r) ==
  \/ stage[r] \in {"body", "queued"} /\ GoOn(r, "over", 0)
  \/ stage[r] = "requeued" /\ GoOn(r, "over", 1)

\* retry_stream_start frees no slot when it is cancelled in the opening of a
\* stream: that one is freed when the context manager is collected.
LeaveOpening(r) ==
  \/ stage[r] = "opening" /\ GoOn(r, "left", 0)
  \/ stage[r] = "reopening" /\ GoOn(r, "left", 1)

\* A stream is left.  Where the generator answers the cancellation with a piece
\* nobody will get, or is not asked again after a piece, its slots stay with it;
\* else its finally frees them, the slot of a rescue in any case first.
LeaveStream(r) ==
  \/ stage[r] \in {"first", "finishing"} /\ (GoOn(r, "over", 1) \/ GoOn(r, "left", 0))
  \/ stage[r] = "second" /\ (GoOn(r, "left", 1) \/ GoOn(r, "leftBoth", 0))

ClientLeaves(r) ==
  /\ LeaveWaiting(r) \/ LeaveOpening(r) \/ LeaveStream(r)
  /\ EndsAs(r, "left")

\* What nobody refers to any more is collected: the generator is closed, and where
\* it answers that with a piece its finally is not reached; then the context
\* manager of pool.use() goes with it, and frees the slot.
Collect(r) ==
  /\ server # "stopped"
  /\ \/ stage[r] = "left" /\ GoOn(r, "over", 1)
     \/ stage[r] = "leftBoth" /\ GoOn(r, "left", 1)
  /\ UNCHANGED outcome

Ended == \A r \in Requests : stage[r] \in {"idle", "left", "leftBoth", "over"}

\* The server shuts down when its requests are finished.
ShutdownIdle == Ended /\ Shutdown /\ UNCHANGED <<reqVars, slotVars>>

Proceed(r) == Grant(r) \/ Open(r) \/ Refuse(r) \/ Cut(r) \/ Finish(r) \/ Collect(r)

Answered(r) == Stuck(r) \/ OpeningFails(r) \/ StreamEnds(r)

Next ==
  \/ GenNext /\ UNCHANGED <<reqVars, slotVars>>
  \/ ShutdownIdle
  \/ \E r \in Requests :
       Come(r) \/ Ask(r) \/ Proceed(r) \/ Answered(r) \/ ClientLeaves(r)

\* Reloads, drains and closings go on; a request is taken on when it can be, a
\* client sends its body, an upstream ends every stream (absolute_timeout_s), and
\* what is left is collected.  No client has to leave.
Fairness ==
  /\ WF_vars(server # "stopped" /\ Renew /\ UNCHANGED <<reqVars, slotVars>>)
  /\ \A p \in Pools :
       WF_vars(server # "stopped" /\ Retire(p) /\ UNCHANGED <<reqVars, slotVars>>)
  /\ \A r \in Requests : WF_vars(Ask(r)) /\ WF_vars(Proceed(r)) /\ WF_vars(Answered(r))

Spec == Init /\ [][Next]_vars

FairSpec == Spec /\ Fairness

-----------------------------------------------------------------------------
Stages == {"idle", "body", "queued", "opening", "first",
           "requeued", "reopening", "second", "finishing", "left", "leftBoth", "over"}

TypeOK ==
  /\ GenTypeOK
  /\ stage \in [Requests -> Stages]
  /\ poolOf \in [Requests -> Pools \cup {0}]
  /\ outcome \in [Requests -> {"none", "complete", "failed", "refused", "cut", "left"}]
  /\ free \in [Pools -> Nat]
  /\ line \in [Pools -> Seq(Requests)]

\* The slots a request has taken and not freed.
SlotsHeld(r) ==
  CASE stage[r] \in {"opening", "first", "requeued", "finishing", "left"} -> 1
    [] stage[r] \in {"reopening", "second", "leftBoth"} -> 2
    [] OTHER -> 0

HeldIn(p) ==
  Cardinality({r \in Requests : poolOf[r] = p /\ SlotsHeld(r) >= 1})
    + Cardinality({r \in Requests : poolOf[r] = p /\ SlotsHeld(r) = 2})

\* What the ways out of the two handlers free, in the openings of their streams
\* (retry.py:184), after each stream (openai_responses.py:237, 521, 542) and in the
\* collector, adds up: in every pool the slots held and the free ones are the
\* configured number, also through a rescue that is refused, cut or left, and none
\* is freed both by a finally and by the collector.
SlotsConserved ==
  \A p \in Pools : free[p] + HeldIn(p) = MaxConcurrency

\* As long as a slot more is configured than requests come, rescues that wait
\* for a slot while they hold one do not wait for each other: every request
\* comes to its end, and with it its slots come back (openai_responses.py:473),
\* those of a generator that was left with the collector, if the process lives on.
EveryRequestEnds ==
  \A r \in Requests : stage[r] = "body" ~> (stage[r] = "over" \/ server = "stopped")

\* A pool that has been replaced is closed in the end (reload.py:71-75), unless
\* the process stops first.
ReplacedPoolCloses ==
  \A p \in Pools :
    (p < current /\ p \notin dropped) ~> (clients[p] = "closed" \/ server = "stopped")
=============================================================================
