--------------------------- MODULE StreamWrappers ---------------------------
(***************************************************************************)
(* The byte stream of one streaming request on its way from the upstream   *)
(* to the client (streaming/sse.py and the _gen of the handlers):          *)
(*                                                                         *)
(*   upstream -> with_timeout -> parse, adapt, serialise -> with_heartbeat *)
(*            -> StreamingResponse -> client                               *)
(*                                                                         *)
(* with_timeout reads the upstream in a task of its own (tread), and       *)
(* with_heartbeat reads everything before it in another (hread): a wrapper *)
(* waits for its task with a timer and shields it, so that the task goes   *)
(* on behind a heartbeat.  The handler's generator holds the slot of the   *)
(* backend and frees it when it is left.  A step is what one task does     *)
(* between two awaits; a tick is one unit of time, and a timer that has    *)
(* expired is noticed at most Late ticks after.                            *)
(***************************************************************************)
EXTENDS Integers, Sequences, SequencesExt

CONSTANTS PiecesOf,   \* PiecesOf[k]: how many pieces for the client chunk k gives
          FinishAt,   \* the chunk with the finish_reason: its pieces complete the answer
          Idle, Abs,  \* idle_timeout_s and absolute_timeout_s; 0 switches one off
          Slack,      \* what with_timeout takes off the latter: 0.1 s
          Interval,   \* heartbeat.interval_s
          Late        \* bound: how late the event loop may run an expired timer

ASSUME WrappersAssumption ==
  /\ PiecesOf \in Seq(Nat)
  /\ FinishAt \in Nat \ {0}
  /\ FinishAt \in DOMAIN PiecesOf => PiecesOf[FinishAt] > 0
  /\ Idle \in Nat /\ Abs \in Nat /\ Idle + Abs > 0
  /\ Slack \in Nat
  /\ Interval \in Nat \ {0}
  /\ Late \in Nat

VARIABLES agent,    \* "responses": its adapter salvages a failed stream; or "messages"
          source,   \* the upstream's answer: "open", "ended" or "broken"
          arrived,  \* how many chunks it has sent
          read,     \* how many of them tread has read
          tread,    \* with_timeout's task: "none", "running", or what it returned:
                    \* "chunk", "end" or "failed"
          tpc,      \* with_timeout: "fresh", "waiting" for tread, "yielded", "closed"
          tleft,    \* ticks until its wait_for gives up
          age,      \* ticks since its start, as far as Abs needs them
          quiet,    \* ticks it has been waiting
          todo,     \* pieces the adapters hand over before they ask for a chunk
          atail,    \* what follows those: "none" (a chunk), "end" or "raise"
          slot,     \* the handler's generator holds the backend's slot
          hread,    \* with_heartbeat's task: as tread, with "piece" for "chunk"
          piece,    \* the piece in hand: its chunk's number, Closing or Salvage
          hpc,      \* with_heartbeat: "fresh", "waiting" for hread, "atPiece" or
                    \* "atBeat" (the client has it), "abandoned" there, "closed"
          hleft,    \* ticks until the next heartbeat
          got,      \* the pieces the client has got
          error     \* what failed: "none", "idle", "absolute", "unknown" or "broken"

upstream == <<source, arrived>>
reading  == <<read, tread>>
timing   == <<tpc, tleft, age, quiet>>
handler  == <<todo, atail, slot>>
beating  == <<hread, piece, hpc, hleft, got>>
vars == <<agent, upstream, reading, timing, handler, beating, error>>

Closing == 0     \* what the adapters and serialise_events add to a complete answer
Salvage == -1    \* what _force_close_events adds to a failed one

Init ==
  /\ agent \in {"responses", "messages"}
  /\ source = "open" /\ arrived = 0
  /\ read = 0 /\ tread = "none"
  /\ tpc = "fresh" /\ tleft = 0 /\ age = 0 /\ quiet = 0
  /\ todo = 0 /\ atail = "none" /\ slot = TRUE
  /\ hread = "none" /\ piece = Closing /\ hpc = "fresh" /\ hleft = 0
  /\ got = <<>> /\ error = "none"

-----------------------------------------------------------------------------
(* The upstream.                                                           *)

Arrive ==
  /\ source = "open" /\ arrived < Len(PiecesOf)
  /\ arrived' = arrived + 1
  /\ UNCHANGED <<agent, source, reading, timing, handler, beating, error>>

SourceStops ==
  /\ source = "open"
  /\ source' \in {"ended", "broken"}
  /\ UNCHANGED <<agent, arrived, reading, timing, handler, beating, error>>

\* with_timeout's task reads the next chunk, or how the answer stopped.
Read ==
  /\ tread = "running"
  /\ \/ /\ read < arrived
        /\ read' = read + 1 /\ tread' = "chunk"
     \/ /\ read = arrived /\ source # "open"
        /\ read' = read
        /\ tread' = IF source = "ended" THEN "end" ELSE "failed"
  /\ UNCHANGED <<agent, upstream, timing, handler, beating, error>>

-----------------------------------------------------------------------------
(* The handler's generator and the adapters in it, run by hread.           *)

HandOver(p, more) == hread' = "piece" /\ piece' = p /\ todo' = more

\* The generator is left: its finally frees the slot.
LeaveHandler(result) ==
  /\ hread' = result /\ slot' = FALSE
  /\ UNCHANGED <<piece, todo, atail>>

\* The chunks the adapters have been given.
Adapted == IF tread = "chunk" THEN read - 1 ELSE read

\* Mutant: an answer that is complete already is closed once more.
Salvages_Always == agent = "responses"

\* The Responses adapter closes an answer that is not complete yet.
Salvages == agent = "responses" /\ Adapted < FinishAt

\* An exception reaches the adapters.  The Responses adapter catches it, hands
\* over the events that close the answer when it has any, and raises it again.
Fail(why) ==
  /\ tpc' = "closed" /\ tread' = "none" /\ quiet' = 0
  /\ error' = why
  /\ IF Salvages
     THEN HandOver(Salvage, 0) /\ atail' = "raise" /\ UNCHANGED slot
     ELSE LeaveHandler("failed")

Remaining == Abs - age

\* Mutant: the wait is one tick short.
WaitTime_Short ==
  IF Idle > 0 /\ (Abs = 0 \/ Idle <= Remaining) THEN Idle - 1 ELSE Remaining

WaitTime ==
  IF Idle > 0 /\ (Abs = 0 \/ Idle <= Remaining) THEN Idle ELSE Remaining

\* Mutant: the time that is left for the whole stream is not looked at.
AskForChunk_IgnoresAge ==
  /\ tpc' = "waiting" /\ tread' = "running"
  /\ quiet' = 0 /\ tleft' = IF Idle > 0 THEN Idle ELSE Abs
  /\ hread' = "running"
  /\ UNCHANGED <<piece, todo, atail, slot, error>>

AskForChunk ==
  IF Abs > 0 /\ Remaining <= 0
  THEN Fail("absolute") /\ UNCHANGED tleft
  ELSE /\ tpc' = "waiting" /\ tread' = "running"
       /\ quiet' = 0 /\ tleft' = WaitTime
       /\ hread' = "running"
       /\ UNCHANGED <<piece, todo, atail, slot, error>>

\* hread asks the generator for its next piece.
NextPiece ==
  CASE todo > 0 ->
         /\ HandOver(piece, todo - 1)
         /\ UNCHANGED <<tread, tpc, tleft, quiet, atail, slot, error>>
    [] todo = 0 /\ atail # "none" ->
         /\ LeaveHandler(IF atail = "end" THEN "end" ELSE "failed")
         /\ UNCHANGED <<tread, tpc, tleft, quiet, error>>
    [] OTHER -> AskForChunk

\* with_timeout's wait ends with a chunk, which the adapters turn into pieces;
\* when it gives none they ask for the next.
TakeChunk ==
  /\ tpc = "waiting" /\ tread = "chunk"
  /\ IF PiecesOf[read] = 0
     THEN AskForChunk
     ELSE /\ HandOver(read, PiecesOf[read] - 1)
          /\ tpc' = "yielded" /\ tread' = "none"
          /\ UNCHANGED <<tleft, quiet, atail, slot, error>>
  /\ UNCHANGED <<agent, upstream, read, age, hpc, hleft, got>>

TakeEnd ==
  /\ tpc = "waiting" /\ tread = "end"
  /\ tpc' = "closed" /\ tread' = "none"
  /\ HandOver(Closing, 0) /\ atail' = "end"
  /\ UNCHANGED <<agent, upstream, read, tleft, age, quiet, slot, hpc, hleft, got, error>>

TakeFailure ==
  /\ tpc = "waiting" /\ tread = "failed"
  /\ Fail("broken")
  /\ UNCHANGED <<agent, upstream, read, tleft, age, hpc, hleft, got>>

\* The timeout that fired is told from a second reading of the clock; close to
\* the deadline of the whole stream it is that one, whichever timer it was.
Reason ==
  IF Abs > 0 /\ age >= Abs - Slack THEN "absolute"
  ELSE IF Idle > 0 THEN "idle" ELSE "unknown"

\* The wait times out, even when a chunk is there by now; with_timeout cancels
\* its task and raises StreamTimeoutError.
Expire ==
  /\ tpc = "waiting" /\ tleft <= 0
  /\ Fail(Reason)
  /\ UNCHANGED <<agent, upstream, read, tleft, age, hpc, hleft, got>>

-----------------------------------------------------------------------------
(* with_heartbeat and the client behind it.                                *)

Deliver ==
  /\ hpc = "waiting" /\ hread = "piece"
  /\ got' = Append(got, piece)
  /\ hread' = "none" /\ hpc' = "atPiece"
  /\ UNCHANGED <<agent, upstream, reading, timing, handler, piece, hleft, error>>

Finish ==
  /\ hpc = "waiting" /\ hread \in {"end", "failed"}
  /\ hread' = "none" /\ hpc' = "closed"
  /\ UNCHANGED <<agent, upstream, reading, timing, handler, piece, hleft, got, error>>

\* The interval is over, even when a piece is there by now.
Beat ==
  /\ hpc = "waiting" /\ hleft <= 0
  /\ hpc' = "atBeat"
  /\ UNCHANGED <<agent, upstream, reading, timing, handler, hread, piece, hleft, got, error>>

\* Mutant: after a heartbeat a task that has finished by now is forgotten.
Resume_ForgetsTask ==
  /\ hpc \in {"fresh", "atPiece", "atBeat"}
  /\ hpc' = "waiting" /\ hleft' = Interval
  /\ IF hpc = "atBeat" /\ hread = "running"
     THEN UNCHANGED <<tread, tpc, tleft, quiet, handler, hread, piece, error>>
     ELSE NextPiece
  /\ UNCHANGED <<agent, upstream, read, age, got>>

\* The client takes what it was sent, and with_heartbeat goes on: after a
\* heartbeat with the same task, else with a new one.
Resume ==
  /\ hpc \in {"fresh", "atPiece", "atBeat"}
  /\ hpc' = "waiting" /\ hleft' = Interval
  /\ IF hpc = "atBeat"
     THEN UNCHANGED <<tread, tpc, tleft, quiet, handler, hread, piece, error>>
     ELSE NextPiece
  /\ UNCHANGED <<agent, upstream, read, age, got>>

\* Mutant: the slot is freed and the read of the upstream goes on.
CancelRead_LeavesTask ==
  /\ hread' = "none" /\ slot' = FALSE
  /\ UNCHANGED <<tpc, tread, quiet, atail>>

\* with_heartbeat's finally cancels its task when that is still running, and
\* with it the wait and the task of with_timeout.  The Responses adapter
\* answers the cancellation of an answer that is not complete with a piece nobody
\* will get, which leaves the generator suspended.
CancelRead ==
  /\ hread' = "none"
  /\ IF hread = "running"
     THEN /\ tpc' = "closed" /\ tread' = "none" /\ quiet' = 0
          /\ IF Salvages THEN atail' = "raise" /\ UNCHANGED slot
                         ELSE slot' = FALSE /\ UNCHANGED atail
     ELSE UNCHANGED <<tpc, tread, quiet, atail, slot>>

\* The client leaves while with_heartbeat waits.
LeaveWaiting ==
  /\ hpc = "waiting"
  /\ CancelRead /\ hpc' = "closed"
  /\ UNCHANGED <<agent, upstream, read, tleft, age, todo, piece, hleft, got, error>>

\* The client leaves while it is being sent something: StreamingResponse never
\* asks again, and nothing else happens to the generators until they are collected.
LeaveSending ==
  /\ hpc \in {"fresh", "atPiece", "atBeat"}
  /\ hpc' = "abandoned"
  /\ UNCHANGED <<agent, upstream, reading, timing, handler, hread, piece, hleft, got, error>>

\* The interpreter closes with_heartbeat, ...
CollectHeartbeat ==
  /\ hpc = "abandoned"
  /\ CancelRead /\ hpc' = "closed"
  /\ UNCHANGED <<agent, upstream, read, tleft, age, todo, piece, hleft, got, error>>

\* Mutant: the generator has no finally.
CollectHandler_NoFinally ==
  /\ hpc = "closed" /\ slot /\ tpc # "closed"
  /\ tpc' = "closed"
  /\ UNCHANGED slot
  /\ UNCHANGED <<agent, upstream, reading, tleft, age, quiet, todo, atail, beating, error>>

\* ... then the generator it was reading, which nobody refers to any more.
CollectHandler ==
  /\ hpc = "closed" /\ slot
  /\ slot' = FALSE /\ tpc' = "closed"
  /\ UNCHANGED <<agent, upstream, reading, tleft, age, quiet, todo, atail, beating, error>>

-----------------------------------------------------------------------------
Tick ==
  /\ hpc = "waiting" => hleft > -Late
  /\ tpc = "waiting" => tleft > -Late
  /\ hleft' = IF hpc = "waiting" THEN hleft - 1 ELSE hleft
  /\ tleft' = IF tpc = "waiting" THEN tleft - 1 ELSE tleft
  /\ quiet' = IF tpc = "waiting" THEN quiet + 1 ELSE quiet
  /\ age' = IF tpc # "fresh" /\ Abs > 0 /\ age <= Abs + Late THEN age + 1 ELSE age
  /\ UNCHANGED <<agent, upstream, reading, tpc, handler, hread, piece, hpc, got, error>>

Loop == Read \/ TakeChunk \/ TakeEnd \/ TakeFailure \/ Expire \/ Beat

Leave == LeaveWaiting \/ LeaveSending

Next ==
  \/ Arrive \/ SourceStops
  \/ Loop \/ Deliver \/ Finish
  \/ Resume \/ Leave
  \/ CollectHeartbeat \/ CollectHandler
  \/ Tick

\* The event loop runs what is ready, time passes, objects are collected, and
\* a client takes what it is sent or leaves.  A finished task may lose one race
\* against the heartbeat; the next wait for it returns at once, whence strong
\* fairness.  The upstream owes nothing.
Fairness ==
  /\ WF_vars(Loop)
  /\ SF_vars(Deliver \/ Finish)
  /\ WF_vars(Tick)
  /\ WF_vars(Resume \/ LeaveSending)
  /\ WF_vars(CollectHeartbeat \/ CollectHandler)

Spec == Init /\ [][Next]_vars

FairSpec == Spec /\ Fairness

-----------------------------------------------------------------------------
TypeOK ==
  /\ agent \in {"responses", "messages"}
  /\ source \in {"open", "ended", "broken"}
  /\ arrived \in 0 .. Len(PiecesOf) /\ read \in 0 .. arrived
  /\ tread \in {"none", "running", "chunk", "end", "failed"}
  /\ tpc \in {"fresh", "waiting", "yielded", "closed"}
  /\ tleft \in Int /\ age \in Nat /\ quiet \in Nat
  /\ todo \in Nat /\ atail \in {"none", "end", "raise"} /\ slot \in BOOLEAN
  /\ hread \in {"none", "running", "piece", "end", "failed"}
  /\ piece \in -1 .. Len(PiecesOf)
  /\ hpc \in {"fresh", "waiting", "atPiece", "atBeat", "abandoned", "closed"}
  /\ hleft \in Int
  /\ got \in Seq(-1 .. Len(PiecesOf))
  /\ error \in {"none", "idle", "absolute", "unknown", "broken"}

PiecesUpTo(n) ==
  FlattenSeq([k \in 1 .. n |-> [i \in 1 .. PiecesOf[k] |-> k]])

\* Shielding a read behind heartbeats, and cancelling one, loses and doubles
\* nothing (sse.py:95-114, 147-196): what the client has got, what is in hand
\* and what the adapters still hold are the pieces of the chunks read so far,
\* in order, while nothing has failed and the client is there; and what a client
\* has got in the end is a beginning of the answer, with one salvage at most,
\* which closes no answer that is complete already (chat_to_responses.py:218).
NothingLost ==
  LET saved  == got # <<>> /\ Last(got) = Salvage
      heard  == IF saved THEN Front(got) ELSE got
      inHand == IF hread = "piece" THEN <<piece>> ELSE <<>>
      held   == [i \in 1 .. todo |-> piece]
      used   == IF tread = "chunk" THEN read - 1 ELSE read
      ending == IF atail = "end" THEN <<Closing>> ELSE <<>>
  IN  /\ error = "none" /\ hpc \notin {"abandoned", "closed"} =>
           got \o inHand \o held = PiecesUpTo(used) \o ending
      /\ IsPrefix(heard, PiecesUpTo(read) \o <<Closing>>)
      /\ saved => FinishAt \notin ToSet(got)

\* No read of the upstream outlives either timeout by more than the lateness
\* of the event loop, whatever heartbeats were sent meanwhile (sse.py:126, 127).
AbortedInTime ==
  tread = "running" =>
    /\ Idle > 0 => quiet <= Idle + Late
    /\ Abs > 0 => age <= Abs + Late

\* What has failed is what error' says it is.
ReasonHolds ==
  CASE error' = "idle" -> Idle > 0 /\ quiet >= Idle /\ (Abs > 0 => age < Abs - Slack)
    [] error' = "absolute" -> Abs > 0 /\ age >= Abs - Slack
    [] error' = "broken" -> tread = "failed"
    [] OTHER -> FALSE

\* A timeout says which one it was (sse.py:170-183): the stream is told idle
\* only after a wait of so long, with more than the tolerance left for the whole;
\* that the whole has taken too long no earlier than that tolerance before its
\* deadline (a wait that was too long by then is called so too); and never that
\* some unknown timeout was exceeded.
TruthfulReason == [][error' # error => ReasonHolds]_vars

\* As long as a task reads the upstream, the request holds its slot
\* (openai_responses.py:237, anthropic_messages.py:136): max_concurrency
\* bounds the streams the backend really serves.
SlotCoversReads == tread \in {"running", "chunk"} => slot

\* However the stream ends, its two tasks end and the slot is given back.
EveryStreamEnds ==
  <>[](hpc = "closed" /\ ~slot /\ hread = "none" /\ tread = "none")
=============================================================================
