----------------------- MODULE StreamWrappers_proofs ------------------------
(***************************************************************************)
(* For every answer, every pair of timeouts and every lateness of the      *)
(* event loop: the slot covers the reads, no read outlives its timeouts,   *)
(* and a timeout says which one it was.  The inductive invariant ties the  *)
(* two tasks to each other (Linked), the slot to the outer one (SlotKept)  *)
(* and the timer of the running wait to the time that has passed (Timed).  *)
(***************************************************************************)
EXTENDS StreamWrappers, SequenceLaws, TLAPS

Typed ==
  /\ Idle \in Nat /\ Abs \in Nat /\ Late \in Nat /\ Idle + Abs > 0
  /\ Slack \in Nat
  /\ tleft \in Int /\ age \in Nat /\ quiet \in Nat
  /\ slot \in BOOLEAN

\* with_heartbeat's task runs as long as with_timeout waits, which waits as long
\* as it has a task; and who is at rest has no task.
Linked ==
  /\ hread = "running" <=> tpc = "waiting"
  /\ tread # "none" <=> tpc = "waiting"
  /\ hpc \in {"fresh", "atPiece", "closed"} => hread = "none"

\* A generator that has been left will not be asked again.
SlotKept == ~slot => hread \in {"end", "failed"} \/ hpc = "closed"

\* The timer is that of the timeout that comes first.
Timed ==
  tpc = "waiting" =>
    /\ tleft >= -Late
    /\ Idle > 0 => tleft + quiet <= Idle
    /\ Abs > 0 => tleft + age <= Abs
    /\ \/ Idle > 0 /\ tleft + quiet = Idle
       \/ Abs > 0 /\ tleft + age = Abs

IInv == Typed /\ Linked /\ SlotKept /\ Timed

\* Asking for a chunk sets the timer, or fails and leaves no wait behind.
LEMMA AskSets ==
  ASSUME IInv, AskForChunk, age' = age, slot
  PROVE  Typed' /\ Timed' /\ (tread' # "none" <=> tpc' = "waiting")
         /\ (hread' = "running" <=> tpc' = "waiting")
         /\ (~slot' => hread' \in {"end", "failed"})
         /\ hread' # "none"
<1> USE DEF IInv, Typed
<1>1. CASE Abs > 0 /\ Remaining <= 0
  <2>1. Fail("absolute") /\ tleft' = tleft  BY <1>1 DEF AskForChunk
  <2>2. tpc' = "closed" /\ tread' = "none" /\ quiet' = 0  BY <2>1 DEF Fail
  <2>3. \/ hread' = "piece" /\ slot' = slot
        \/ hread' = "failed" /\ slot' = FALSE
    BY <2>1 DEF Fail, HandOver, LeaveHandler
  <2> QED  BY <2>1, <2>2, <2>3 DEF Timed
<1>2. CASE ~(Abs > 0 /\ Remaining <= 0)
  <2>1. /\ tpc' = "waiting" /\ tread' = "running" /\ hread' = "running"
        /\ quiet' = 0 /\ tleft' = WaitTime /\ slot' = slot
    BY <1>2 DEF AskForChunk
  <2>2. Remaining = Abs - age /\ Remaining \in Int  BY DEF Remaining
  <2>3. /\ WaitTime \in Int /\ WaitTime >= 0
        /\ Idle > 0 => WaitTime <= Idle
        /\ Abs > 0 => WaitTime <= Abs - age
        /\ (Idle > 0 /\ WaitTime = Idle) \/ (Abs > 0 /\ WaitTime = Abs - age)
    BY <1>2, <2>2 DEF WaitTime
  <2> HIDE DEF WaitTime
  <2>4. Timed'  BY <2>1, <2>3 DEF Timed
  <2> QED  BY <2>1, <2>3, <2>4
<1> QED  BY <1>1, <1>2

LEMMA FailSets ==
  ASSUME IInv, NEW why, Fail(why), age' = age, tleft' = tleft
  PROVE  Typed' /\ Timed' /\ (tread' # "none" <=> tpc' = "waiting")
         /\ (hread' = "running" <=> tpc' = "waiting")
         /\ (~slot' => ~slot \/ hread' \in {"end", "failed"})
         /\ hread' # "none"
<1>1. tpc' = "closed" /\ tread' = "none" /\ quiet' = 0  BY DEF Fail
<1>2. \/ hread' = "piece" /\ slot' = slot
      \/ hread' = "failed" /\ slot' = FALSE
  BY DEF Fail, HandOver, LeaveHandler
<1> QED  BY <1>1, <1>2 DEF IInv, Typed, Timed

LEMMA CancelSets ==
  ASSUME IInv, CancelRead, hpc' = "closed", age' = age, tleft' = tleft
  PROVE  IInv'
<1>1. hread' = "none"  BY DEF CancelRead
<1>2. CASE hread = "running"
  <2>1. tpc' = "closed" /\ tread' = "none" /\ quiet' = 0  BY <1>2 DEF CancelRead
  <2>2. slot' = slot \/ slot' = FALSE  BY <1>2 DEF CancelRead
  <2> QED  BY <1>1, <2>1, <2>2 DEF IInv, Typed, Linked, SlotKept, Timed
<1>3. CASE hread # "running"
  <2>1. tpc' = tpc /\ tread' = tread /\ quiet' = quiet /\ slot' = slot
    BY <1>3 DEF CancelRead
  <2> QED  BY <1>1, <1>3, <2>1 DEF IInv, Typed, Linked, SlotKept, Timed
<1> QED  BY <1>2, <1>3

LEMMA ResumeOK == ASSUME IInv, Resume PROVE IInv'
<1>1. /\ hpc \in {"fresh", "atPiece", "atBeat"} /\ hpc' = "waiting" /\ age' = age
  BY DEF Resume
<1>2. CASE hpc = "atBeat"
  <2>1. /\ tread' = tread /\ tpc' = tpc /\ tleft' = tleft /\ quiet' = quiet
        /\ slot' = slot /\ hread' = hread
    BY <1>2 DEF Resume, handler
  <2> QED  BY <1>1, <1>2, <2>1 DEF IInv, Typed, Linked, SlotKept, Timed
<1>3. CASE hpc # "atBeat"
  <2>1. NextPiece  BY <1>3 DEF Resume
  <2>2. hread = "none" /\ slot /\ tpc # "waiting"
    BY <1>1, <1>3 DEF IInv, Linked, SlotKept, Typed
  <2>3. CASE todo > 0
    <3>1. /\ hread' = "piece" /\ tread' = tread /\ tpc' = tpc
          /\ tleft' = tleft /\ quiet' = quiet /\ slot' = slot
      BY <2>1, <2>3 DEF NextPiece, HandOver
    <3> QED  BY <1>1, <2>2, <2>3, <3>1 DEF IInv, Typed, Linked, SlotKept, Timed
  <2>4. CASE todo = 0 /\ atail # "none"
    <3>1. /\ hread' \in {"end", "failed"} /\ slot' = FALSE
          /\ tread' = tread /\ tpc' = tpc /\ tleft' = tleft /\ quiet' = quiet
      BY <2>1, <2>4 DEF NextPiece, LeaveHandler
    <3> QED  BY <1>1, <2>2, <3>1 DEF IInv, Typed, Linked, SlotKept, Timed
  <2>5. CASE ~(todo > 0) /\ ~(todo = 0 /\ atail # "none")
    <3>1. AskForChunk  BY <2>1, <2>5 DEF NextPiece
    <3> QED  BY <1>1, <2>2, <3>1, AskSets DEF IInv, Linked, SlotKept
  <2> QED  BY <2>3, <2>4, <2>5
<1> QED  BY <1>2, <1>3

LEMMA TakeChunkOK == ASSUME IInv, TakeChunk PROVE IInv'
<1>1. tpc = "waiting" /\ hpc' = hpc /\ age' = age  BY DEF TakeChunk
<1>2. hread = "running" /\ hpc \notin {"fresh", "atPiece", "closed"} /\ slot
  BY <1>1 DEF IInv, Linked, SlotKept, Typed
<1>3. CASE PiecesOf[read] = 0
  <2>1. AskForChunk  BY <1>3 DEF TakeChunk
  <2> QED  BY <1>1, <1>2, <2>1, AskSets DEF IInv, Linked, SlotKept
<1>4. CASE PiecesOf[read] # 0
  <2>1. /\ hread' = "piece" /\ tpc' = "yielded"
        /\ tread' = "none" /\ tleft' = tleft /\ quiet' = quiet /\ slot' = slot
    BY <1>4 DEF TakeChunk, HandOver
  <2> QED  BY <1>1, <1>2, <2>1 DEF IInv, Typed, Linked, SlotKept, Timed
<1> QED  BY <1>3, <1>4

LEMMA EndsOK == ASSUME IInv, TakeEnd \/ TakeFailure \/ Expire PROVE IInv'
<1>1. tpc = "waiting" /\ hpc' = hpc /\ age' = age /\ tleft' = tleft
  BY DEF TakeEnd, TakeFailure, Expire
<1>2. hread = "running" /\ hpc \notin {"fresh", "atPiece", "closed"} /\ slot
  BY <1>1 DEF IInv, Linked, SlotKept, Typed
<1>3. CASE TakeEnd
  <2>1. /\ tpc' = "closed" /\ tread' = "none" /\ hread' = "piece"
        /\ slot' = slot /\ quiet' = quiet
    BY <1>3 DEF TakeEnd, HandOver
  <2> QED  BY <1>1, <1>2, <2>1 DEF IInv, Typed, Linked, SlotKept, Timed
<1>4. CASE TakeFailure \/ Expire
  <2>1. PICK why : Fail(why)  BY <1>4 DEF TakeFailure, Expire
  <2> QED  BY <1>1, <1>2, <2>1, FailSets DEF IInv, Linked, SlotKept
<1> QED  BY <1>3, <1>4

LEMMA TickOK == ASSUME IInv, Tick PROVE IInv'
<1>1. /\ hpc' = hpc /\ hread' = hread /\ tpc' = tpc /\ tread' = tread /\ slot' = slot
  BY DEF Tick, reading, handler
<1>2. Typed'
  <2>1. tleft' \in Int  BY DEF Tick, IInv, Typed
  <2>2. age' \in Nat  BY DEF Tick, IInv, Typed
  <2>3. quiet' \in Nat  BY DEF Tick, IInv, Typed
  <2> QED  BY <1>1, <2>1, <2>2, <2>3 DEF IInv, Typed
<1>3. ASSUME tpc = "waiting" PROVE Timed'
  <2>1. tleft > -Late /\ tleft' = tleft - 1 /\ quiet' = quiet + 1
    BY <1>3 DEF Tick
  <2>2. Abs > 0 => tleft + age <= Abs  BY <1>3 DEF IInv, Timed
  <2>3. Abs > 0 => age <= Abs + Late  BY <2>1, <2>2 DEF IInv, Typed
  <2>4. Abs > 0 => age' = age + 1  BY <1>3, <2>3 DEF Tick
  <2> QED  BY <1>3, <2>1, <2>4 DEF IInv, Typed, Timed
<1>4. Timed'  BY <1>1, <1>3 DEF Timed
<1> QED  BY <1>1, <1>2, <1>4 DEF IInv, Linked, SlotKept

\* The steps of the client, of the upstream and of with_heartbeat alone.
LEMMA OthersOK ==
  ASSUME IInv,
         \/ Arrive \/ SourceStops \/ Read \/ Deliver \/ Finish \/ Beat \/ LeaveSending
         \/ CollectHandler
  PROVE  IInv'
<1>1. /\ tleft' = tleft /\ age' = age /\ quiet' = quiet
  BY DEF Arrive, SourceStops, Read, Deliver, Finish, Beat, LeaveSending, CollectHandler,
         timing
<1>2. CASE Arrive \/ SourceStops
  BY <1>1, <1>2 DEF IInv, Typed, Linked, SlotKept, Timed, Arrive, SourceStops,
                    reading, timing, handler, beating
<1>3. CASE Read
  BY <1>1, <1>3 DEF IInv, Typed, Linked, SlotKept, Timed, Read, timing, handler, beating
<1>4. CASE Deliver \/ Finish \/ Beat
  BY <1>1, <1>4 DEF IInv, Typed, Linked, SlotKept, Timed, Deliver, Finish, Beat,
                    reading, timing, handler
<1>5. CASE LeaveSending
  BY <1>1, <1>5 DEF IInv, Typed, Linked, SlotKept, Timed, LeaveSending,
                    reading, timing, handler
<1>6. CASE CollectHandler
  BY <1>1, <1>6 DEF IInv, Typed, Linked, SlotKept, Timed, CollectHandler, reading, beating
<1> QED  BY <1>2, <1>3, <1>4, <1>5, <1>6

LEMMA InitOK == ASSUME Init PROVE IInv
  BY WrappersAssumption DEF Init, IInv, Typed, Linked, SlotKept, Timed

LEMMA StepOK == ASSUME IInv, [Next]_vars PROVE IInv'
<1>1. CASE UNCHANGED vars
  BY <1>1 DEF vars, reading, timing, handler, beating, IInv, Typed, Linked, SlotKept, Timed
<1>2. CASE TakeChunk  BY <1>2, TakeChunkOK
<1>3. CASE TakeEnd \/ TakeFailure \/ Expire  BY <1>3, EndsOK
<1>4. CASE Resume  BY <1>4, ResumeOK
<1>5. CASE LeaveWaiting \/ CollectHeartbeat
  <2>1. CancelRead /\ hpc' = "closed" /\ age' = age /\ tleft' = tleft
    BY <1>5 DEF LeaveWaiting, CollectHeartbeat
  <2> QED  BY <2>1, CancelSets
<1>6. CASE Tick  BY <1>6, TickOK
<1>7. CASE \/ Arrive \/ SourceStops \/ Read \/ Deliver \/ Finish \/ Beat \/ LeaveSending
           \/ CollectHandler
  BY <1>7, OthersOK
<1> QED  BY <1>1, <1>2, <1>3, <1>4, <1>5, <1>6, <1>7 DEF Next, Loop, Leave

\* The inductive invariant holds throughout.
THEOREM WrappersInvariant == Spec => []IInv
<1>1. Init => IInv  BY InitOK
<1>2. IInv /\ [Next]_vars => IInv'  BY StepOK
<1> QED  BY <1>1, <1>2, PTL DEF Spec

\* While a task reads the upstream the request holds its slot
\* (openai_responses.py:237, anthropic_messages.py:136), however the two tasks,
\* the client and the collector take turns.
THEOREM WrappersSlotCoversReads == Spec => []SlotCoversReads
<1>1. IInv => SlotCoversReads  BY DEF IInv, Typed, Linked, SlotKept, SlotCoversReads
<1> QED  BY <1>1, WrappersInvariant, PTL

\* Heartbeats postpone neither timeout (sse.py:126-183): the reading task is gone
\* at most Late ticks after the first of them is due.
THEOREM WrappersAbortedInTime == Spec => []AbortedInTime
<1>1. IInv => AbortedInTime  BY DEF IInv, Typed, Linked, Timed, AbortedInTime
<1> QED  BY <1>1, WrappersInvariant, PTL

\* The second reading of the clock (sse.py:170-183) calls a timeout idle only when
\* that one was due and more than the tolerance was left for the whole stream, calls
\* it absolute only within the tolerance of that deadline, and never names none.
THEOREM WrappersTruthfulReason == Spec => TruthfulReason
<1>1. ASSUME IInv, [Next]_vars, error' # error
      PROVE  ReasonHolds
  <2> USE DEF IInv, Typed, Timed, ReasonHolds
  <2>1. CASE TakeFailure  BY <1>1, <2>1 DEF TakeFailure, Fail
  <2>2. CASE Expire
    <3>1. tpc = "waiting" /\ tleft <= 0 /\ error' = Reason  BY <2>2 DEF Expire, Fail
    <3> QED  BY <1>1, <3>1 DEF Reason
  <2>3. CASE TakeChunk \/ Resume
    <3>1. AskForChunk
      BY <1>1, <2>3 DEF TakeChunk, Resume, NextPiece
    <3>2. Fail("absolute") /\ Abs > 0 /\ Remaining <= 0  BY <1>1, <3>1 DEF AskForChunk
    <3> QED  BY <1>1, <3>2 DEF Fail, Remaining
  <2> QED
    BY <1>1, <2>1, <2>2, <2>3
    DEF Next, Loop, Leave, Arrive, SourceStops, Read, TakeEnd, Deliver, Finish, Beat,
        LeaveWaiting, LeaveSending, CollectHeartbeat, CollectHandler, Tick, beating, vars
<1>2. IInv /\ [Next]_vars => [error' # error => ReasonHolds]_vars
  BY <1>1
<1> QED  BY <1>2, WrappersInvariant, PTL DEF Spec, TruthfulReason

-----------------------------------------------------------------------------
(* Nothing is lost.                                                        *)

\* What the types of the counters and of the pieces add to IInv.
Counted ==
  /\ arrived \in 0 .. Len(PiecesOf) /\ read \in 0 .. arrived
  /\ tread = "chunk" => read >= 1
  /\ todo \in Nat /\ piece \in Int /\ got \in Seq(Int)

PiecesOfChunk(k) == [i \in 1 .. PiecesOf[k] |-> k]

InHand == IF hread = "piece" THEN <<piece>> ELSE <<>>
Held   == [i \in 1 .. todo |-> piece]
Used   == IF tread = "chunk" THEN read - 1 ELSE read
Ending == IF atail = "end" THEN <<Closing>> ELSE <<>>
Answer == PiecesUpTo(read) \o <<Closing>>

Flowing == error = "none" /\ hpc # "closed"

Unfinished == FinishAt \notin ToSet(got)

\* As long as nothing fails and with_heartbeat is there, every piece is with the
\* client, in hand or held.
Whole ==
  Flowing =>
    /\ (got \o InHand) \o Held = PiecesUpTo(Used) \o Ending
    /\ atail \in {"none", "end"} /\ (atail = "end" => tpc = "closed")
    /\ hread = "running" => todo = 0 /\ atail = "none"

\* After that nothing is read, and at most one salvage is still to come, which
\* no client gets that has a piece of the chunk that finishes the answer.
Settled ==
  ~Flowing =>
    /\ tread = "none"
    /\ hpc = "closed" \/ hread = "failed" \/ (atail = "raise" /\ todo = 0)
    /\ \/ IsPrefix(got, Answer) /\ (hread = "piece" => piece = Salvage /\ Unfinished)
       \/ /\ hread # "piece" /\ Unfinished
          /\ \E h \in Seq(Int) : got = h \o <<Salvage>> /\ IsPrefix(h, Answer)

NInv == IInv /\ Counted /\ Whole /\ Settled

LEMMA PiecesUpToGrows ==
  /\ PiecesUpTo(0) = <<>>
  /\ \A n \in 0 .. Len(PiecesOf) :
       PiecesUpTo(n) \in Seq(Nat) /\ PiecesUpTo(n) \in Seq(1 .. n)
  /\ \A n \in 0 .. Len(PiecesOf) - 1 :
       PiecesUpTo(n + 1) = PiecesUpTo(n) \o PiecesOfChunk(n + 1)
<1> DEFINE ss(n) == [k \in 1 .. n |-> PiecesOfChunk(k)]
<1>1. \A n : PiecesUpTo(n) = FlattenSeq(ss(n))  BY DEF PiecesUpTo, PiecesOfChunk
<1>2. \A k \in 1 .. Len(PiecesOf) : PiecesOfChunk(k) \in Seq(Nat)
  BY WrappersAssumption DEF PiecesOfChunk
<1>3. \A n \in 0 .. Len(PiecesOf) : ss(n) \in SeqOfSeqs(Nat)
  BY <1>2 DEF SeqOfSeqs
<1>4. ASSUME NEW n \in 0 .. Len(PiecesOf) - 1
      PROVE  ss(n + 1) = Append(ss(n), PiecesOfChunk(n + 1))
  <2> HIDE DEF PiecesOfChunk
  <2> QED  OBVIOUS
<1>5. ss(0) = <<>>  OBVIOUS
<1>9. \A n \in 0 .. Len(PiecesOf) : ss(n) \in SeqOfSeqs(1 .. n)
  <2>1. ASSUME NEW n \in 0 .. Len(PiecesOf), NEW k \in 1 .. n
        PROVE  PiecesOfChunk(k) \in Seq(1 .. n)
    <3>1. k \in 1 .. Len(PiecesOf) /\ k \in 1 .. n  BY WrappersAssumption
    <3>2. PiecesOf[k] \in Nat  BY <3>1, WrappersAssumption
    <3> QED  BY <3>1, <3>2 DEF PiecesOfChunk
  <2> HIDE DEF PiecesOfChunk
  <2> QED  BY <2>1, WrappersAssumption DEF SeqOfSeqs
<1> HIDE DEF ss
<1>6. PiecesUpTo(0) = <<>>  BY <1>1, <1>5 DEF FlattenSeq
<1>7. \A n \in 0 .. Len(PiecesOf) :
        PiecesUpTo(n) \in Seq(Nat) /\ PiecesUpTo(n) \in Seq(1 .. n)
  BY <1>1, <1>3, <1>9, FlattenType
<1>8. ASSUME NEW n \in 0 .. Len(PiecesOf) - 1
      PROVE  PiecesUpTo(n + 1) = PiecesUpTo(n) \o PiecesOfChunk(n + 1)
  <2>1. n \in 0 .. Len(PiecesOf) /\ n + 1 \in 1 .. Len(PiecesOf)
    BY WrappersAssumption
  <2>2. ss(n) \in SeqOfSeqs(Nat) /\ PiecesOfChunk(n + 1) \in Seq(Nat)  BY <1>2, <1>3, <2>1
  <2> QED  BY <1>1, <1>4, <2>2, FlattenAppend
<1> QED  BY <1>6, <1>7, <1>8

\* What the definitions above are sequences of.
LEMMA StoryTypes ==
  ASSUME Counted
  PROVE  /\ got \in Seq(Int) /\ InHand \in Seq(Int) /\ Held \in Seq(Int)
         /\ Used \in 0 .. Len(PiecesOf) /\ read \in 0 .. Len(PiecesOf)
         /\ PiecesUpTo(Used) \in Seq(Int) /\ PiecesUpTo(read) \in Seq(Int)
         /\ Ending \in Seq(Int) /\ Answer \in Seq(Int)
<1>1. Len(PiecesOf) \in Nat  BY WrappersAssumption
<1>2. Used \in 0 .. Len(PiecesOf) /\ read \in 0 .. Len(PiecesOf)
  BY <1>1 DEF Counted, Used
<1>3. PiecesUpTo(Used) \in Seq(Int) /\ PiecesUpTo(read) \in Seq(Int)
  <2>1. \A t \in Seq(Nat) : t \in Seq(Int)  OBVIOUS
  <2> QED  BY <1>2, <2>1, PiecesUpToGrows
<1>4. InHand \in Seq(Int) /\ Ending \in Seq(Int) /\ <<Closing>> \in Seq(Int)
  BY DEF Counted, InHand, Ending, Closing
<1>5. Held \in Seq(Int)  BY DEF Counted, Held
<1>6. Answer \in Seq(Int)  BY <1>3, <1>4 DEF Answer
<1> QED  BY <1>2, <1>3, <1>4, <1>5, <1>6 DEF Counted

\* What has been used is a beginning of what has been read.
LEMMA UsedIsPrefix ==
  ASSUME Counted, NEW s \in Seq(Int), IsPrefix(s, PiecesUpTo(Used))
  PROVE  IsPrefix(s, PiecesUpTo(read))
<1>1. CASE tread = "chunk"
  <2>1. Used = read - 1 /\ Used \in 0 .. Len(PiecesOf) - 1 /\ Used + 1 = read
    BY <1>1, WrappersAssumption DEF Counted, Used
  <2>2. PiecesUpTo(read) = PiecesUpTo(Used) \o PiecesOfChunk(read)
    BY <2>1, PiecesUpToGrows
  <2>3. PiecesOfChunk(read) \in Seq(Int)
    BY <1>1, WrappersAssumption DEF Counted, PiecesOfChunk
  <2> QED  BY <2>2, <2>3, StoryTypes, PrefixOfConcat
<1>2. CASE tread # "chunk"  BY <1>2 DEF Used
<1> QED  BY <1>1, <1>2

LEMMA GotSoFar ==
  ASSUME NInv, Flowing
  PROVE  IsPrefix(got, PiecesUpTo(Used) \o Ending)
<1> USE StoryTypes DEF NInv
<1> DEFINE w == PiecesUpTo(Used) \o Ending
<1>1. w \in Seq(Int) /\ got \o InHand \in Seq(Int)  OBVIOUS
<1>2. (got \o InHand) \o Held = w  BY DEF Whole
<1> HIDE DEF w
<1>3. IsPrefix((got \o InHand) \o Held, w)  BY <1>1, <1>2, PrefixOfConcat
<1>4. IsPrefix(got \o InHand, w)  BY <1>1, <1>3, PrefixOfConcat
<1>5. IsPrefix(got, w)  BY <1>1, <1>4, PrefixOfConcat
<1> QED  BY <1>5 DEF w

\* While the adapter has not been given the chunk that finishes the answer, the
\* client has no piece of it.
LEMMA GotUnfinished ==
  ASSUME NInv, Flowing, atail = "none", Used < FinishAt
  PROVE  Unfinished
<1>1. /\ Used \in 0 .. Len(PiecesOf) /\ got \in Seq(Int) /\ Ending = <<>>
      /\ PiecesUpTo(Used) \in Seq(Int)
  BY StoryTypes DEF NInv, Ending
<1>2. IsPrefix(got, PiecesUpTo(Used))  BY <1>1, GotSoFar
<1>3. PiecesUpTo(Used) \in Seq(1 .. Used)  BY <1>1, PiecesUpToGrows
<1>4. ASSUME NEW i \in DOMAIN got  PROVE got[i] # FinishAt
  <2>1. i \in 1 .. Len(got)  BY <1>1
  <2>2. i \in 1 .. Len(PiecesUpTo(Used)) /\ got[i] = PiecesUpTo(Used)[i]
    BY <1>1, <1>2, <2>1, PrefixIs
  <2>3. got[i] \in 1 .. Used
    <3> DEFINE p == PiecesUpTo(Used)
               S == 1 .. Used
    <3>1. p \in Seq(S) /\ i \in 1 .. Len(p) /\ got[i] = p[i]  BY <1>3, <2>2
    <3> HIDE DEF p, S
    <3>2. got[i] \in S  BY ONLY <3>1
    <3> QED  BY <3>2 DEF S
  <2> QED  BY <1>1, <2>3, WrappersAssumption
<1> QED  BY <1>4 DEF Unfinished, ToSet

\* While the stream flows, what the client has got is a beginning of the answer.
LEMMA GotIsPrefix ==
  ASSUME NInv, Flowing
  PROVE  IsPrefix(got, Answer)
<1> USE StoryTypes DEF NInv
<1>1. IsPrefix(got, PiecesUpTo(Used) \o Ending)  BY GotSoFar
<1>2. CASE atail = "end"
  <2>1. tread # "chunk"  BY <1>2 DEF Whole, IInv, Linked
  <2> QED  BY <1>1, <1>2, <2>1 DEF Answer, Used, Ending
<1>3. CASE atail # "end"
  <2>1. PiecesUpTo(Used) \o Ending = PiecesUpTo(Used)  BY <1>3 DEF Ending
  <2>2. IsPrefix(got, PiecesUpTo(read))  BY <1>1, <2>1, UsedIsPrefix
  <2>3. <<Closing>> \in Seq(Int)  BY DEF Closing
  <2> QED  BY <2>2, <2>3, PrefixOfConcat DEF Answer
<1> QED  BY <1>2, <1>3

\* A step that leaves the pieces alone.
LEMMA SameStory ==
  ASSUME NInv, IInv', read' = read, arrived' \in 0 .. Len(PiecesOf), read <= arrived',
         tread' = tread, todo' = todo, piece' = piece, got' = got, hread' = hread,
         atail' = atail, error' = error,
         tpc' = tpc \/ tpc' = "closed", hpc' = "closed" <=> hpc = "closed"
  PROVE  NInv'
<1>1. Counted'  BY DEF NInv, Counted
<1>2. /\ InHand' = InHand /\ Held' = Held /\ Used' = Used /\ Ending' = Ending
      /\ Answer' = Answer /\ Flowing' = Flowing /\ Unfinished' = Unfinished
      /\ PiecesUpTo(Used') = PiecesUpTo(Used)
  BY DEF InHand, Held, Used, Ending, Answer, Flowing, Unfinished
<1>3. Whole'
  <2> HIDE DEF InHand, Held, Used, Ending
  <2> QED  BY <1>2 DEF NInv, Whole
<1>4. Settled'  BY <1>2 DEF NInv, Settled
<1> QED  BY <1>1, <1>3, <1>4 DEF NInv

\* A failure is met while the stream flows, and leaves what was got as it was.
LEMMA FailSettles ==
  ASSUME NInv, IInv', Flowing, NEW why \in {"idle", "absolute", "unknown", "broken"}, Fail(why),
         got' = got, read' = read, arrived' = arrived, hpc' # "closed", hread # "piece",
         atail = "none"
  PROVE  NInv'
<1>1. tread' = "none" /\ error' = why  BY DEF Fail
<1>2. \/ /\ hread' = "piece" /\ piece' = Salvage /\ todo' = 0 /\ atail' = "raise"
         /\ Unfinished
      \/ hread' = "failed" /\ piece' = piece /\ todo' = todo
  <2>1. CASE Salvages
    <3>1. Used < FinishAt  BY <2>1 DEF Salvages, Adapted, Used
    <3> QED  BY <2>1, <3>1, GotUnfinished DEF Fail, HandOver
  <2>2. CASE ~Salvages  BY <2>2 DEF Fail, LeaveHandler
  <2> QED  BY <2>1, <2>2
<1>3. Counted'  BY <1>1, <1>2 DEF NInv, Counted, Salvage
<1>4. ~Flowing'  BY <1>1 DEF Flowing
<1>5. IsPrefix(got, Answer) /\ Answer' = Answer /\ Unfinished' = Unfinished
  BY GotIsPrefix DEF Answer, Unfinished
<1>6. Settled'  BY <1>1, <1>2, <1>5 DEF Settled
<1> QED  BY <1>3, <1>4, <1>6 DEF NInv, Whole

\* Asking for the next chunk once everything read is with the client.
LEMMA AskKeepsStory ==
  ASSUME NInv, IInv', Flowing, AskForChunk, got' = got, read' = read, arrived' = arrived,
         hpc' # "closed", got = PiecesUpTo(read), todo = 0, atail = "none", hread # "piece"
  PROVE  NInv'
<1>1. CASE Abs > 0 /\ Remaining <= 0
  <2>1. Fail("absolute")  BY <1>1 DEF AskForChunk
  <2> QED  BY <2>1, FailSettles
<1>2. CASE ~(Abs > 0 /\ Remaining <= 0)
  <2>1. /\ tread' = "running" /\ hread' = "running" /\ error' = error
        /\ piece' = piece /\ todo' = todo /\ atail' = atail
    BY <1>2 DEF AskForChunk
  <2>2. Counted'  BY <2>1 DEF NInv, Counted
  <2>3. Flowing'  BY <2>1 DEF Flowing
  <2>4. /\ InHand' = <<>> /\ Ending' = <<>> /\ Held' = <<>> /\ Used' = read
        /\ PiecesUpTo(Used') = PiecesUpTo(read)
    BY <2>1 DEF InHand, Ending, Held, Used
  <2>5. (got \o <<>>) \o <<>> = PiecesUpTo(read) \o <<>>
    <3>1. got \in Seq(Int)  BY DEF NInv, Counted
    <3>2. got \o <<>> = got  BY <3>1
    <3> QED  BY <3>2
  <2>6. Whole'
    <3> HIDE DEF InHand, Ending, Held, Used
    <3> QED  BY <2>1, <2>4, <2>5 DEF Whole
  <2> QED  BY <2>2, <2>3, <2>6 DEF NInv, Settled
<1> QED  BY <1>1, <1>2

\* with_heartbeat closes, or the client is gone: nothing will be added.
LEMMA CloseSettles ==
  ASSUME NInv, IInv', hpc # "closed", hpc' = "closed", got' = got, read' = read,
         arrived' = arrived, todo' = todo, piece' = piece
  PROVE  NInv'
<1>1. hread' = "none" /\ tread' = "none"
  BY DEF IInv, Linked
<1>2. Counted'  BY <1>1 DEF NInv, Counted
<1>3. ~Flowing' /\ Answer' = Answer /\ Unfinished' = Unfinished
  BY DEF Flowing, Answer, Unfinished
<1>4. CASE Flowing
  <2>1. IsPrefix(got, Answer)  BY <1>4, GotIsPrefix
  <2> QED  BY <1>1, <1>2, <1>3, <2>1 DEF NInv, Whole, Settled
<1>5. CASE ~Flowing
  BY <1>1, <1>2, <1>3, <1>5 DEF NInv, Whole, Settled
<1> QED  BY <1>4, <1>5

LEMMA ReadKeepsStory == ASSUME NInv, IInv', Read PROVE NInv'
<1>1. /\ tread = "running" /\ arrived' = arrived /\ todo' = todo /\ piece' = piece
      /\ got' = got /\ hread' = hread /\ atail' = atail /\ error' = error
      /\ tpc' = tpc /\ hpc' = hpc
  BY DEF Read, upstream, timing, handler, beating
<1>2. \/ read < arrived /\ read' = read + 1 /\ tread' = "chunk"
      \/ read' = read /\ tread' \in {"end", "failed"}
  BY DEF Read
<1>3. Counted'  BY <1>1, <1>2 DEF NInv, Counted
<1>4. Flowing /\ Flowing'  BY <1>1 DEF NInv, Settled, Flowing
<1>5. Used = read /\ Used' = read  BY <1>1, <1>2 DEF NInv, Counted, Used
<1>6. InHand' = InHand /\ Held' = Held /\ Ending' = Ending
  BY <1>1 DEF InHand, Held, Ending
<1>7. PiecesUpTo(Used') = PiecesUpTo(Used)  BY <1>5
<1>8. Whole'
  <2> HIDE DEF InHand, Held, Ending, Used
  <2> QED  BY <1>1, <1>4, <1>6, <1>7 DEF NInv, Whole
<1> QED  BY <1>3, <1>4, <1>8 DEF NInv, Settled

LEMMA TakeChunkKeepsStory == ASSUME NInv, IInv', TakeChunk PROVE NInv'
<1>1. /\ tpc = "waiting" /\ tread = "chunk" /\ read' = read /\ arrived' = arrived
      /\ hpc' = hpc /\ got' = got
  BY DEF TakeChunk, upstream
<1>2. Flowing /\ hread = "running" /\ todo = 0 /\ atail = "none" /\ hpc' # "closed"
  BY <1>1 DEF NInv, Settled, Whole, Flowing, IInv, Linked
<1>3. Used = read - 1 /\ Used \in 0 .. Len(PiecesOf) - 1 /\ Used + 1 = read
  BY <1>1, WrappersAssumption DEF NInv, Counted, Used
<1>4. PiecesUpTo(read) = PiecesUpTo(Used) \o PiecesOfChunk(read)
  BY <1>3, PiecesUpToGrows
<1>5. got = PiecesUpTo(Used)
  <2>1. InHand = <<>> /\ Held = <<>> /\ Ending = <<>>  BY <1>2 DEF InHand, Held, Ending
  <2>2. got \in Seq(Int) /\ PiecesUpTo(Used) \in Seq(Int)  BY StoryTypes DEF NInv
  <2>3. (got \o InHand) \o Held = PiecesUpTo(Used) \o Ending  BY <1>2 DEF NInv, Whole
  <2> QED  BY <2>1, <2>2, <2>3
<1>6. PiecesOf[read] \in Nat  BY <1>1, WrappersAssumption DEF NInv, Counted
<1>7. CASE PiecesOf[read] = 0
  <2>1. AskForChunk  BY <1>7 DEF TakeChunk
  <2>2. PiecesOfChunk(read) = <<>>  BY <1>7 DEF PiecesOfChunk
  <2>3. PiecesUpTo(Used) \in Seq(Int)  BY StoryTypes DEF NInv
  <2>4. got = PiecesUpTo(read)  BY <1>4, <1>5, <2>2, <2>3
  <2> QED  BY <1>1, <1>2, <2>1, <2>4, AskKeepsStory
<1>8. CASE PiecesOf[read] # 0
  <2>1. /\ hread' = "piece" /\ piece' = read /\ todo' = PiecesOf[read] - 1
        /\ tread' = "none" /\ atail' = atail /\ error' = error
    BY <1>8 DEF TakeChunk, HandOver
  <2>2. Counted'  BY <1>1, <1>6, <1>8, <2>1 DEF NInv, Counted
  <2>3. Flowing'  BY <1>1, <1>2, <2>1 DEF Flowing
  <2>4. /\ InHand' = <<read>> /\ Held' = [i \in 1 .. PiecesOf[read] - 1 |-> read]
        /\ Ending' = <<>> /\ Used' = read /\ PiecesUpTo(Used') = PiecesUpTo(read)
    BY <1>1, <1>2, <2>1 DEF InHand, Held, Ending, Used
  <2>5. <<read>> \o [i \in 1 .. PiecesOf[read] - 1 |-> read] = PiecesOfChunk(read)
    BY <1>6, <1>8 DEF PiecesOfChunk
  <2>6. (got \o InHand') \o Held' = got \o PiecesOfChunk(read)
    <3> DEFINE h == [i \in 1 .. PiecesOf[read] - 1 |-> read]
    <3>1. <<read>> \in Seq(Int) /\ h \in Seq(Int) /\ got \in Seq(Int)
      BY <1>6, <1>8 DEF NInv, Counted
    <3>2. InHand' = <<read>> /\ Held' = h /\ <<read>> \o h = PiecesOfChunk(read)
      BY <2>4, <2>5
    <3> HIDE DEF h
    <3>3. (got \o <<read>>) \o h = got \o (<<read>> \o h)  BY <3>1, Associative
    <3> QED  BY <3>2, <3>3
  <2>7. PiecesUpTo(read) \o <<>> = PiecesUpTo(read)  BY StoryTypes DEF NInv
  <2>8. Whole'
    <3> HIDE DEF InHand, Held, Ending, Used
    <3> QED  BY <1>1, <1>2, <1>4, <1>5, <2>1, <2>4, <2>6, <2>7 DEF Whole
  <2> QED  BY <2>2, <2>3, <2>8 DEF NInv, Settled
<1> QED  BY <1>7, <1>8

LEMMA TakeEndKeepsStory == ASSUME NInv, IInv', TakeEnd PROVE NInv'
<1>1. /\ tpc = "waiting" /\ tread = "end" /\ read' = read /\ arrived' = arrived
      /\ tpc' = "closed" /\ tread' = "none" /\ hread' = "piece" /\ piece' = Closing
      /\ todo' = 0 /\ atail' = "end" /\ hpc' = hpc /\ got' = got /\ error' = error
  BY DEF TakeEnd, HandOver, upstream
<1>2. Flowing /\ hread = "running" /\ todo = 0 /\ atail = "none" /\ Flowing'
  BY <1>1 DEF NInv, Settled, Whole, Flowing, IInv, Linked
<1>3. Counted'  BY <1>1 DEF NInv, Counted, Closing
<1>4. got = PiecesUpTo(read)
  <2>1. InHand = <<>> /\ Held = <<>> /\ Ending = <<>> /\ Used = read
    BY <1>1, <1>2 DEF InHand, Held, Ending, Used
  <2>2. got \in Seq(Int) /\ PiecesUpTo(Used) \in Seq(Int)  BY StoryTypes DEF NInv
  <2>3. (got \o InHand) \o Held = PiecesUpTo(Used) \o Ending  BY <1>2 DEF NInv, Whole
  <2> QED  BY <2>1, <2>2, <2>3
<1>5. /\ InHand' = <<Closing>> /\ Held' = <<>> /\ Ending' = <<Closing>> /\ Used' = read
      /\ PiecesUpTo(Used') = PiecesUpTo(read)
  BY <1>1 DEF InHand, Held, Ending, Used
<1>6. (got \o <<Closing>>) \o <<>> = got \o <<Closing>>
  <2>1. got \o <<Closing>> \in Seq(Int)  BY DEF NInv, Counted, Closing
  <2> QED  BY <2>1
<1>7. Whole'
  <2> HIDE DEF InHand, Held, Ending, Used
  <2> QED  BY <1>1, <1>4, <1>5, <1>6 DEF Whole
<1> QED  BY <1>2, <1>3, <1>7 DEF NInv, Settled

LEMMA DeliverKeepsStory == ASSUME NInv, IInv', Deliver PROVE NInv'
<1>1. /\ hpc = "waiting" /\ hread = "piece" /\ got' = Append(got, piece)
      /\ hread' = "none" /\ hpc' = "atPiece" /\ read' = read /\ arrived' = arrived
      /\ tread' = tread /\ tpc' = tpc /\ todo' = todo /\ atail' = atail
      /\ piece' = piece /\ error' = error
  BY DEF Deliver, upstream, reading, timing, handler
<1>2. got \in Seq(Int) /\ piece \in Int  BY DEF NInv, Counted
<1>3. got' = got \o <<piece>> /\ got' \in Seq(Int)  BY <1>1, <1>2
<1>4. Counted'  BY <1>1, <1>3 DEF NInv, Counted
<1>5. Flowing' = Flowing /\ Answer' = Answer  BY <1>1 DEF Flowing, Answer
<1>6. CASE Flowing
  <2>1. /\ InHand = <<piece>> /\ InHand' = <<>> /\ Held' = Held /\ Ending' = Ending
        /\ Used' = Used /\ PiecesUpTo(Used') = PiecesUpTo(Used)
    BY <1>1 DEF InHand, Held, Ending, Used
  <2>2. (got' \o InHand') \o Held' = (got \o InHand) \o Held
    <3>1. got' \o <<>> = got'  BY <1>3
    <3> QED  BY <1>3, <2>1, <3>1
  <2>3. Whole'
    <3> HIDE DEF InHand, Held, Ending, Used
    <3> QED  BY <1>1, <1>6, <2>1, <2>2 DEF NInv, Whole
  <2> QED  BY <1>4, <1>5, <1>6, <2>3 DEF NInv, Settled
<1>7. CASE ~Flowing
  <2>1. IsPrefix(got, Answer) /\ piece = Salvage /\ Unfinished
    BY <1>1, <1>7 DEF NInv, Settled
  <2>2. Unfinished'
    <3>1. FinishAt # Salvage  BY WrappersAssumption DEF Salvage
    <3>2. ASSUME NEW i \in DOMAIN got'  PROVE got'[i] # FinishAt
      <4>1. (i \in DOMAIN got /\ got'[i] = got[i]) \/ got'[i] = Salvage
        BY <1>2, <1>3, <2>1
      <4> QED  BY <2>1, <3>1, <4>1 DEF Unfinished, ToSet
    <3> QED  BY <3>2 DEF Unfinished, ToSet
  <2>3. Settled'
    BY <1>1, <1>2, <1>3, <1>5, <1>7, <2>1, <2>2 DEF NInv, Settled
  <2> QED  BY <1>4, <1>5, <1>7, <2>3 DEF NInv, Whole
<1> QED  BY <1>6, <1>7

LEMMA ResumeKeepsStory == ASSUME NInv, IInv', Resume PROVE NInv'
<1>1. /\ hpc \in {"fresh", "atPiece", "atBeat"} /\ hpc' = "waiting" /\ read' = read
      /\ arrived' = arrived /\ got' = got
  BY DEF Resume, upstream
<1>2. CASE hpc = "atBeat"
  <2>1. /\ tread' = tread /\ tpc' = tpc /\ todo' = todo /\ atail' = atail
        /\ hread' = hread /\ piece' = piece /\ error' = error
    BY <1>2 DEF Resume, handler
  <2>2. arrived' \in 0 .. Len(PiecesOf) /\ read <= arrived'  BY <1>1 DEF NInv, Counted
  <2> QED  BY <1>1, <2>1, <2>2, SameStory
<1>3. CASE hpc # "atBeat"
  <2>1. NextPiece  BY <1>3 DEF Resume
  <2>2. hread = "none" /\ tread = "none"  BY <1>1, <1>3 DEF NInv, IInv, Linked
  <2>3. todo \in Nat /\ got \in Seq(Int)  BY DEF NInv, Counted
  <2>4. CASE todo > 0
    <3>1. /\ hread' = "piece" /\ piece' = piece /\ todo' = todo - 1 /\ tread' = tread
          /\ tpc' = tpc /\ atail' = atail /\ error' = error
      BY <2>1, <2>4 DEF NextPiece, HandOver
    <3>2. Flowing /\ Flowing'
      BY <1>1, <2>2, <2>4, <3>1 DEF NInv, Settled, Flowing
    <3>3. Counted'  BY <1>1, <2>4, <3>1 DEF NInv, Counted
    <3>4. /\ InHand = <<>> /\ InHand' = <<piece>> /\ Ending' = Ending /\ Used' = Used
          /\ PiecesUpTo(Used') = PiecesUpTo(Used)
      BY <1>1, <2>2, <3>1 DEF InHand, Ending, Used
    <3>5. <<piece>> \o Held' = Held
      BY <2>3, <2>4, <3>1 DEF NInv, Counted, Held
    <3>6. (got' \o InHand') \o Held' = (got \o InHand) \o Held
      <4>1. <<piece>> \in Seq(Int) /\ Held' \in Seq(Int)
        BY <3>1, <3>3 DEF NInv, Counted, Held
      <4>2. (got \o <<piece>>) \o Held' = got \o (<<piece>> \o Held')
        BY <2>3, <4>1, Associative
      <4>3. got \o <<>> = got  BY <2>3
      <4> QED  BY <1>1, <3>4, <3>5, <4>2, <4>3
    <3>7. Whole'
      <4> HIDE DEF InHand, Held, Ending, Used
      <4> QED  BY <3>1, <3>2, <3>4, <3>6 DEF NInv, Whole
    <3> QED  BY <3>2, <3>3, <3>7 DEF NInv, Settled
  <2>5. CASE todo = 0 /\ atail # "none"
    <3>1. /\ hread' = (IF atail = "end" THEN "end" ELSE "failed") /\ piece' = piece
          /\ todo' = todo /\ atail' = atail /\ tread' = tread /\ tpc' = tpc
          /\ error' = error
      BY <2>1, <2>5 DEF NextPiece, LeaveHandler
    <3>2. Counted'  BY <1>1, <3>1 DEF NInv, Counted
    <3>3. Flowing' = Flowing /\ Answer' = Answer /\ Unfinished' = Unfinished
      BY <1>1, <3>1 DEF Flowing, Answer, Unfinished, IInv, Linked
    <3>4. /\ InHand' = InHand /\ Held' = Held /\ Ending' = Ending /\ Used' = Used
          /\ PiecesUpTo(Used') = PiecesUpTo(Used)
      BY <1>1, <2>2, <3>1 DEF InHand, Held, Ending, Used
    <3>5. Whole'
      <4> HIDE DEF InHand, Held, Ending, Used
      <4> QED  BY <1>1, <3>1, <3>3, <3>4 DEF NInv, Whole
    <3>6. Settled'
      BY <1>1, <2>2, <2>5, <3>1, <3>3 DEF NInv, Settled, Flowing
    <3> QED  BY <3>2, <3>5, <3>6 DEF NInv
  <2>6. CASE todo = 0 /\ atail = "none"
    <3>1. AskForChunk  BY <2>1, <2>6 DEF NextPiece
    <3>2. Flowing  BY <1>1, <2>2, <2>6 DEF NInv, Settled
    <3>3. got = PiecesUpTo(read)
      <4>1. InHand = <<>> /\ Held = <<>> /\ Ending = <<>> /\ Used = read
        BY <2>2, <2>6 DEF InHand, Held, Ending, Used
      <4>2. PiecesUpTo(Used) \in Seq(Int)  BY StoryTypes DEF NInv
      <4>3. (got \o InHand) \o Held = PiecesUpTo(Used) \o Ending
        BY <3>2 DEF NInv, Whole
      <4> QED  BY <2>3, <4>1, <4>2, <4>3
    <3> QED  BY <1>1, <2>2, <2>6, <3>1, <3>2, <3>3, AskKeepsStory
  <2> QED  BY <2>3, <2>4, <2>5, <2>6
<1> QED  BY <1>2, <1>3

LEMMA NInitOK == ASSUME Init PROVE NInv
<1>1. IInv  BY InitOK
<1>2. Counted  BY WrappersAssumption DEF Init, Counted, Closing
<1>3. Flowing  BY DEF Init, Flowing
<1>4. InHand = <<>> /\ Held = <<>> /\ Ending = <<>> /\ Used = 0
  BY DEF Init, InHand, Held, Ending, Used
<1>5. (got \o InHand) \o Held = PiecesUpTo(Used) \o Ending
  BY <1>4, PiecesUpToGrows DEF Init
<1>6. Whole  BY <1>5 DEF Init, Whole
<1> QED  BY <1>1, <1>2, <1>3, <1>6 DEF NInv, Settled

LEMMA NStepOK == ASSUME NInv, [Next]_vars PROVE NInv'
<1>1. IInv'  BY StepOK DEF NInv
<1>2. arrived \in 0 .. Len(PiecesOf) /\ read <= arrived /\ read \in Int
  BY WrappersAssumption DEF NInv, Counted
<1>3. CASE UNCHANGED vars
  <2>1. /\ read' = read /\ arrived' = arrived /\ tread' = tread /\ todo' = todo
        /\ piece' = piece /\ got' = got /\ hread' = hread /\ atail' = atail
        /\ error' = error /\ tpc' = tpc /\ hpc' = hpc
    BY <1>3 DEF vars, upstream, reading, timing, handler, beating
  <2> QED  BY <1>1, <1>2, <2>1, SameStory
<1>4. CASE Arrive \/ SourceStops \/ Beat \/ LeaveSending \/ CollectHandler \/ Tick
  <2>1. /\ read' = read /\ tread' = tread /\ todo' = todo /\ piece' = piece /\ got' = got
        /\ hread' = hread /\ atail' = atail /\ error' = error
        /\ tpc' = tpc \/ tpc' = "closed"
        /\ hpc' = "closed" <=> hpc = "closed"
    BY <1>4 DEF Arrive, SourceStops, Beat, LeaveSending, CollectHandler, Tick,
                upstream, reading, timing, handler, beating
  <2>2. arrived' \in 0 .. Len(PiecesOf) /\ read <= arrived'
    BY <1>2, <1>4, WrappersAssumption
       DEF Arrive, SourceStops, Beat, LeaveSending, CollectHandler, Tick, upstream
  <2> QED  BY <1>1, <2>1, <2>2, SameStory
<1>5. CASE Read  BY <1>1, <1>5, ReadKeepsStory
<1>6. CASE TakeChunk  BY <1>1, <1>6, TakeChunkKeepsStory
<1>7. CASE TakeEnd  BY <1>1, <1>7, TakeEndKeepsStory
<1>8. CASE TakeFailure \/ Expire
  <2>1. /\ tpc = "waiting" /\ read' = read /\ arrived' = arrived /\ hpc' = hpc
        /\ got' = got
    BY <1>8 DEF TakeFailure, Expire, upstream
  <2>2. Flowing /\ hread = "running" /\ hpc # "closed" /\ atail = "none"
    BY <2>1 DEF NInv, Settled, Whole, Flowing, IInv, Linked
  <2>3. PICK why \in {"idle", "absolute", "unknown", "broken"} : Fail(why)
    BY <1>8 DEF TakeFailure, Expire, Reason
  <2> QED  BY <1>1, <2>1, <2>2, <2>3, FailSettles
<1>9. CASE Deliver  BY <1>1, <1>9, DeliverKeepsStory
<1>10. CASE Resume  BY <1>1, <1>10, ResumeKeepsStory
<1>11. CASE Finish \/ LeaveWaiting \/ CollectHeartbeat
  <2>1. /\ hpc # "closed" /\ hpc' = "closed" /\ got' = got /\ read' = read
        /\ arrived' = arrived /\ todo' = todo /\ piece' = piece
    BY <1>11 DEF Finish, LeaveWaiting, CollectHeartbeat, upstream, reading, handler
  <2> QED  BY <1>1, <2>1, CloseSettles
<1> QED
  BY <1>3, <1>4, <1>5, <1>6, <1>7, <1>8, <1>9, <1>10, <1>11 DEF Next, Loop, Leave

\* The pieces are where they should be throughout.
THEOREM WrappersStory == Spec => []NInv
<1>1. Init => NInv  BY NInitOK
<1>2. NInv /\ [Next]_vars => NInv'  BY NStepOK
<1> QED  BY <1>1, <1>2, PTL DEF Spec

\* Nothing but the salvage is Salvage.
LEMMA NoSalvageInAnswer ==
  ASSUME Counted, NEW i \in 1 .. Len(Answer)
  PROVE  Answer[i] # Salvage
<1>1. read \in 0 .. Len(PiecesOf)  BY StoryTypes
<1>2. PiecesUpTo(read) \in Seq(Nat) /\ <<Closing>> \in Seq(Nat)
  BY <1>1, PiecesUpToGrows DEF Closing
<1>3. Answer \in Seq(Nat)  BY <1>2 DEF Answer
<1> QED  BY <1>3 DEF Salvage

\* Shielding a read behind heartbeats, and cancelling one, loses and doubles
\* nothing (sse.py:95-114, 147-196), for every answer, every way the chunks turn
\* into pieces, and every order in which the two tasks, the timers and the client
\* take turns.
THEOREM WrappersNothingLost == Spec => []NothingLost
<1>1. ASSUME NInv  PROVE NothingLost
  <2> DEFINE saved == got # <<>> /\ Last(got) = Salvage
             heard == IF saved THEN Front(got) ELSE got
  <2>1. ASSUME error = "none", hpc \notin {"abandoned", "closed"}
        PROVE  (got \o InHand) \o Held = PiecesUpTo(Used) \o Ending
    BY <1>1, <2>1 DEF NInv, Whole, Flowing
  <2>2. IsPrefix(heard, Answer) /\ (saved => Unfinished)
    <3>1. got \in Seq(Int) /\ Answer \in Seq(Int) /\ Salvage \in Int
      BY <1>1, StoryTypes DEF NInv, Salvage
    <3>2. ASSUME IsPrefix(got, Answer)  PROVE heard = got /\ ~saved
      <4>1. ASSUME got # <<>>  PROVE Last(got) # Salvage
        <5>1. Len(got) \in 1 .. Len(got) /\ Len(got) <= Len(Answer)
          BY <3>1, <3>2, <4>1, PrefixIs
        <5>2. got[Len(got)] = Answer[Len(got)] /\ Len(got) \in 1 .. Len(Answer)
          BY <3>1, <3>2, <5>1, PrefixIs
        <5> QED  BY <1>1, <5>2, NoSalvageInAnswer DEF NInv, Last
      <4> QED  BY <4>1
    <3>3. ASSUME NEW h \in Seq(Int), got = h \o <<Salvage>>  PROVE heard = h
      <4>1. /\ got # <<>> /\ Len(got) = Len(h) + 1 /\ got[Len(got)] = Salvage
            /\ \A i \in 1 .. Len(h) : got[i] = h[i]
        BY <3>1, <3>3
      <4>2. Front(got) = SubSeq(got, 1, Len(h))  BY <4>1 DEF Front
      <4>3. SubSeq(got, 1, Len(h)) = h
        <5>1. /\ SubSeq(got, 1, Len(h)) \in Seq(Int)
              /\ Len(SubSeq(got, 1, Len(h))) = Len(h)
              /\ \A i \in 1 .. Len(h) : SubSeq(got, 1, Len(h))[i] = got[i]
          BY <3>1, <4>1
        <5> QED  BY <4>1, <5>1, SeqEqual
      <4> QED  BY <4>1, <4>2, <4>3 DEF Last
    <3> HIDE DEF heard, saved
    <3>4. CASE Flowing  BY <1>1, <3>2, <3>4, GotIsPrefix
    <3>5. CASE ~Flowing  BY <1>1, <3>2, <3>3, <3>5 DEF NInv, Settled
    <3> QED  BY <3>4, <3>5
  <2> QED
    BY <2>1, <2>2 DEF NothingLost, InHand, Held, Used, Ending, Answer, Unfinished
<1> QED  BY <1>1, WrappersStory, PTL
=============================================================================
