# A verification of backend-proxy

backend-proxy sits between coding agents and LLM servers.  It takes requests in
the OpenAI Responses, OpenAI Chat or Anthropic format, translates them, picks
one of several backends, retries what can be retried and translates the answer,
usually a stream, on its way back.  One process runs one asyncio event loop.

This directory holds TLA+ modules translated from the code, the TLC
configurations that check them on small instances, and proofs for every
instance.  All paths below are under `src/backend_proxy/`.

## 1. The system

| Component | State | Operations | What is hard about it | What makes it correct |
|---|---|---|---|---|
| circuit breaker (`backends/circuit_breaker.py`) | state, failures in a row, time of opening | `is_available` (which may move open to half-open), `record_success`, `record_failure` | asked about backends that are not picked; told about requests that began long ago; told by two sources | follows the backend's faults and nothing else; lets requests through again |
| health watcher (`backends/health.py`) | a flag and two counters per backend | rounds of probes, `start`, `stop` | runs beside the requests; feeds the breaker | hysteresis; flags that are down refuse nobody, and it takes a run of failed probes for each failure the breaker hears of |
| strategies (`backends/strategies.py`) | a cursor each | `pick` | an empty ring, ties | the pick is a candidate |
| pool (`backends/pool.py`) | semaphore, in-flight counter, bucket, breaker per backend; two strategies | `pick`, `use`, `start`, `aclose` | three awaits between the pick and the call, cancellation at each of them | slots are neither lost nor given twice |
| retry loops (`backends/retry.py`) | attempt, chosen backend, slot | `retry_request_json`, `retry_stream_start`, `retry_passthrough` | each attempt may go to another backend with another configuration; a stream's slot outlives the loop | all retries are used; every loop ends |
| token bucket (`backends/rate_limit.py`) | tokens, time of last refill | `acquire` in two modes | sleepers race for tokens that are computed lazily | never more than the rate; no sleeper is forgotten |
| Responses endpoint (`api/openai_responses.py`) | the slot of the stream; for a nudged stream two phases and two slots | JSON, stream, nudge-and-rescue stream | takes a second slot while it holds one; must clean up however a stream ends | slots come back; one terminal event |
| other endpoints (`api/anthropic_messages.py`, `api/passthrough.py`) | the slot of the stream | JSON, stream, raw relay | cleaning up, also when nobody reads any more | slots come back |
| stream wrappers (`streaming/sse.py`) | a reading task each, timers | heartbeat, timeouts | a shielded read beside a timer, stacked on another one; a client that leaves at any point | chunks neither lost nor doubled; no task outlives the slot; timeouts are in time and named rightly |
| Responses stream adapter (`adapters/chat_to_responses.py`) | open items, their indices, what was sent | `on_chunk`, `finish`, error path | deltas in any order, a break at any point | items are opened and closed once, one terminal event |
| dialects of upstreams (`adapters/anthropic.py`, `adapters/gemini.py`, `backends/ollama_native.py`) | block and call counters | events, chunks or lines to chat chunks; chat chunks to `/v1/messages` events | the same reply cut in many ways | what comes out is a chat stream and says what the answer in one piece says |
| stuck rescue (`adapters/stuck_rescue.py`) | none | is an answer stuck; build the nudge | used on the output of a finished phase | |
| request adapters (`adapters/responses_to_chat.py`, `anthropic.py`, `gemini.py`) | none | translate the conversation of a request, twice | turns of many shapes, ids made from places | no turn loses, doubles or reorders what happened |
| reload and lifecycle (`config/reload.py`, `app.py`, `api/admin.py`) | the current pool, the lock, pools being drained | start, reload by signal or endpoint, drain, shutdown | requests that hold the old pool; overlapping reloads | the pool in use is open; each replaced one is closed |
| GCP tokens (`backends/_gcp_oauth.py`) | cached token, expiry, lock | `get` | many requests at expiry, clocks read before a wait | one refresh; no expired token |
| upstream calls (`backends/openai_compat.py`, `anthropic.py`, `ollama_native.py`, `vertex.py`) | the idle connections of an HTTP client | the upstream calls | connections that are closed or break | one fault is hidden; work is not repeated without need |
| configuration, agents, metrics, logging, CLI | | | read once or stateless | |

How they meet: a handler calls a retry loop; the loop asks the pool to `pick`
(which asks every breaker and reads every flag) and enters `use` (bucket, then
semaphore); the backend is called; the end of the block tells the breaker and
gives the slot back.  For a stream the loop returns with the slot still taken
and the handler leaves it when the stream has ended.  The watcher writes the
flags and now and then a breaker.  A reload replaces the pool under all of it.

PROJECT.json lists the hazards of this code one by one, each at its line, with
the properties that would catch it.

## 2. The modules

| Module | Models | How it corresponds to the code |
|---|---|---|
| `CircuitBreaker` | `backends/circuit_breaker.py` | The breaker is a record; each method is an operator from record to record (`Queried`, `RecordSuccess`, `RecordFailure`), `IsAvailable` is what `is_available` returns. |
| `HealthWatcher` | `backends/health.py` | A backend's flag and counters as a record; `Probed` is the tail of `_probe`, `FlipsUnhealthy` the case in which it also calls `record_failure`. |
| `Strategies` | `backends/strategies.py` | Each strategy narrows the candidates to a `Ring` and goes round it (`RoundRobin`). |
| `BackendPool` | `backends/pool.py` | The pool's variables and what `pick`, `use`, the semaphore, a probe and the clock do to them. |
| `RequestFlow` | `backends/retry.py`, the end of streams in `api/*` | The requests: one action per stretch of code between two awaits. `pc` names the await. |
| `TokenBucket` | `backends/rate_limit.py` | The bucket in detail; `RequestFlow` uses only that it counts whole tokens. |
| `ResponsesStream` | `adapters/chat_to_responses.py`, the nudged stream of `api/openai_responses.py`, `looks_stuck` | One streamed answer: the adapter's state is a record, each helper of the adapter an operator on it, each kind of delta an action; the handler's phases are `stage`. |
| `ResponseEvents` | the events of the adapter | What the client has heard, as a record; each event an operator that notes in `disorder` if it comes where it makes no sense. |
| `SlotPool` | the promise of `use` | Abstract: per backend the holders, those of them called and yet to come, and a line. `RequestFlow` implements it. |
| `StreamWrappers` | `streaming/sse.py`, the generators of `api/openai_responses.py` and `api/anthropic_messages.py` | The path of one stream: the tasks of the two wrappers, their timers, the handler's generator with the slot between them, and the client. |
| `PoolGenerations` | `config/reload.py`, `app.py`, `aclose` and `start` of the pool, `stop` of the watcher | The pools a process builds, numbered; which is current, whose watcher runs, whose clients are open, who is being drained. |
| `ServedStreams` | the handlers of `api/openai_responses.py` on those pools | Extends `PoolGenerations`: streaming requests that keep the pool they were given and, when nudged, take a second slot beside the first. |
| `UpstreamDialects` | `adapters/anthropic.py`, `adapters/gemini.py`, `backends/ollama_native.py` | A reply, the ways an upstream may cut it into events, the chat chunks made of them, and the `/v1/messages` events made of those. |
| `ChatStream` | what consumers of chat chunks rely on | Abstract: `UpstreamDialects` implements it. |
| `Conversation` | `adapters/responses_to_chat.py`, `adapters/anthropic.py`, `adapters/gemini.py`, `chat_full_to_responses` | The story of a conversation, the client's record of it, and the two translations of each request as operators. |
| `UpstreamCalls` | `backends/_gcp_oauth.py`, `backends/openai_compat.py`, `backends/vertex.py` | The token cache and its lock, the pool of connections, and single calls on them. |
| `MCRequestFlow`, `MCSlotLine`, `MCSingleBackend`, `MCTokenBucket`, `MCResponsesStream`, `MCStreamWrappers`, `MCServedStreams`, `MCUpstreamCalls` | | The instances TLC checks; `UpstreamDialects` and `Conversation` need none. |
| `RequestFlow_proofs`, `ResponsesStream_proofs`, `StreamWrappers_proofs`, `ServedStreams_proofs`, `UpstreamCalls_proofs`, `UpstreamDialects_proofs`, `Conversation_proofs` | | The theorems; those about `TokenBucket` are in `UpstreamCalls_proofs`. |
| `SequenceLaws` | | Lemmas about sequences that are put together of sequences (`FlattenSeq`), for the proofs of `StreamWrappers`, `UpstreamDialects` and `Conversation`. |

How they compose: `BackendPool` is built from `CircuitBreaker`, `HealthWatcher`
and `Strategies`, `RequestFlow` puts the requests on it, `ServedStreams` puts
streams on the pools of `PoolGenerations`.  `StreamWrappers` begins where
`RequestFlow` has opened a stream; what is inside its pieces is the matter of
`UpstreamDialects` and `ResponsesStream`.  A call of `UpstreamCalls` is one
attempt of a retry loop.

Steps.  One event loop means that code between two awaits that really suspend
is one step.  From `pick()` to the first such await, the bucket's lock is free
(it is never held across an await) and a free semaphore does not suspend, so
`Attempt` is one action with the outcomes: no backend; refused by the limiter;
asleep for a token; in the queue for a slot; calling.  An attempt's end
(`Answer`) records on the breaker, leaves the slot, and either goes to the
backoff or ends the request.

Cancellation (the client goes away) can strike at every await, and what is done
then depends on the place: a sleeper simply goes; a waiter leaves the queue, or
passes on the slot if it was just handed one; a plain call leaves its slot
through the `finally` of `use` and records nothing, since `CancelledError` is
not an `Exception`.  A stream cancelled where no handler calls the slot's
`__aexit__` (during `retry_stream_start`, or before the response generator has
been started) is `dropped`: its slot stays taken until the interpreter
finalises the context manager's generator, `Reclaim`.

Outside code.  `asyncio.Semaphore` is modelled as the first-come semaphore of
Python 3.11, the version of the Dockerfile: `locked()` is true also while a
waiter that was handed a slot has not run yet (`SlotFree`), so that a newcomer
queues beside a free slot then, and the waiter calls the next one when it runs
(`ResumeWithSlot`).  Upstream servers are their outcomes: 2xx, 4xx, 429, a
retryable 5xx or connection failure, any other failure.

Data.  A cooldown is counted in ticks left; counters that are only compared
with a threshold stop there; a cursor wraps at `CursorWrap`, a common multiple
of all ring lengths (assumed, and so evaluated by TLC).  The pool's bucket
counts whole tokens and gains one per tick; fractions, and the order of
sleepers, are in `TokenBucket`, where a token is `Unit` units and `Rate` units
accrue per tick.  The sticky strategy is round robin, which is what it does
without a key, and no caller passes one.

Streams.  An answer of `/v1/responses` is seen from its client: `st.heard` is the
set of items it was told of, those it was told are done, those whose text has an
open `<think>`, the last word and its `output[]`.  An item is its output index;
texts, ids and arguments are not modelled, only whether a fragment has an id, a
name or arguments, since these decide what is done.  A chunk carries one delta;
the code takes the deltas of a chunk one by one in a fixed order, so a chunk
with several is several chunks of the model.  Upstreams keep to the Chat
protocol in one thing: the chunk with a `finish_reason` is the last with
choices.  Whether a text announces an action, which `looks_stuck` decides by its
patterns, is a free choice.  Retries are left to `RequestFlow` and the slots of
the two phases to `ServedStreams`; what is modelled of them here is that a rescue starts, is refused
with an error of the proxy, or raises another one.

Wrappers.  `hread` is the task of `with_heartbeat`, which runs everything before
it; `tread` that of `with_timeout`.  A timer that has expired may be noticed
late, by `Late` ticks at most, and a task may finish in between: then the wait
still times out (`Expire`, `Beat`), as `asyncio.wait_for` on a shielded task
does.  A timeout that expires within `Slack` ticks before the absolute one is due
is called absolute (the 0.1 s of `streaming/sse.py:174`).  `FinishAt` is the chunk
with the finish: from then on the Responses adapter has nothing to salvage when
the stream fails.  What the adapters make of a chunk is a number of pieces; a chunk of none
makes them ask again.  A client that leaves while with_heartbeat waits cancels
it; one that leaves while it is sent something is found out by
`StreamingResponse`, and the generators wait for the collector
(`CollectHeartbeat`, `CollectHandler`).

Generations.  One pool has one backend and is identified by its number.  The
drain window is any length of time: `DrainOver` may happen whenever it likes,
as no stream has a bound that is below it.  A reload that fails may have built
its pool, or some of its backends, before it raised: `dropped` are the pools
whose clients it leaves unclosed.  `free` is what the semaphore holds, changed by
each release the code makes (`GoOn`): `retry_stream_start` where an opening fails,
the handler after the second stream, its last `finally`.  Two ways out come to none
of these.  A cancellation in `retry_stream_start` frees nothing, since it catches
`Exception` only; and a generator of a nudged stream answers a cancellation, and
also its closing, with a piece (`api/openai_responses.py:430`, `:539`), after which
nobody asks it again and the `finally` at `:540` is not reached.  Such requests are
in the stages "left" and "leftBoth" and keep their slots until the generator of
`use` is collected (`Collect`).  `SlotsHeld` is the property's own account of who
holds how many, read off the stage.

Dialects.  A reply is a sequence of texts and calls; a unit is what an upstream
sends in one piece.  Ollama's lines, Gemini's chunks and Anthropic's events are
made of units in every way their servers do it, and a connection may break
between any two, or the stream just end early, which no translator notices.  Fragments are named by block and unit, so that a piece that
is lost, doubled or moved shows.

Conversations.  A text is a sequence of atoms, a call is its number, and the
ids are those the code makes: by place among all parts of the answer from Gemini,
among the calls from Ollama where it gives none (where it does, it is like
OpenAI).  A client sends all of it again with each turn.  Instructions of
`/v1/responses` are `system`, as the system of `/v1/messages` is; `hinted` says
that the request's tools call for the tool hint, which goes to the end of the
leading system message or becomes it (`WithHint`).  Both are the same in all
turns of a conversation.  The reading side (`ChatSays`,
`NativeSays`) belongs to the properties: it says what an upstream that gets the
request can know of the story.

Calls.  The token's expiry and the lengths of waits are counted in ticks; `ago`
is how long ago a caller in line has read its clock; `West` is the shift of a
naive UTC time that is taken for local time.  A connection from the client's
pool may have been closed by its server, which shows when it is used.

History variables: `clean` and `idless` (ResponsesStream) remember whether every
stream so far ran to its end, and which calls came without index and id;
`faults` (RequestFlow) is the model's own count of a backend's faults in a row,
kept from the outcomes and not from what the code records; `failed` counts failed
calls alone and `missed` failed probes, both since the last call that went well;
`taken` and `clock`
(TokenBucket) count what went out and how long it took; `starts` and `halved`
(UpstreamCalls) count what the upstream has seen; `text`, `calls` and `told`
(UpstreamDialects) are what a consumer has pieced together.

## 3. What the runs check

| Run | Instance | Shows |
|---|---|---|
| `pool` | 2 backends with one slot each, the first serves model m1 and makes requests over its rate wait, the second rejects them; 1 plain request, 1 stream; 1 retry, 0 on the second backend; model affinity, then round robin; no watcher | `TypeOK`; `SlotAccounting`; `GivesUpOnlyWhenExhausted`; `RefusedOnlyByOpenBreakers`; `RequestMovesOn` (liveness) |
| `line` | 1 backend, 2 slots, 4 requests, one of them a stream; no retry, though the backend asks for one | `NoSlotIdleBesideQueue`; `ImplementsSlotPool` (refinement) |
| `watched` | 1 backend, 2 slots, a watcher with both thresholds 2, cooldown 2, a stream and a plain request that are sent again and again | `BreakerFollowsFaults` and `RefusedOnlyByOpenBreakers` under probes; `SteadyFlagReopens` (liveness) |
| `token` | 3 tasks, one impatient, two that come back; 2 1/3 tokens of burst, 2/3 of a token per tick; 6 ticks | `BucketTypeOK`; `RateBound`; `SleepersServed` (liveness) |
| `responses` | one answer in the plain or the nudging handler, of up to 3 calls, one with index and two without, each fragment with or without id, name and arguments; 4 items | `TypeOK`; `EventsInOrder`; `NothingLeftOpen`; `AnswerEnds`; `FullOutput`; `HonestStatus`; `OneItemPerCall` |
| `wrappers` | a stream of three chunks, of one, no and two pieces; idle 2, absolute 4, heartbeat 1, lateness and tolerance 1 tick; the finish in the third | `NothingLost`; `AbortedInTime`; `SlotCoversReads`; `TruthfulReason` (action); `EveryStreamEnds` (liveness) |
| `lifecycle` | 3 pools (two reloads) of 3 slots; 2 streaming requests, either of which may be rescued | `CurrentPoolServes`; `NoPoolForgotten`; `SlotsConserved`; `EveryRequestEnds`, `ReplacedPoolCloses` (liveness) |
| `dialects` | replies of up to 3 blocks from three upstreams | `StreamMatchesFull`; `MessageProtocol`; `ChatProtocol` (refinement) |
| `conversation` | stories of up to 6 events before the last turn, 3 client APIs, 4 upstreams | `StorySurvives`; `LatestCallAnswered`; `OneSystemInFront` |
| `calls` | a Vertex call, two probes and a JSON call; tokens good for 3 ticks, margin 1, refreshes of up to 1; 2 faults | `OneFaultIsHidden`; `StartedAgainOnlyIfHalved`; `TokenIsGood`, `RefreshedOnlyWhenDue` (action) |
| `token_zone`, `drain_cut` | `calls` with `West` 4; 2 pools and one request | findings 1 and 2 |

What the properties say:

* `SlotAccounting`: a backend's semaphore and the requests that hold one of its
  slots always add up to `max_concurrency`, over every way an attempt can end;
  and `_inflight`, which the least-busy strategy compares, is the number inside.
* `NoSlotIdleBesideQueue`: nobody waits beside a free slot, except behind a task
  that has been called and will call the next when it runs.
* `BreakerFollowsFaults`: a breaker is closed exactly while fewer than
  `failures_threshold` faults came in a row; 4xx, 429, the local limiter and
  cancellations never open it.
* `RefusedOnlyByOpenBreakers`: a request is refused for want of a backend only
  while every breaker is cooling down, and since the last good call each backend
  has had `failures_threshold` failed calls, or for each one missing a run of
  `unhealthy_threshold` failed probes (the first run may have begun before that
  call).  So flags that are down refuse nobody, and neither do single failed
  probes; but a flag that keeps going down can open a breaker without any call.
* `GivesUpOnlyWhenExhausted`: an error that could be retried reaches the client
  only when the retries of the backend that gave it are used up.
* `ImplementsSlotPool`: at most `max_concurrency` requests hold a slot, in the
  order in which they arrived, nobody passes one who was called and has not run
  yet, and each slot that is given back is back.
* `RequestMovesOn`: a request that got past the limiter comes to its end (or
  back to the limiter, for a retry): nothing waits in vain for a slot, no loop
  runs for ever.
* `SteadyFlagReopens`: while the health flag keeps its value and clients keep
  asking, an open breaker comes to let a request through.
* `RateBound`: the tokens taken by tick n are at most the burst and what
  accrued.
* `SleepersServed`: a task that waits for a token gets it, if only finitely
  many others compete.
* `EventsInOrder`: `response.created` first and once, each item added once under
  an index of its own, its deltas and its done while it is open,
  `response.completed` last and once.
* `NothingLeftOpen`: at the end of an answer every item added is done and every
  `<think>` closed; in the plain handler wherever the upstream broke off, in the
  nudging one if its streams ran to their end (see below).
* `AnswerEnds`: an answer that ends has had its `response.completed`.
* `FullOutput`: the `output[]` of a plain stream lists the items it streamed, no
  fewer and no others.
* `HonestStatus`: a plain answer is "completed" exactly if the upstream sent a
  `finish_reason`.
* `OneItemPerCall`: a call is one item, however its fragments mix with those of
  other calls, as long as each has an index or an id.

* `NothingLost`: reading behind heartbeats, timing out and leaving, a client gets
  the pieces of the chunks read so far, in order, none missing or twice, and at
  the end one closing or salvaged part at most; an answer that is complete is
  not salvaged.
* `AbortedInTime`, `TruthfulReason`: a read of the upstream outlives neither
  timeout by more than the loop's lateness; the timeout that is reported is the
  one that was due, or the absolute one if that was about to be.
* `SlotCoversReads`: who still reads the upstream holds the backend's slot.
* `EveryStreamEnds`: however a stream ends, its tasks end and the slot is free.
* `CurrentPoolServes`: no overlap of reloads, signals and drains closes the pool
  in use.
* `NoPoolForgotten`, `ReplacedPoolCloses`: a pool that was in use and is not any
  more has somebody who will close it, and is closed.  Nobody closes what a reload
  that raised has built: those pools have never been in use nor watched.
* `SlotsConserved`: what the releases spread over the code free (see Generations)
  and what requests hold add up in every pool: none is freed twice, by a `finally`
  and by the collector, and none never.
* `EveryRequestEnds`: with one slot more than requests, rescues that wait for a
  slot while they hold one do not lock each other out (with fewer they do,
  finding 5).
* `ChatProtocol`: the chunks made of any dialect are a chat stream (role first,
  calls opened once under an index and an id of their own, nothing after the
  finish).
* `StreamMatchesFull`: a client that streams gets the answer of one that does not.
* `MessageProtocol`: the events of `/v1/messages` come in their documented order,
  wherever the upstream's stream ends; the one exception is finding 4.
* `StorySurvives`, `LatestCallAnswered`, `OneSystemInFront`: what an upstream gets
  to read is the story, in order; a result answers the last call of its id; the
  instructions, directions and the tool hint are one message in front.
* `OneFaultIsHidden`: a JSON call fails for a broken connection only after two.
* `StartedAgainOnlyIfHalved`: an upstream works twice on a request only if the
  connection broke while it was at work.
* `TokenIsGood`, `RefreshedOnlyWhenDue`: a token that is handed out is good for
  more than the margin, and only one that is due is refreshed.

`OneItemPerCall` needs its condition: a fragment with neither index nor id
becomes a call of its own each time, whatever "stable per-call counter" in
`adapters/chat_to_responses.py:329` suggests.  So do `EventsInOrder` and
`NothingLeftOpen`: a nudged stream that breaks off, or that ends without
`finish_reason`, is ended by the handler and not by the adapter, and what was
open stays open; the second is even reported "completed".

The bounds are small because the hazards need few actors.  A lost slot or a
missed wake-up needs one slot, one holder, one waiter; a queue order needs two
waiters.  A slot that is free while a called task has not run needs two slots,
both given back, and for somebody to be left behind two waiters (`line`).  Two
backends are what pick, fallback, probe bypass
and a retry at another backend need; a third adds no new case to any guard.
Thresholds of 1 or 2 tell "counts" from "does not count" and "reset" from "not
reset".  In `token`, `Unit` 3 and `Rate` 2 do not divide one another and the
burst is no whole number of tokens, so partial refills, lost races and a second
sleep all occur before `LastTick`; after it nobody comes back, which makes the
competitors finite.  In `responses` the message and three calls give every
pairing of an indexed call, a call known by its id and one that is not, before
and after the text, in either phase of a rescue; `FirstAnon` only has to lie
above the indices (1,000,000 in the code).  In `wrappers` a heartbeat fits into
every wait and the absolute timeout ends a stream the idle one would not; with
three chunks each kind follows each, and failures come before and after the
finish.  In `lifecycle` two reloads are what it
takes for drains to overlap with a reload and with one another, and two requests
what it takes for one to hold what the other waits for; `EveryRequestEnds` needs
the third slot, and fails with two (finding 5).  In `dialects` three blocks
are what it takes for a text between two calls and calls on both sides of a
text.  In `conversation` six events are two whole rounds of question, call and
result, so that ids made from places repeat; an answer of Gemini has one part
more than calls.  In `calls` three claimants meet
at the lock, one minting and two in line, so a refresh that fails or is
abandoned is followed by another with a clock that is older still.

Deadlock checking is off where the system really ends: streams, the process of
`lifecycle`, answers, bounded conversations and calls.  Elsewhere time can always pass, so what a deadlock would be is covered by the liveness
properties.

Fairness.  Weak, on what the event loop runs (a task whose sleep is over, a
task that was handed a slot, the next step of a loop, the finaliser), on the
clock, and on the end of upstream calls and streams, which the httpx timeouts
and `with_timeout` bound.  Both timeouts can be configured away; then these
properties are not claimed.  Cancellation and probes are not fair, and arrivals
only where a run says so (`BusySpec`); finding 3 adds that the watcher goes on
probing (`ProbedSpec`).  In `lifecycle` reloads, drain windows,
watchers (cancelled after two seconds) and requests go on; requests to reload
and clients are free.  Strong fairness is assumed in one place, `StreamWrappers`:
that with_heartbeat sees its task finished.  A task may finish just as the
interval ends, and then the heartbeat is sent first; but the next wait for a
finished task returns at once, so it cannot lose for ever.  Of requests nothing
is strongly fair: of two tasks
that race for a token the same one may lose each time, which is why
`RequestMovesOn` stops at the limiter and `SleepersServed` counts competitors.

## 4. What is proved

The proofs hold for every number of backends, requests, slots, tokens and
retries, from the named assumptions in the modules: the constants have their
types, thresholds and capacities are positive, requests are finitely many.

| Theorem | States |
|---|---|
| `FlowTypeOK`, `BucketTypes` | the type invariants |
| `FlowSlotAccounting`, `FlowNoSlotIdleBesideQueue` | the two slot invariants |
| `FlowImplementsSlotPool` | the refinement of `SlotPool` |
| `FlowBreakerFollowsFaults` | the breaker invariant |
| `FlowRefusedOnlyByOpenBreakers`, `FlowGivesUpOnlyWhenExhausted` | the action properties; the second for configurations in which no backend asks for more retries than `routing.retry` (`OverridesWithinRouting`); without that it is false, see finding 10 |
| `BucketRateBound` | the rate limit |
| `WrappersSlotCoversReads`, `WrappersAbortedInTime`, `WrappersTruthfulReason`, `WrappersNothingLost` | all safety properties of `wrappers`, for any answer, timeouts (not both off), interval and lateness |
| `ServedCurrentPool`, `ServedNoPoolForgotten`, `ServedSlotsConserved` | all three invariants of `lifecycle`, for any number of reloads, slots and requests |
| `CallsOneFaultIsHidden`, `CallsStartedAgainOnlyIfHalved` | both invariants of `calls`, for any calls and faults |
| `CallsTokenIsGood`, `CallsRefreshedOnlyWhenDue` | both action properties of `calls`, where `West = 0`; elsewhere the first is false, see finding 1 |
| `StreamTypeOK`, `StreamEventsInOrder`, `StreamNothingLeftOpen`, `StreamAnswerEnds`, `StreamFullOutput`, `StreamHonestStatus`, `StreamOneItemPerCall` | all seven invariants of `responses`, for any calls, any of them indexed, and any number of items |
| `DialectsStreamMatchesFull`, `DialectsMessageProtocol`, `DialectsChatProtocol` | both invariants of `dialects` and the refinement of `ChatStream`, for replies of any length |
| `ConversationStorySurvives`, `ConversationLatestCallAnswered`, `ConversationOneSystemInFront` | all three invariants of `conversation`, for stories of any length |

*Types* (`RequestFlow_proofs`).  `TypeOK` is not inductive: an action on
`target[r]` changes a backend's variables only if `target[r]` is a backend.
`TInv` adds that a request on its way is bound for one.  `TypesInvariant` is
proved with one lemma per group of actions.

*Breakers*.  `BreakerFollowsFaults` is inductive over `TInv`: each method of
the breaker agrees with the step of `faults` it goes with (`MethodsFollow`), and
asking a breaker keeps the relation (`QueryFollows`).
`RefusedOnlyByOpenBreakers` needs what is behind the faults besides: `Evidence`
says that they are failed calls, or each a whole run of failed probes; the run a
flag is going through counts with them (`EvidenceInvariant`).

*Slots* (`RequestFlow_proofs` too).  The actions are many but touch the slots in
seven ways only: `StepKinds` shows that every step enters, lines up, resumes,
exits, gives up its place, declines a slot just handed over, or leaves all slots
alone.  The invariant `SInv` adds to the two properties who may be where:
`LineInv` says that the tasks in a queue or among the granted are exactly the
requests suspended at that semaphore, each once and in one place only.  Leaving,
resuming and declining all end in `WakeNext`, with one argument for the three.  Without
it a release could hand a slot to a request that has one, and the sum would not
be kept.  `LineStep`, `ArrivalCounts` and `DepartureCounts` are the three
arguments, the last two by cardinality of finite sets.

*Refinement of `SlotPool`*.  Holders are the granted and those inside, those
called the granted, the line is the queue; each of the seven kinds is a step of
`SlotPool` or a stutter.

*Rate* (the end of `UpstreamCalls_proofs`).  `RateBound` follows from `Budget`: tokens in the
bucket, tokens owed for the time since `_last` and tokens taken are together at
most the burst and what accrued.  It is `Budget` that notices a stretch of time
credited twice.

*Streams* (`ResponsesStream_proofs`).  None of the invariants is inductive: they
speak of the end, and the end is right because of what held all along.
`Coherent` says that the adapter's state and what the client heard agree: all
indices are below the next one and no two items share one, an item was added
exactly if its flag says so, `<think>` is open exactly in that phase.  `Live`
adds that no current item is done.  Each helper of the adapter keeps `Live`, one
lemma for each; `_close_text_item` and `_close_tool_calls` lead from there to
`Shut`, in which everything added is done; the reset before a rescue leads from
`Shut` back to `Live`, because a rescue is only started when no call was made.
`StreamInv` says which of them holds in which stage.  `OneItemPerCall` rests on
`Keyed`: the key of an item is its call's index, or the one remembered for its
id, and keys of calls without index lie between `FirstAnon` and the counter.
The assumption is that upstreams' indices are below `FirstAnon`.

*Wrappers* (`StreamWrappers_proofs`).  `Linked` says that the outer task runs as
long as with_timeout waits, which is as long as it has a task; `SlotKept` that a
generator that gave its slot back is never asked again.  The two give
`SlotCoversReads`.  `Timed` says that the timer of a wait and the time gone add
up to the timeout that is due first, and to no more than the other: the bound
and the name of the timeout both follow from it.

`NothingLost` speaks of what the client has, and between the upstream and the
client a piece can be in two more places: in the hand of the outer task
(`InHand`) or still held by the adapter (`Held`).  `Whole` says that as long as
nothing fails the three together are the pieces of the chunks read, in order;
the chunk that the inner task has read but not handed on (`Used`) does not count
yet.  After a failure the sum no longer holds, since what is held is dropped;
`Settled` says that from then on nothing is read, that what the client has
begins the stream, and that the one salvaged part is still to come or was the
last.  Each step moves a piece from one place to the next, which is
associativity of `\o`.

*Generations* (`ServedStreams_proofs`).  `CurrentPoolServes` needs that generations
are in order, current before reloading, and that a pool being drained or closed
is older than the current one (`InOrder`), and what each of them still has open
(`Alive`, `Up`).  For `SlotsConserved`, `SlotsHeld` is counted as those who hold
one and those who hold two: `OneMoves` shows that a step of one request changes
the sum of a pool by what the semaphore loses or gains, and `WaysOut` goes through
the ways out, stage by stage, for what each frees.

*Calls* (`UpstreamCalls_proofs`).  `Paid` gives every break, every stale link and
every stale connection in the pool a fault of its own, from which
`OneFaultIsHidden` follows.  `OldClock` is why the second look at the cache with
an old clock is right: unless the lock is free with a new token in the cache,
the token expires for a waiter when it did as he looked, so he refreshes; and
no time passes while the lock is free and somebody waits.

*Sequences* (`SequenceLaws`).  The code takes chunks one by one and puts
together what it makes of each; the models say so with `FlattenSeq`, and the
proofs need its laws: what it makes of a concatenation, of one element, of
elements that give nothing or one thing each, and that two such steps are one.
The library's induction theorems cannot be used (their parameter is an
operator), and neither are they needed: a set of natural numbers has a least
element, which follows from the well-foundedness of `<`, and with it each law is
proved by looking at the shortest sequence that breaks it (`InductionUpTo`,
`SeqInduction`).

*Dialects* (`UpstreamDialects_proofs`).  What `StreamMatchesFull` compares is
finished only at the end, so the invariant `DialectsInv` says what holds after
each event.  `InPlace`: the role is the first chunk and the finish the last, also
among those the consumer has not had yet.  `TextInv`: the text heard and the text
in the queue are the text units sent.  For calls the dialects differ.  Gemini's
and Ollama's come whole, numbered on from those before: heard and queued together
they are the call units sent, numbered from 0 (`WholeInv`).  Anthropic's come in
two units, the first of which opens the call: `AtBlock` says where in which block
the upstream is and which calls the translator knows (`tool`), and
`AnthropicInv` that the calls heard are those of the units sent, short of the one
whose chunk is on its way.  At the end all units are sent, and `UnitsOfKind` (taking the
units of one kind is taking the blocks of that kind, and then their units) leads
from the units to the answer in one piece, also for Ollama, which moves its calls
behind its texts (`KindsInOrder`).  `AllHeard`, that all calls were heard before
the finish, is also why a finish of "tool_calls" is never without calls, which
`ChatProtocol` needs; that a call is opened under an index and an id of its own
follows from the numbers in the two invariants (`NumberedPart`,
`AnthropicOpensNew`), and that arguments go to one call only from the order in
which blocks are opened (`MoreToLast`).  `MessageProtocol` follows from `ToldInv`: once
the role was heard the message has begun, and the protocol is kept while events
are added one by one (`GoingOn`) and at the end (`EndedProtocol`); before it
nothing was heard, and nothing told but, if the stream has ended, an end.

*Conversations* (`Conversation_proofs`).  Two things are proved apart.  That the
client's record is right: `ConversationInv` says that the history, read item by
item in the form of its API, is the story (`HistorySays`), and each action adds
to both what tells the same (`SpokenTells`, `AnsweredTells`, `ReturnedTells`;
`HistoryGrows`).  That translating a record keeps what it tells: each of the
three translations (`ResponsesTell`, `AnthropicTell`, `NativeTell`) goes through
its input element by element and moves something in front, the directions of the
conversation or the text of a message.  `MovedInFront` says when this does no
harm: if whoever reads on (`Sees`) looks only at kinds of events that move, or
only at kinds that stay, moved and unmoved are the same to him.  Each of the
three kinds `StorySurvives` compares is of that sort, which is why it compares
them one by one: across the kinds the order is not kept, and need not be.  `ResponsesToChatIs` shows that
the tool hint, whether it is put to a leading message or becomes one, is the end
of the one system message; `OneSystemInFront` follows from it.
`LatestCallAnswered` needs two conjuncts more: that all results of the story
have their call (`EachAnswered`), and that the calls waiting for results are the
last of the story and differ in their ids (`EndsWithCalls`), by which a call of
an earlier answer with the same id is never the latest.

In `UpstreamDialects` and `Conversation` a selection is written as a
concatenation (`Only`, `Each` and `When`, by `FlattenSeq`) and not with
`SelectSeq`, which is recursive and so means nothing to the provers.

Left to TLC: the liveness properties `RequestMovesOn`, `SteadyFlagReopens`,
`SleepersServed`, `EveryStreamEnds`, `EveryRequestEnds` and `ReplacedPoolCloses`,
which rest on fairness.  Every other property of a passing run is a theorem.

## 5. Findings

Each is a statement of the code base's own comments or docstrings that the code
does not keep.  The first two are runs of PROJECT.json.  The others have a
configuration of their own too, named with them, and TLC shows the behaviour
when it is run (section 7).

1. `token_zone`: "Return a valid access token" (`backends/_gcp_oauth.py:62`).
   google-auth's expiry is a naive UTC time, and `timestamp()` (`:111`) takes it
   for local time: on a server west of UTC an expired token is handed out for as
   many hours as the zone is behind; the run ends with one a tick past its expiry.
   East of UTC a token of an hour's life is taken for expired, and every call
   refreshes.
2. `drain_cut`: "In-flight requests against the previous pool finish naturally"
   (`config/reload.py:15`).  After the drain window the clients are closed,
   whatever uses them: longer streams are cut, and a request that still waits
   for a slot finds a closed client.
3. `MCUnhealthyRun.cfg`: "a sustained unhealthy run will eventually flip the breaker
   into OPEN so the pool can short-circuit straightaway" (`backends/health.py:13`).
   `_probe` records a failure when the flag goes down (`:116`), one for a run
   however long it lasts: with `failures_threshold` above one the breaker stays
   closed until calls of clients fail.
4. `MCEmptyMessage.cfg`: "State machine produces, in order: message_start ..."
   (`adapters/anthropic.py:234`).  `retry_stream_start` lets a stream pass that
   ends at once (`backends/retry.py:171`), and the lines that end a message
   (`adapters/anthropic.py:293-305`) do not ask whether it has begun: the client
   of `/v1/messages` is sent `message_delta` and `message_stop` alone.  The same
   goes for any stream without a chunk that has choices.
5. `MCRescuePause.cfg`: "On rescue, the user sees a brief pause while the second
   call starts" (`api/openai_responses.py:277`).  It waits for a second slot while
   it holds its first (`:473`): as many rescues as slots wait for each other for
   ever, or until a client leaves.
6. `MCSmallBucket.cfg`: "Bounded recursion: rps>0 ensures progress"
   (`backends/rate_limit.py:61`).  The schema allows a burst below one token
   (`config/schema.py:148`); then a waiting request waits for ever.
7. `MCHalfOpenProbe.cfg`: "HALF_OPEN: allow exactly one probe"
   (`backends/circuit_breaker.py:49`).  `is_available` answers True to everyone
   while the breaker is half open.
8. `MCBrokenStream.cfg`: "half-open-> next request is allowed; success closes,
   failure re-opens" (`backends/circuit_breaker.py:6`).  The handlers leave the
   slot with `__aexit__(None, None, None)` however the stream ended
   (`api/openai_responses.py:237`), so a stream that broke counts as a success.
9. `MCFlappingProbe.cfg`: "open -> short-circuited: pick() skips this backend until
   cooldown elapses" (`backends/circuit_breaker.py:5`).  A flag that goes down
   records a failure even on an open breaker (`backends/health.py:116`), which
   restarts the cooldown; a probe that fails, fails and succeeds in turn keeps
   the breaker open for ever.  `SteadyFlagReopens` is what does hold.
10. `MCRetryOverride.cfg`: "Per-backend wins" (`backends/retry.py:71`) and "Should
   not reach here" (`:128`).  The loop is sized by `routing.retry`, so a backend's
   larger `max_retries` is cut short, by way of line 129.
11. `MCRescuedOutput.cfg`: "Reconstruct the cumulative `output[]` array for a terminal
   response.completed event" (`api/openai_responses.py:554`).  The reset before
   the rescue forgets the first part's message item, so the final `output[]`
   lacks an item the client was streamed; if the rescue is refused,
   "finalising original response" (`:482`), it is empty.
12. `MCRescueRaises.cfg`: "emit a terminal response.completed with status=incomplete
   so the client doesn't hang" (`api/openai_responses.py:423`).  Only `ProxyError`
   is caught around the start of a rescue (`:479`); an httpx error that
   `retry_stream_start` raises in the end goes through, and the stream stops
   without a `response.completed`: the first part's was held back.

Seen while modelling, and in the models as they are:

* `backends/openai_compat.py:238-242` says a resent request's upstream cannot have
  started; `ReadError` is among the errors that are resent, and it can
  (`StartedAgainOnlyIfHalved` says when).
* Streams, passthrough and the native backends have no such reconnect, and
  `backends/retry.py:33` retries only connection errors and timeouts, so that a
  stale connection fails such a call with an error of httpx.
* A reload that raises after backends were built (`config/reload.py:48-53`) leaves
  their HTTP clients without `aclose()`; nothing has been sent on them yet.
* A timeout in the last 0.1 s before the absolute one is called absolute, also when
  it was the idle one that was due (`streaming/sse.py:174`).
* A generator of a nudged stream that is cancelled or closed answers with a piece
  (`api/openai_responses.py:430`, `:539`); its `finally` is not reached then, and
  the slot is freed, without `record_success`, when `use`'s generator is collected.
* Each phase of a nudged stream has an absolute timeout of its own.
* During a drain two generations have a semaphore each: a backend may serve twice
  its `max_concurrency`.
* A client that stops reading holds its slot: timeouts run only in a read.
* The rescue on a closed pool raises `RuntimeError`, which nothing there catches.
* The stream of `/v1/messages` carries text only; tool calls of the answer are
  dropped (`adapters/anthropic.py:243-305`), and its full answer has them.
* A `tool_use` block without a piece of arguments is never passed on
  (`adapters/anthropic.py:539-553`).
* Text beside tool results in a user's turn is put before them
  (`adapters/anthropic.py:114-118`); Gemini's `functionResponse` is named by the
  call's id (`adapters/gemini.py:84`).
* Ids `call_i` repeat from answer to answer, and count differently in a stream
  (`adapters/gemini.py:202` and `:267`); `LatestCallAnswered` says why it does
  no harm.
* A last line of Ollama without a newline is lost (`backends/ollama_native.py:184`).
* `tool_choice` is forwarded though the tools were dropped
  (`adapters/responses_to_chat.py:299-312`).
* "stop_sequence" comes back as `content_filter` (`adapters/anthropic.py:179-184`,
  `:315`).

## 6. Not modelled

* Sampling parameters, tool definitions, `max_tokens`, model aliases, URLs and
  headers: maps of single fields; nothing depends on an order or an earlier call.
  What the tools of a request do to its messages, the tool hint, is in
  `Conversation`.
* `passthrough()` of a streaming request: it collects the whole answer and relays
  it, as one plain call.
* The sticky hash: no caller passes a key.  The patterns of `looks_stuck`: whether
  they match is a free choice of the model.
* The agent resolver (a first match over headers), configuration parsing (before
  the system runs; its bounds are the assumptions on the constants), metrics,
  logging, error rendering, read-only endpoints, the CLI: no protocol state.

Worth doing next: `StreamWrappers` on top of `RequestFlow`, so that the stream's
slot is the pool's; tool calls of `/v1/messages` in `UpstreamDialects` when the
code streams them.

## 7. Running it

    tlc -workers 2 -config MCRequestFlow.cfg MCRequestFlow
    tlapm RequestFlow_proofs.tla

PROJECT.json names every run with its module and configuration.  The
configurations of findings 3 to 12 are run by hand, with `MCSingleBackend`
(`MCUnhealthyRun`, `MCHalfOpenProbe`, `MCBrokenStream`, `MCFlappingProbe`,
`MCRetryOverride`), `UpstreamDialects` (`MCEmptyMessage`), `MCServedStreams`
(`MCRescuePause`), `MCTokenBucket` (`MCSmallBucket`) and `MCResponsesStream`
(`MCRescuedOutput`, `MCRescueRaises`):

    tlc -config MCHalfOpenProbe.cfg MCSingleBackend
