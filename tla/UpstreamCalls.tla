--------------------------- MODULE UpstreamCalls ----------------------------
(***************************************************************************)
(* The calls of one backend: the Google access token a Vertex call has to  *)
(* carry (backends/_gcp_oauth.py) and the connection every call goes out   *)
(* on, with the one reconnect of request_json (backends/openai_compat.py). *)
(* A call is one attempt of a retry loop; limiter, slot and breaker are    *)
(* around it, in RequestFlow.                                              *)
(***************************************************************************)
EXTENDS Integers, Sequences, FiniteSets

CONSTANTS Calls,
          Kind,         \* Kind[c]: "json", request_json of an OpenAI-compatible
                        \* backend; "plain", its stream and passthrough and the calls
                        \* of the Anthropic and Ollama backends; "vertex", a plain call
                        \* behind a token; "probe", health() of a Vertex backend
          Life,         \* ticks a token is good for
          Margin,       \* 60 s (_gcp_oauth.py:66)
          MaxRefresh,   \* bound: ticks a refresh takes
          West,         \* UTC less local time
          KeptAtFirst,  \* idle connections earlier calls have left
          MaxFaults,    \* bound: connections lost
          Horizon       \* bound: ticks from the expiry of the cached token to the
                        \* next refresh

ASSUME CallsAssumption ==
  /\ "nobody" \notin Calls
  /\ Kind \in [Calls -> {"json", "plain", "vertex", "probe"}]
  /\ {Life, Margin, MaxRefresh, KeptAtFirst, MaxFaults, Horizon} \subseteq Nat
  /\ West \in Int
  /\ MaxRefresh + Margin < Life

VARIABLES cached,   \* there is a cached token
          left,     \* ticks until it expires, negative after that
          lock,     \* who holds _refresh_lock, or nobody
          line,     \* who waits for it, first come first
          minting,  \* ticks the refresh of the lock's holder has taken
          ago,      \* ago[c]: ticks since get() read the clock (now)
          stage,    \* stage[c]: "idle", "waiting" for the lock, "minting" a token,
                    \* "sent", "started" by the upstream, "over"
          link,     \* link[c]: the connection it is on, "good", "stale" or "none"
          breaks,   \* breaks[c]: connections it has lost (attempt)
          outcome,  \* "none" yet, "ok", "status" (400 and more), "unreachable" (the
                    \* 502 of request_json), "raised" by httpx or google-auth, "left"
          kept,     \* idle connections in the client's pool, by "good" and "stale"
          faults,   \* connections the server or the network has closed
          starts,   \* starts[c]: how often the upstream has started on it
          halved    \* the calls a connection broke under after they were started

NoOne == "nobody"

tokenVars == <<cached, left, lock, line, minting, ago>>
linkVars  == <<link, breaks, kept, faults, starts, halved>>
vars == <<tokenVars, stage, outcome, linkVars>>

Init ==
  /\ cached = FALSE /\ left = 0
  /\ lock = NoOne /\ line = <<>> /\ minting = 0
  /\ ago = [c \in Calls |-> 0]
  /\ stage = [c \in Calls |-> "idle"]
  /\ outcome = [c \in Calls |-> "none"]
  /\ link = [c \in Calls |-> "none"]
  /\ breaks = [c \in Calls |-> 0]
  /\ kept = [good |-> KeptAtFirst, stale |-> 0]
  /\ faults = 0
  /\ starts = [c \in Calls |-> 0]
  /\ halved = {}

NeedsToken(c) == Kind[c] \in {"vertex", "probe"}

-----------------------------------------------------------------------------
\* Mutant: a token is used to its last second.
Fresh_NoMargin(since) == cached /\ left + West + since > 0

\* The cached token is good, for one who read the clock that many ticks since.
\* Its expiry came as a naive UTC time, which timestamp() takes for local time.
Fresh(since) == cached /\ left + West + since > Margin

\* What the client's pool gives: an idle connection, though its server may have
\* closed it, or a new one.
Connect(c, how) ==
  /\ how \in {"good", "stale"} => kept[how] > 0
  /\ kept' = IF how = "new" THEN kept ELSE [kept EXCEPT ![how] = @ - 1]
  /\ link' = [link EXCEPT ![c] = IF how = "stale" THEN "stale" ELSE "good"]

Links == {"good", "stale", "new"}

\* The call goes out; a probe is done when it has a token.
Send(c) ==
  IF Kind[c] = "probe"
  THEN /\ stage' = [stage EXCEPT ![c] = "over"]
       /\ outcome' = [outcome EXCEPT ![c] = "ok"]
       /\ UNCHANGED linkVars
  ELSE /\ stage' = [stage EXCEPT ![c] = "sent"]
       /\ \E how \in Links : Connect(c, how)
       /\ UNCHANGED <<outcome, breaks, faults, starts, halved>>

\* The refresh is handed to a thread, with the lock held.
Mint(c) ==
  /\ lock' = c /\ minting' = 0
  /\ stage' = [stage EXCEPT ![c] = "minting"]
  /\ UNCHANGED <<cached, left, outcome, linkVars>>

\* A call that needs no token.
Call(c) ==
  /\ stage[c] = "idle" /\ ~NeedsToken(c)
  /\ Send(c)
  /\ UNCHANGED tokenVars

\* get(): the cached token, or the lock and a refresh, or the line at the lock.
Get(c) ==
  /\ stage[c] = "idle" /\ NeedsToken(c)
  /\ \/ Fresh(0) /\ Send(c) /\ UNCHANGED tokenVars
     \/ /\ ~Fresh(0) /\ lock = NoOne /\ line = <<>>
        /\ Mint(c)
        /\ UNCHANGED <<line, ago>>
     \/ /\ ~Fresh(0) /\ (lock # NoOne \/ line # <<>>)
        /\ line' = Append(line, c)
        /\ stage' = [stage EXCEPT ![c] = "waiting"]
        /\ UNCHANGED <<cached, left, lock, minting, ago, outcome, linkVars>>

AtLock(c) ==
  stage[c] = "waiting" /\ lock = NoOne /\ line # <<>> /\ Head(line) = c

\* Mutant: whoever gets the lock refreshes.
Locked_NoSecondCheck(c) ==
  AtLock(c) /\ line' = Tail(line) /\ Mint(c) /\ UNCHANGED ago

\* The lock is free: the cache is looked at once more, with the clock as it was
\* before the wait.
Locked(c) ==
  /\ AtLock(c)
  /\ line' = Tail(line)
  /\ \/ Fresh(ago[c]) /\ Send(c) /\ UNCHANGED <<cached, left, lock, minting>>
     \/ ~Fresh(ago[c]) /\ Mint(c)
  /\ UNCHANGED ago

\* The token was minted at some time since the refresh began.
Minted(c) ==
  /\ stage[c] = "minting"
  /\ cached' = TRUE
  /\ \E age \in 0 .. minting : left' = Life - age
  /\ lock' = NoOne
  /\ Send(c)
  /\ UNCHANGED <<line, minting, ago>>

\* The call ends, on whatever connection; a place in the line or the lock is
\* given up with it.  A refresh goes on in its thread, but nobody takes its token.
End(c, how) ==
  /\ stage' = [stage EXCEPT ![c] = "over"]
  /\ outcome' = [outcome EXCEPT ![c] = how]
  /\ line' = SelectSeq(line, LAMBDA d : d # c)
  /\ lock' = IF lock = c THEN NoOne ELSE lock
  /\ UNCHANGED <<cached, left, minting, ago>>

NotMinted(c) ==
  /\ stage[c] = "minting"
  /\ End(c, IF Kind[c] = "probe" THEN "status" ELSE "raised")
  /\ UNCHANGED linkVars

-----------------------------------------------------------------------------
Start(c) ==
  /\ stage[c] = "sent" /\ link[c] = "good"
  /\ stage' = [stage EXCEPT ![c] = "started"]
  /\ starts' = [starts EXCEPT ![c] = @ + 1]
  /\ UNCHANGED <<tokenVars, outcome, link, breaks, kept, faults, halved>>

\* Mutant: an error status is sent again like a broken connection.
Answer_ResendsErrors(c) ==
  /\ stage[c] = "started"
  /\ \/ /\ breaks[c] = 0
        /\ stage' = [stage EXCEPT ![c] = "sent"]
        /\ breaks' = [breaks EXCEPT ![c] = 1]
        /\ UNCHANGED <<tokenVars, outcome, link, kept, faults, starts, halved>>
     \/ /\ \E how \in {"ok", "status"} : End(c, how)
        /\ link' = [link EXCEPT ![c] = "none"]
        /\ kept' = [kept EXCEPT !.good = @ + 1]
        /\ UNCHANGED <<breaks, faults, starts, halved>>

\* The answer comes and the connection goes back to the pool.
Answer(c) ==
  /\ stage[c] = "started"
  /\ \E how \in {"ok", "status"} : End(c, how)
  /\ link' = [link EXCEPT ![c] = "none"]
  /\ kept' = [kept EXCEPT !.good = @ + 1]
  /\ UNCHANGED <<breaks, faults, starts, halved>>

\* Mutant: request_json does not try again.
MayResend_Never(c) == FALSE

\* request_json sends once more, and at once.
MayResend(c) == Kind[c] = "json" /\ breaks[c] = 0

\* The connection turns out to be closed, or breaks under the call.
Broken(c) ==
  /\ stage[c] \in {"sent", "started"}
  /\ link[c] = "good" => faults < MaxFaults
  /\ faults' = IF link[c] = "good" THEN faults + 1 ELSE faults
  /\ halved' = IF stage[c] = "started" THEN halved \cup {c} ELSE halved
  /\ breaks' = [breaks EXCEPT ![c] = @ + 1]
  /\ \/ /\ MayResend(c)
        /\ stage' = [stage EXCEPT ![c] = "sent"]
        /\ \E how \in Links : Connect(c, how)
        /\ UNCHANGED <<tokenVars, outcome>>
     \/ /\ ~MayResend(c)
        /\ End(c, IF Kind[c] = "json" THEN "unreachable" ELSE "raised")
        /\ link' = [link EXCEPT ![c] = "none"]
        /\ UNCHANGED kept
  /\ UNCHANGED starts

\* A timeout of httpx, which is not among the errors that are resent, or the
\* client goes away.
Abandon(c) ==
  /\ stage[c] \in {"waiting", "minting", "sent", "started"}
  /\ \E how \in {"raised", "left"} :
       /\ how = "raised" => stage[c] \in {"sent", "started"}
       /\ End(c, how)
  /\ link' = [link EXCEPT ![c] = "none"]
  /\ UNCHANGED <<breaks, kept, faults, starts, halved>>

\* The server closes an idle connection; the pool does not know yet.
CloseIdle ==
  /\ kept.good > 0 /\ faults < MaxFaults
  /\ kept' = [good |-> kept.good - 1, stale |-> kept.stale + 1]
  /\ faults' = faults + 1
  /\ UNCHANGED <<tokenVars, stage, outcome, link, breaks, starts, halved>>

\* A tick is long for the event loop: a free lock does not keep anyone waiting.
Tick ==
  /\ lock = NoOne => \A c \in Calls : stage[c] # "waiting"
  /\ lock # NoOne => minting < MaxRefresh
  /\ left > -Horizon
  /\ left' = IF cached THEN left - 1 ELSE left
  /\ minting' = IF lock = NoOne THEN 0 ELSE minting + 1
  /\ ago' = [c \in Calls |-> IF stage[c] = "waiting" THEN ago[c] + 1 ELSE 0]
  /\ UNCHANGED <<cached, lock, line, stage, outcome, linkVars>>

Next ==
  \/ \E c \in Calls :
       \/ Call(c) \/ Get(c) \/ Locked(c) \/ Minted(c) \/ NotMinted(c)
       \/ Start(c) \/ Answer(c) \/ Broken(c) \/ Abandon(c)
  \/ CloseIdle
  \/ Tick

Spec == Init /\ [][Next]_vars

-----------------------------------------------------------------------------
\* c has been given the cached token.
TokenGiven(c) ==
  /\ NeedsToken(c) /\ stage[c] \in {"idle", "waiting", "minting"}
  /\ stage'[c] = "sent" \/ outcome'[c] = "ok"

\* A token handed out is good for more than the margin, also to a caller that was
\* in line and compares with a clock it read before (_gcp_oauth.py:63, 73).  Needs
\* a server that keeps UTC.
TokenIsGood == [][ \A c \in Calls : TokenGiven(c) => left' > Margin ]_vars

\* "Return a valid access token" (_gcp_oauth.py:62): one that is not past its expiry,
\* wherever the server is.
NoExpiredToken == [][ \A c \in Calls : TokenGiven(c) => left' >= 0 ]_vars

\* "so concurrent callers don't all hit the refresh path" (_gcp_oauth.py:69):
\* nobody refreshes a token that is good, however many found it expired at once.
RefreshedOnlyWhenDue ==
  [][ \A c \in Calls : lock # c /\ lock' = c => ~cached \/ left <= Margin ]_vars

\* "turns a one-off keepalive RST into a transparent recovery instead of a
\* user-visible 502" (openai_compat.py:243): one connection lost, wherever, fails
\* no JSON call.
OneFaultIsHidden ==
  faults <= 1 => \A c \in Calls : outcome[c] # "unreachable"

\* The upstream starts on a call again only after a connection broke under it
\* while it was at work (openai_compat.py:248), and then once: neither a stale
\* connection nor an error status makes it work twice.
StartedAgainOnlyIfHalved ==
  \A c \in Calls : starts[c] > 1 => starts[c] = 2 /\ c \in halved /\ Kind[c] = "json"
=============================================================================
