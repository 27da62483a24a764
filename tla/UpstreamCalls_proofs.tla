------------------------ MODULE UpstreamCalls_proofs ------------------------
(***************************************************************************)
(* For any number of calls of any kind, any lengths of time and any number *)
(* of broken connections: what one lost connection may do (OneFaultIsHid-  *)
(* den), what the upstream may see twice (StartedAgainOnlyIfHalved), and,  *)
(* on a server that keeps UTC, that tokens handed out are good and are not *)
(* refreshed before they are due.  And for any rate limiter that calls     *)
(* take a token from before: it never lets through more than it may.       *)
(***************************************************************************)
EXTENDS UpstreamCalls, TokenBucket, TLAPS

Stages == {"idle", "waiting", "minting", "sent", "started", "over"}

CallTypes ==
  /\ stage \in [Calls -> Stages]
  /\ outcome \in [Calls -> {"none", "ok", "status", "unreachable", "raised", "left"}]
  /\ link \in [Calls -> {"good", "stale", "none"}]
  /\ breaks \in [Calls -> Nat]
  /\ kept \in [good : Nat, stale : Nat]
  /\ faults \in Nat
  /\ starts \in [Calls -> Nat]
  /\ halved \subseteq Calls

Before(c) == stage[c] \in {"idle", "waiting", "minting"}

\* Nothing has happened to a call that has not been sent.
Unsent ==
  \A c \in Calls : Before(c) =>
    outcome[c] = "none" /\ link[c] = "none" /\ breaks[c] = 0 /\ starts[c] = 0

StaleLink(c) == IF link[c] = "stale" THEN 1 ELSE 0

\* Every connection a call has lost or is about to lose, and every one that waits
\* for it in the pool, is a fault of its own.
Paid == \A c \in Calls : breaks[c] + StaleLink(c) + kept.stale <= faults

Unreached == \A c \in Calls : outcome[c] = "unreachable" => breaks[c] >= 2

\* How often the upstream has started on a call that is under way.
Counted ==
  \A c \in Calls :
    /\ stage[c] \in {"sent", "started"} =>
         /\ link[c] # "none" /\ breaks[c] <= 1
         /\ breaks[c] = 1 => Kind[c] = "json"
    /\ stage[c] = "sent" =>
         /\ starts[c] <= breaks[c]
         /\ starts[c] = 1 => c \in halved
    /\ stage[c] = "started" =>
         /\ starts[c] \in {1, 2}
         /\ starts[c] <= breaks[c] + 1

CallInv ==
  CallTypes /\ Unsent /\ Paid /\ Unreached /\ Counted /\ StartedAgainOnlyIfHalved

LEMMA ConnectOK ==
  ASSUME CallInv, NEW c \in Calls, NEW how \in Links, Connect(c, how),
         NEW n \in Nat, breaks' = [breaks EXCEPT ![c] = n],
         n + kept.stale <= faults',
         faults' \in Nat, faults' >= faults
  PROVE  /\ link' \in [Calls -> {"good", "stale", "none"}]
         /\ kept' \in [good : Nat, stale : Nat]
         /\ Paid'
<1> USE DEF CallInv, CallTypes, Connect, Links
<1>1. link' \in [Calls -> {"good", "stale", "none"}]  OBVIOUS
<1>2. kept' \in [good : Nat, stale : Nat]  OBVIOUS
<1>3. kept'.stale = IF how = "stale" THEN kept.stale - 1 ELSE kept.stale  OBVIOUS
<1>4. StaleLink(c)' = IF how = "stale" THEN 1 ELSE 0  BY DEF StaleLink
<1>5. breaks'[c] + StaleLink(c)' + kept'.stale <= faults'  BY <1>3, <1>4
<1>6. \A d \in Calls \ {c} : breaks'[d] = breaks[d] /\ StaleLink(d)' = StaleLink(d)
  BY DEF StaleLink
<1>7. \A d \in Calls \ {c} : breaks'[d] + StaleLink(d)' + kept'.stale <= faults'
  BY <1>3, <1>6 DEF Paid, StaleLink
<1> QED  BY <1>1, <1>2, <1>5, <1>7 DEF Paid

LEMMA SendOK == ASSUME CallInv, NEW c \in Calls, Before(c), Send(c) PROVE CallInv'
<1> USE DEF CallInv
<1>1. CASE Kind[c] = "probe"
  <2>1. /\ stage' = [stage EXCEPT ![c] = "over"] /\ outcome' = [outcome EXCEPT ![c] = "ok"]
        /\ link' = link /\ breaks' = breaks /\ kept' = kept /\ faults' = faults
        /\ starts' = starts /\ halved' = halved
    BY <1>1 DEF Send, linkVars
  <2> USE <2>1
  <2>2. CallTypes'  BY DEF CallTypes, Stages
  <2>3. Unsent'  BY DEF Unsent, Before, CallTypes
  <2>4. Paid'  BY DEF Paid, StaleLink
  <2>5. Unreached'  BY DEF Unreached, CallTypes
  <2>6. Counted'  BY DEF Counted, CallTypes
  <2>7. StartedAgainOnlyIfHalved'  BY DEF StartedAgainOnlyIfHalved
  <2> QED  BY <2>2, <2>3, <2>4, <2>5, <2>6, <2>7
<1>2. CASE Kind[c] # "probe"
  <2>1. /\ stage' = [stage EXCEPT ![c] = "sent"] /\ outcome' = outcome
        /\ breaks' = breaks /\ faults' = faults
        /\ starts' = starts /\ halved' = halved
    BY <1>2 DEF Send
  <2>2. PICK how \in Links : Connect(c, how)  BY <1>2 DEF Send
  <2>3. breaks[c] = 0 /\ starts[c] = 0 /\ link[c] = "none"  BY DEF Unsent
  <2>4. breaks' = [breaks EXCEPT ![c] = 0] /\ 0 + kept.stale <= faults'
        /\ faults' \in Nat /\ faults' >= faults
    BY <2>1, <2>3 DEF CallTypes, Paid, StaleLink
  <2>5. /\ link' \in [Calls -> {"good", "stale", "none"}]
        /\ kept' \in [good : Nat, stale : Nat]
        /\ Paid'
    BY <2>2, <2>4, ConnectOK
  <2>6. /\ link'[c] # "none"
        /\ \A d \in Calls \ {c} : link'[d] = link[d]
    BY <2>2 DEF Connect, CallTypes
  <2> USE <2>1, <2>3
  <2>7. CallTypes'  BY <2>5 DEF CallTypes, Stages
  <2>8. Unsent'  BY <2>6 DEF Unsent, Before, CallTypes
  <2>9. Unreached'  BY DEF Unreached
  <2>10. Counted'  BY <2>6 DEF Counted, CallTypes
  <2>11. StartedAgainOnlyIfHalved'  BY DEF StartedAgainOnlyIfHalved
  <2> QED  BY <2>5, <2>7, <2>8, <2>9, <2>10, <2>11
<1> QED  BY <1>1, <1>2

\* A call that waits or mints has still not been sent.
LEMMA StaysOK ==
  ASSUME CallInv, NEW c \in Calls, Before(c), NEW s \in {"waiting", "minting"},
         stage' = [stage EXCEPT ![c] = s], UNCHANGED <<outcome, linkVars>>
  PROVE  CallInv'
<1> USE DEF CallInv, linkVars
<1>1. CallTypes'  BY DEF CallTypes, Stages
<1>2. Unsent'  BY DEF Unsent, Before, CallTypes
<1>3. Paid'  BY DEF Paid, StaleLink
<1>4. Unreached'  BY DEF Unreached
<1>5. Counted'  BY DEF Counted, CallTypes
<1>6. StartedAgainOnlyIfHalved'  BY DEF StartedAgainOnlyIfHalved
<1> QED  BY <1>1, <1>2, <1>3, <1>4, <1>5, <1>6

\* A call ends, with or without its connection going back to the pool.
LEMMA EndOK ==
  ASSUME CallInv, NEW c \in Calls,
         NEW how \in {"ok", "status", "raised", "left"}, End(c, how),
         link' = link \/ link' = [link EXCEPT ![c] = "none"],
         kept' = kept \/ kept' = [kept EXCEPT !.good = @ + 1],
         UNCHANGED <<breaks, faults, starts, halved>>
  PROVE  CallInv'
<1> USE DEF CallInv, End
<1>1. CallTypes'  BY DEF CallTypes, Stages
<1>2. Unsent'  BY DEF Unsent, Before, CallTypes
<1>3. Paid'
  <2>1. kept'.stale = kept.stale  BY DEF CallTypes
  <2>2. ASSUME NEW d \in Calls PROVE StaleLink(d)' <= StaleLink(d)
    BY DEF StaleLink, CallTypes
  <2> QED  BY <1>1, <2>1, <2>2 DEF Paid, StaleLink, CallTypes
<1>4. Unreached'  BY DEF Unreached, CallTypes
<1>5. Counted'  BY DEF Counted, CallTypes
<1>6. StartedAgainOnlyIfHalved'  BY DEF StartedAgainOnlyIfHalved
<1> QED  BY <1>1, <1>2, <1>3, <1>4, <1>5, <1>6

LEMMA StartOK == ASSUME CallInv, NEW c \in Calls, Start(c) PROVE CallInv'
<1> USE DEF CallInv, Start
<1>1. CallTypes'  BY DEF CallTypes, Stages
<1>2. Unsent'  BY DEF Unsent, Before, CallTypes
<1>3. Paid'  BY DEF Paid, StaleLink
<1>4. Unreached'  BY DEF Unreached
<1>5. Counted'  BY DEF Counted, CallTypes
<1>6. StartedAgainOnlyIfHalved'  BY DEF StartedAgainOnlyIfHalved, Counted, CallTypes
<1> QED  BY <1>1, <1>2, <1>3, <1>4, <1>5, <1>6

LEMMA BrokenOK == ASSUME CallInv, NEW c \in Calls, Broken(c) PROVE CallInv'
<1> USE DEF CallInv
<1>1. stage[c] \in {"sent", "started"} /\ starts' = starts  BY DEF Broken
<1>2. faults' = (IF link[c] = "good" THEN faults + 1 ELSE faults)  BY DEF Broken
<1>3. halved' = (IF stage[c] = "started" THEN halved \cup {c} ELSE halved)  BY DEF Broken
<1>4. breaks' = [breaks EXCEPT ![c] = breaks[c] + 1]  BY DEF Broken
<1>5. faults' \in Nat /\ faults' >= faults /\ halved' \subseteq Calls
  BY <1>2, <1>3 DEF CallTypes
<1>6. breaks[c] + 1 + kept.stale <= faults' /\ breaks[c] + 1 \in Nat
  BY <1>1, <1>2 DEF Paid, StaleLink, Counted, CallTypes
<1> breaks' \in [Calls -> Nat]  BY <1>4 DEF CallTypes
<1>7. CASE MayResend(c)
  <2>1. stage' = [stage EXCEPT ![c] = "sent"] /\ outcome' = outcome
    BY <1>7 DEF Broken
  <2>2. PICK how \in Links : Connect(c, how)  BY <1>7 DEF Broken
  <2>3. /\ link' \in [Calls -> {"good", "stale", "none"}]
        /\ kept' \in [good : Nat, stale : Nat]
        /\ Paid'
    BY <2>2, <1>4, <1>5, <1>6, ConnectOK
  <2>4. /\ link'[c] # "none"
        /\ \A d \in Calls \ {c} : link'[d] = link[d]
    BY <2>2 DEF Connect, CallTypes
  <2>5. Kind[c] = "json" /\ breaks[c] = 0  BY <1>7 DEF MayResend
  <2>6. CallTypes'  BY <1>1, <1>5, <2>1, <2>3 DEF CallTypes, Stages
  <2> USE <2>1, <1>1, <1>3, <1>4
  <2>7. Unsent'  BY <2>4 DEF Unsent, Before, CallTypes
  <2>8. Unreached'  BY DEF Unreached, CallTypes
  <2>9. Counted'  BY <2>4, <2>5 DEF Counted, CallTypes
  <2>10. StartedAgainOnlyIfHalved'
    BY <2>5 DEF StartedAgainOnlyIfHalved, Counted, CallTypes
  <2> QED  BY <2>3, <2>6, <2>7, <2>8, <2>9, <2>10
<1>8. CASE ~MayResend(c)
  <2>1. /\ stage' = [stage EXCEPT ![c] = "over"]
        /\ outcome' = [outcome EXCEPT ![c] =
                         IF Kind[c] = "json" THEN "unreachable" ELSE "raised"]
        /\ link' = [link EXCEPT ![c] = "none"] /\ kept' = kept
    BY <1>8 DEF Broken, End
  <2>2. Kind[c] = "json" => breaks[c] # 0  BY <1>8 DEF MayResend
  <2> USE <2>1, <1>1, <1>3, <1>4
  <2>3. CallTypes'  BY <1>5 DEF CallTypes, Stages
  <2>4. Unsent'  BY DEF Unsent, Before, CallTypes
  <2>5. Paid'  BY <1>5, <1>6 DEF Paid, StaleLink, CallTypes
  <2>6. Unreached'  BY <2>2 DEF Unreached, CallTypes
  <2>7. Counted'  BY DEF Counted, CallTypes
  <2>8. StartedAgainOnlyIfHalved'
    BY DEF StartedAgainOnlyIfHalved, Counted, CallTypes
  <2> QED  BY <2>3, <2>4, <2>5, <2>6, <2>7, <2>8
<1> QED  BY <1>7, <1>8

LEMMA CloseIdleOK == ASSUME CallInv, CloseIdle PROVE CallInv'
<1> USE DEF CallInv, CloseIdle
<1>1. CallTypes'  BY DEF CallTypes
<1>2. Unsent'  BY DEF Unsent, Before
<1>3. Paid'  BY DEF Paid, StaleLink, CallTypes
<1>4. Unreached'  BY DEF Unreached
<1>5. Counted'  BY DEF Counted
<1>6. StartedAgainOnlyIfHalved'  BY DEF StartedAgainOnlyIfHalved
<1> QED  BY <1>1, <1>2, <1>3, <1>4, <1>5, <1>6

LEMMA CallsUnchangedOK ==
  ASSUME CallInv, UNCHANGED <<stage, outcome, linkVars>> PROVE CallInv'
  BY DEF CallInv, linkVars, CallTypes, Unsent, Before, Paid, StaleLink, Unreached,
         Counted, StartedAgainOnlyIfHalved

-----------------------------------------------------------------------------
(* The token, on a server that keeps UTC.  A waiter's old clock does no    *)
(* harm: unless the token has just been renewed and nobody has taken the   *)
(* lock since, it expires as soon for him as it did when he looked.        *)

TokenTypes ==
  /\ cached \in BOOLEAN /\ left \in Int
  /\ minting \in 0 .. MaxRefresh
  /\ ago \in [Calls -> Nat]

OldClock ==
  \A c \in Calls :
    /\ stage[c] = "idle" => ago[c] = 0
    /\ stage[c] = "waiting" /\ cached =>
         left + ago[c] <= Margin \/ (lock = NoOne /\ left > Margin)

TokenInv == TokenTypes /\ OldClock

LEMMA TokenInitOK == ASSUME Init PROVE TokenInv
<1>1. MaxRefresh \in Nat  BY CallsAssumption
<1>2. cached = FALSE /\ left = 0 /\ minting = 0 /\ ago = [c \in Calls |-> 0]
  BY DEF Init
<1>3. TokenTypes
  <2>1. minting \in 0 .. MaxRefresh  BY <1>1, <1>2
  <2>2. ago \in [Calls -> Nat]  BY <1>2
  <2>3. cached \in BOOLEAN  BY <1>2
  <2>4. left \in Int  BY <1>2
  <2> QED  BY <2>1, <2>2, <2>3, <2>4 DEF TokenTypes
<1>4. OldClock  BY <1>2 DEF Init, OldClock
<1> QED  BY <1>3, <1>4 DEF TokenInv

\* A step that leaves the token and the clocks alone, at most frees the lock, and
\* sends nobody to wait.
LEMMA TokenKept ==
  ASSUME TokenInv, UNCHANGED <<cached, left, minting, ago>>, lock' \in {lock, NoOne},
         \A c \in Calls : stage'[c] \in {"idle", "waiting"} => stage'[c] = stage[c]
  PROVE  TokenInv'
<1>1. TokenTypes'  BY DEF TokenInv, TokenTypes
<1>2. OldClock'  BY DEF TokenInv, OldClock
<1> QED  BY <1>1, <1>2 DEF TokenInv

LEMMA SendMoves ==
  ASSUME CallInv, NEW c \in Calls, Send(c)
  PROVE  /\ stage'[c] \in {"sent", "over"}
         /\ \A d \in Calls \ {c} : stage'[d] = stage[d]
  BY DEF CallInv, CallTypes, Send

\* Whoever takes the lock to mint has seen that the token is due.
LEMMA MintOK ==
  ASSUME West = 0, CallInv, TokenInv, NEW c \in Calls, Mint(c), ago' = ago,
         ~Fresh(ago[c])
  PROVE  TokenInv'
<1> USE DEF TokenInv
<1>1. ~cached \/ left <= Margin
  BY CallsAssumption DEF Fresh, TokenTypes
<1>2. TokenTypes'  BY CallsAssumption DEF TokenTypes, Mint
<1>3. OldClock'
  BY <1>1, CallsAssumption DEF OldClock, Mint, CallInv, CallTypes, TokenTypes
<1> QED  BY <1>2, <1>3

LEMMA GetOK ==
  ASSUME West = 0, CallInv, TokenInv, NEW c \in Calls, Get(c) PROVE TokenInv'
<1>1. stage[c] = "idle" /\ ago[c] = 0  BY DEF Get, TokenInv, OldClock
<1>2. CASE Fresh(0) /\ Send(c) /\ UNCHANGED tokenVars
  BY <1>2, SendMoves, TokenKept DEF tokenVars
<1>3. CASE ~Fresh(0) /\ Mint(c) /\ ago' = ago
  BY <1>1, <1>3, MintOK
<1>4. CASE /\ ~Fresh(0)
           /\ stage' = [stage EXCEPT ![c] = "waiting"]
           /\ UNCHANGED <<cached, left, lock, minting, ago>>
  <2>1. ~cached \/ left + ago[c] <= Margin
    BY <1>1, <1>4, CallsAssumption DEF Fresh, TokenInv, TokenTypes
  <2>2. TokenTypes'  BY <1>4 DEF TokenInv, TokenTypes
  <2>3. OldClock'  BY <1>4, <2>1 DEF TokenInv, OldClock, CallInv, CallTypes
  <2> QED  BY <2>2, <2>3 DEF TokenInv
<1> QED  BY <1>2, <1>3, <1>4 DEF Get

LEMMA LockedOK ==
  ASSUME West = 0, CallInv, TokenInv, NEW c \in Calls, Locked(c) PROVE TokenInv'
<1>1. CASE Send(c) /\ UNCHANGED <<cached, left, lock, minting, ago>>
  BY <1>1, SendMoves, TokenKept
<1>2. CASE ~Fresh(ago[c]) /\ Mint(c) /\ ago' = ago
  BY <1>2, MintOK
<1> QED  BY <1>1, <1>2 DEF Locked

LEMMA MintedOK ==
  ASSUME CallInv, TokenInv, NEW c \in Calls, Minted(c)
  PROVE  TokenInv' /\ left' > Margin
<1>1. cached' = TRUE /\ lock' = NoOne /\ minting' = minting /\ ago' = ago
  BY DEF Minted
<1>2. PICK age \in 0 .. minting : left' = Life - age  BY DEF Minted
<1>3. left' \in Int /\ left' > Margin
  BY <1>2, CallsAssumption DEF TokenInv, TokenTypes
<1>4. TokenTypes'  BY <1>1, <1>3 DEF TokenInv, TokenTypes
<1>5. Send(c)  BY DEF Minted
<1>6. OldClock'  BY <1>1, <1>3, <1>5, SendMoves DEF TokenInv, OldClock
<1> QED  BY <1>3, <1>4, <1>6 DEF TokenInv

LEMMA TickOK == ASSUME CallInv, TokenInv, Tick PROVE TokenInv'
<1> USE DEF TokenInv, Tick
<1>1. TokenTypes'
  <2>1. cached' \in BOOLEAN /\ left' \in Int  BY DEF TokenTypes
  <2>2. minting' \in 0 .. MaxRefresh  BY CallsAssumption DEF TokenTypes
  <2>3. ago' \in [Calls -> Nat]  BY DEF TokenTypes
  <2> QED  BY <2>1, <2>2, <2>3 DEF TokenTypes
<1>2. ASSUME NEW c \in Calls
      PROVE  /\ stage'[c] = "idle" => ago'[c] = 0
             /\ stage'[c] = "waiting" /\ cached' => left' + ago'[c] <= Margin
  BY CallsAssumption DEF TokenTypes, OldClock
<1> QED  BY <1>1, <1>2 DEF OldClock

\* The steps of a call that has been sent, and the end of one that has not.
LEMMA OnTheWayOK ==
  ASSUME CallInv, TokenInv, NEW c \in Calls,
         Call(c) \/ NotMinted(c) \/ Start(c) \/ Answer(c) \/ Broken(c) \/ Abandon(c)
  PROVE  TokenInv'
<1>1. CASE Call(c)  BY <1>1, SendMoves, TokenKept DEF Call, tokenVars
<1>2. CASE Start(c)
  BY <1>2, TokenKept DEF Start, tokenVars, CallInv, CallTypes
<1>3. CASE \E how : End(c, how)
  BY <1>3, TokenKept DEF End, CallInv, CallTypes
<1>4. CASE Broken(c) /\ MayResend(c)
  <2>1. stage' = [stage EXCEPT ![c] = "sent"] /\ UNCHANGED tokenVars
    BY <1>4 DEF Broken
  <2> QED  BY <2>1, TokenKept DEF tokenVars, CallInv, CallTypes
<1> QED  BY <1>1, <1>2, <1>3, <1>4 DEF NotMinted, Answer, Broken, Abandon

-----------------------------------------------------------------------------
LEMMA CallInitOK == ASSUME Init PROVE CallInv
<1> USE DEF Init
<1>1. CallTypes  BY CallsAssumption DEF CallTypes, Stages
<1>2. Unsent  BY DEF Unsent
<1>3. Paid  BY DEF Paid, StaleLink
<1>4. Unreached  BY DEF Unreached
<1>5. Counted  BY DEF Counted
<1>6. StartedAgainOnlyIfHalved  BY DEF StartedAgainOnlyIfHalved
<1> QED  BY <1>1, <1>2, <1>3, <1>4, <1>5, <1>6 DEF CallInv

LEMMA CallStepOK == ASSUME CallInv, [Next]_vars PROVE CallInv'
<1>1. CASE UNCHANGED vars  BY <1>1, CallsUnchangedOK DEF vars
<1>2. ASSUME NEW c \in Calls, Call(c) PROVE CallInv'
  BY <1>2, SendOK DEF Call, Before
<1>3. ASSUME NEW c \in Calls, Get(c) PROVE CallInv'
  <2>1. Before(c)  BY <1>3 DEF Get, Before
  <2>2. CASE Send(c)  BY <2>1, <2>2, SendOK
  <2>3. CASE Mint(c)  BY <2>1, <2>3, StaysOK DEF Mint
  <2>4. CASE stage' = [stage EXCEPT ![c] = "waiting"] /\ UNCHANGED <<outcome, linkVars>>
    BY <2>1, <2>4, StaysOK
  <2> QED  BY <1>3, <2>2, <2>3, <2>4 DEF Get
<1>4. ASSUME NEW c \in Calls, Locked(c) PROVE CallInv'
  <2>1. Before(c)  BY <1>4 DEF Locked, AtLock, Before
  <2>2. CASE Send(c)  BY <2>1, <2>2, SendOK
  <2>3. CASE Mint(c)  BY <2>1, <2>3, StaysOK DEF Mint
  <2> QED  BY <1>4, <2>2, <2>3 DEF Locked
<1>5. ASSUME NEW c \in Calls, Minted(c) PROVE CallInv'
  BY <1>5, SendOK DEF Minted, Before
<1>6. ASSUME NEW c \in Calls, NotMinted(c) \/ Answer(c) \/ Abandon(c) PROVE CallInv'
  <2>1. PICK how \in {"ok", "status", "raised", "left"} : End(c, how)
    BY <1>6 DEF NotMinted, Answer, Abandon
  <2>2. /\ link' = link \/ link' = [link EXCEPT ![c] = "none"]
        /\ kept' = kept \/ kept' = [kept EXCEPT !.good = @ + 1]
        /\ UNCHANGED <<breaks, faults, starts, halved>>
    BY <1>6 DEF NotMinted, Answer, Abandon, linkVars
  <2> QED  BY <2>1, <2>2, EndOK
<1>7. ASSUME NEW c \in Calls, Start(c) PROVE CallInv'  BY <1>7, StartOK
<1>8. ASSUME NEW c \in Calls, Broken(c) PROVE CallInv'  BY <1>8, BrokenOK
<1>9. CASE CloseIdle  BY <1>9, CloseIdleOK
<1>10. CASE Tick  BY <1>10, CallsUnchangedOK DEF Tick
<1> QED  BY <1>1, <1>2, <1>3, <1>4, <1>5, <1>6, <1>7, <1>8, <1>9, <1>10 DEF Next

LEMMA TokenStepOK ==
  ASSUME West = 0, CallInv, TokenInv, [Next]_vars PROVE TokenInv'
<1>1. CASE UNCHANGED vars
  BY <1>1 DEF vars, tokenVars, TokenInv, TokenTypes, OldClock
<1>2. CASE CloseIdle
  BY <1>2 DEF CloseIdle, tokenVars, TokenInv, TokenTypes, OldClock
<1>3. CASE Tick  BY <1>3, TickOK
<1> QED
  BY <1>1, <1>2, <1>3, GetOK, LockedOK, MintedOK, OnTheWayOK DEF Next

\* The invariant about calls and connections holds throughout.
THEOREM CallsInvariant == Spec => []CallInv
<1>1. Init => CallInv  BY CallInitOK
<1>2. CallInv /\ [Next]_vars => CallInv'  BY CallStepOK
<1> QED  BY <1>1, <1>2, PTL DEF Spec

\* The reconnect of request_json (openai_compat.py:243) hides every single lost
\* connection: a JSON call that fails has lost two, each of them a fault.
THEOREM CallsOneFaultIsHidden == Spec => []OneFaultIsHidden
<1>1. CallInv => OneFaultIsHidden
  BY DEF CallInv, CallTypes, Paid, StaleLink, Unreached, OneFaultIsHidden
<1> QED  BY <1>1, CallsInvariant, PTL

\* The upstream sees a JSON call twice only when the connection broke while it was
\* at work on it (openai_compat.py:248), and nothing else twice at all.
THEOREM CallsStartedAgainOnlyIfHalved == Spec => []StartedAgainOnlyIfHalved
<1>1. CallInv => StartedAgainOnlyIfHalved  BY DEF CallInv
<1> QED  BY <1>1, CallsInvariant, PTL

\* A step of one call leaves the stage and the outcome of the others alone.
LEMMA OneMoves ==
  ASSUME CallInv, NEW d \in Calls,
         \/ Call(d) \/ Get(d) \/ Locked(d) \/ Minted(d) \/ NotMinted(d)
         \/ Start(d) \/ Answer(d) \/ Broken(d) \/ Abandon(d),
         NEW c \in Calls \ {d}
  PROVE  stage'[c] = stage[c] /\ outcome'[c] = outcome[c]
<1>1. CASE Send(d)  BY <1>1 DEF CallInv, CallTypes, Send
<1>2. CASE Mint(d)  BY <1>2 DEF CallInv, CallTypes, Mint
<1>3. CASE stage' = [stage EXCEPT ![d] = "waiting"] /\ outcome' = outcome
  BY <1>3 DEF CallInv, CallTypes
<1>4. CASE \E how : End(d, how)  BY <1>4 DEF CallInv, CallTypes, End
<1>5. CASE Start(d)  BY <1>5 DEF CallInv, CallTypes, Start
<1>6. CASE stage' = [stage EXCEPT ![d] = "sent"] /\ outcome' = outcome
  BY <1>6 DEF CallInv, CallTypes
<1> QED
  BY <1>1, <1>2, <1>3, <1>4, <1>5, <1>6
  DEF Call, Get, Locked, Minted, NotMinted, Answer, Broken, Abandon

\* Only these steps hand out a token.
LEMMA TokenComesFrom ==
  ASSUME CallInv, [Next]_vars, NEW c \in Calls, TokenGiven(c),
         outcome[c] = "none", Before(c)
  PROVE  Get(c) \/ Locked(c) \/ Minted(c)
<1>1. stage'[c] # stage[c] \/ outcome'[c] # outcome[c]  BY DEF TokenGiven, Before
<1>2. Next /\ ~Tick /\ ~CloseIdle  BY <1>1 DEF vars, Tick, CloseIdle
<1>3. \/ Call(c) \/ Get(c) \/ Locked(c) \/ Minted(c) \/ NotMinted(c)
      \/ Start(c) \/ Answer(c) \/ Broken(c) \/ Abandon(c)
  BY <1>1, <1>2, OneMoves DEF Next
<1>4. ~Call(c)  BY DEF Call, TokenGiven
<1>5. ~Start(c) /\ ~Answer(c) /\ ~Broken(c)
  BY DEF Start, Answer, Broken, Before
<1>6. ~NotMinted(c) /\ ~Abandon(c)
  BY DEF NotMinted, Abandon, End, TokenGiven, CallInv, CallTypes, Before
<1> QED  BY <1>3, <1>4, <1>5, <1>6

\* The invariant about the token, on a server that keeps UTC.
THEOREM TokenInvariant == ASSUME West = 0 PROVE Spec => []TokenInv
<1>1. Init => TokenInv  BY TokenInitOK
<1>2. CallInv /\ TokenInv /\ [Next]_vars => TokenInv'  BY TokenStepOK
<1> QED  BY <1>1, <1>2, CallsInvariant, PTL DEF Spec

\* A token that is handed out is good for more than the margin (_gcp_oauth.py:62),
\* though a caller that waited compares it with a clock it read before the wait.
THEOREM CallsTokenIsGood == ASSUME West = 0 PROVE Spec => TokenIsGood
<1>1. ASSUME CallInv, TokenInv, [Next]_vars, NEW c \in Calls, TokenGiven(c)
      PROVE  left' > Margin
  <2>1. outcome[c] = "none" /\ Before(c)
    BY <1>1 DEF CallInv, Unsent, Before, TokenGiven
  <2>2. Get(c) \/ Locked(c) \/ Minted(c)  BY <1>1, <2>1, TokenComesFrom
  <2>3. CASE Minted(c)  BY <1>1, <2>3, MintedOK
  <2>4. CASE Get(c)
    <3>1. Fresh(0) /\ left' = left
      BY <1>1, <2>1, <2>4 DEF CallInv, CallTypes, TokenGiven, Get, Mint, tokenVars
    <3> QED  BY <3>1, CallsAssumption, <1>1 DEF Fresh, TokenInv, TokenTypes
  <2>5. CASE Locked(c)
    <3>1. Fresh(ago[c]) /\ left' = left /\ stage[c] = "waiting"
      BY <1>1, <2>1, <2>5 DEF CallInv, CallTypes, TokenGiven, Locked, AtLock, Mint
    <3>2. cached /\ left + ago[c] > Margin
      BY <3>1, CallsAssumption, <1>1 DEF Fresh, TokenInv, TokenTypes
    <3> QED  BY <1>1, <3>1, <3>2, CallsAssumption DEF TokenInv, TokenTypes, OldClock
  <2> QED  BY <2>2, <2>3, <2>4, <2>5
<1>2. CallInv /\ TokenInv /\ [Next]_vars =>
        [\A c \in Calls : TokenGiven(c) => left' > Margin]_vars
  BY <1>1
<1> QED  BY <1>2, CallsInvariant, TokenInvariant, PTL DEF Spec, TokenIsGood

\* Nobody refreshes a token that is not due (_gcp_oauth.py:69).
THEOREM CallsRefreshedOnlyWhenDue == ASSUME West = 0 PROVE Spec => RefreshedOnlyWhenDue
<1>1. ASSUME TokenInv, [Next]_vars, NEW c \in Calls, lock # c, lock' = c
      PROVE  ~cached \/ left <= Margin
  <2>1. c # NoOne  BY CallsAssumption DEF NoOne
  <2>2. lock' # lock /\ lock' # NoOne  BY <1>1, <2>1
  <2>3. PICK d \in Calls : Get(d) \/ Locked(d)
    BY <1>1, <2>2
    DEF Next, vars, tokenVars, Call, Minted, NotMinted, Start, Answer, Broken, Abandon,
        CloseIdle, Tick, End
  <2>4. ~Fresh(0) \/ ~Fresh(ago[d])
    BY <2>2, <2>3 DEF Get, Locked, tokenVars
  <2> QED  BY <1>1, <2>3, <2>4, CallsAssumption DEF Fresh, TokenInv, TokenTypes
<1>2. TokenInv /\ [Next]_vars =>
        [\A c \in Calls : lock # c /\ lock' = c => ~cached \/ left <= Margin]_vars
  BY <1>1
<1> QED  BY <1>2, TokenInvariant, PTL DEF Spec, RefreshedOnlyWhenDue
-----------------------------------------------------------------------------
(* The rate limiter (TokenBucket), for any tasks, rate and burst: RateBound *)
(* alone is not inductive, since it says nothing of what is still in the   *)
(* bucket, nor of the time since _last, which is yet to be credited.       *)

BucketInv == BucketTypeOK /\ Budget /\ RateBound

\* min() of the code returns one of its arguments, and neither is smaller.
LEMMA LeastBounds ==
  ASSUME NEW a \in Nat, NEW b \in Nat
  PROVE  Least(a, b) \in Nat /\ Least(a, b) <= a /\ Least(a, b) <= b
BY DEF Least

\* Capping the first factor can only make a product smaller.
LEMMA ProductMonotone ==
  ASSUME NEW a \in Nat, NEW b \in Nat, NEW c \in Nat, a <= b
  PROVE  a * c <= b * c /\ a * c \in Nat /\ b * c \in Nat
<1>1. PICK d \in Nat : b = a + d
  <2> b - a \in Nat /\ b = a + (b - a)  OBVIOUS
  <2> QED  OBVIOUS
<1>2. a * c \in Nat /\ d * c \in Nat  OBVIOUS
<1>3. b * c = a * c + d * c  BY <1>1
<1> QED  BY <1>1, <1>2, <1>3

\* What the bucket holds after a refill: never more than the burst, never
\* more than what has accrued.
LEMMA RefilledBounds ==
  ASSUME BucketTypeOK
  PROVE  /\ Refilled \in 0 .. Burst
         /\ elapsed * Rate \in Nat
         /\ Refilled <= tokens + elapsed * Rate
<1>1. tokens \in Nat /\ elapsed \in Nat /\ Rate \in Nat /\ Burst \in Nat
  BY BucketAssumption DEF BucketTypeOK, Long
<1>2. elapsed * Rate \in Nat  BY <1>1
<1>3. tokens + elapsed * Rate \in Nat  BY <1>1, <1>2
<1> QED  BY <1>1, <1>2, <1>3, LeastBounds DEF Refilled

\* A task sleeps a whole number of ticks.
LEMMA TicksForIsNat ==
  ASSUME NEW need \in Nat
  PROVE  TicksFor(need) \in Nat
<1>1. Rate \in Nat /\ Rate > 0  BY BucketAssumption
<1>2. need + Rate - 1 \in Nat  BY <1>1
<1> DEFINE n == need + Rate - 1
<1>3. n \in Nat  BY <1>2
<1> HIDE DEF n
<1>4. n \div Rate \in Nat  BY <1>1, <1>3, Z3
<1> QED  BY <1>4 DEF TicksFor, n

LEMMA BucketInitOK == BucketInit => BucketInv
<1> SUFFICES ASSUME BucketInit PROVE BucketInv  OBVIOUS
<1>1. BucketTypeOK  BY BucketAssumption DEF BucketInit, BucketTypeOK, Long
<1>2. 0 * Rate = 0 /\ 0 * Unit = 0  BY BucketAssumption
<1>3. Budget /\ RateBound  BY <1>2, BucketAssumption DEF BucketInit, Budget, RateBound
<1> QED  BY <1>1, <1>3 DEF BucketInv

\* A token is taken: what leaves the bucket is counted in taken, and the time
\* since _last is credited at most once.
LEMMA TakeOK ==
  ASSUME BucketInv, NEW t \in Tasks, Take(t), elapsed' = 0, clock' = clock
  PROVE  BucketInv'
<1>1. /\ Unit \in Nat /\ Rate \in Nat /\ Burst \in Nat /\ LastTick \in Nat
      /\ clock \in Nat /\ taken \in Nat /\ tokens \in Nat
  BY BucketAssumption DEF BucketInv, BucketTypeOK
<1>2. Refilled \in 0 .. Burst /\ elapsed * Rate \in Nat /\ Refilled <= tokens + elapsed * Rate
  BY RefilledBounds DEF BucketInv
<1>3. tokens' = Refilled - Unit /\ tokens' \in 0 .. Burst  BY <1>1, <1>2 DEF Take
<1>4. BucketTypeOK'  BY <1>1, <1>3 DEF BucketInv, BucketTypeOK, Take, Long
<1>5. taken * Unit \in Nat /\ clock * Rate \in Nat /\ (taken + 1) * Unit = taken * Unit + Unit
  BY <1>1
<1>6. elapsed' * Rate = 0  BY <1>1
<1>7. CASE clock < LastTick
  <2>1. taken' = taken + 1  BY <1>7 DEF Take
  <2>2. tokens + elapsed * Rate + taken * Unit <= Burst + clock * Rate
    BY <1>7 DEF BucketInv, Budget
  <2>3. tokens' + elapsed' * Rate + taken' * Unit <= Burst + clock' * Rate
    BY <1>1, <1>2, <1>3, <1>5, <1>6, <2>1, <2>2
  <2>4. taken' * Unit <= Burst + clock' * Rate
    BY <1>1, <1>3, <1>5, <1>6, <2>1, <2>3
  <2> QED  BY <1>4, <2>3, <2>4 DEF BucketInv, Budget, RateBound
<1>8. CASE ~(clock < LastTick)
  BY <1>4, <1>8 DEF BucketInv, Budget, RateBound, Take
<1> QED  BY <1>7, <1>8

\* Nobody takes a token: the refill moves accrued time into the bucket.
LEMMA RefillOK ==
  ASSUME BucketInv, NEW t \in Tasks, Refuse(t) \/ FallAsleep(t), elapsed' = 0, clock' = clock
  PROVE  BucketInv'
<1>1. /\ Unit \in Nat /\ Rate \in Nat /\ Burst \in Nat
      /\ clock \in Nat /\ taken \in Nat /\ tokens \in Nat
  BY BucketAssumption DEF BucketInv, BucketTypeOK
<1>2. Refilled \in 0 .. Burst /\ elapsed * Rate \in Nat /\ Refilled <= tokens + elapsed * Rate
  BY RefilledBounds DEF BucketInv
<1>3. tokens' = Refilled /\ taken' = taken  BY DEF Refuse, FallAsleep
<1>4. sleep' \in [Tasks -> Nat]
  <2>1. CASE Refuse(t)  BY <2>1 DEF Refuse, BucketInv, BucketTypeOK
  <2>2. CASE FallAsleep(t)
    <3>1. Unit - Refilled \in Nat  BY <1>1, <1>2, <2>2 DEF FallAsleep
    <3>2. TicksFor(Unit - Refilled) \in Nat  BY <3>1, TicksForIsNat
    <3> QED  BY <2>2, <3>2 DEF FallAsleep, BucketInv, BucketTypeOK
  <2> QED  BY <2>1, <2>2
<1>5. BucketTypeOK'
  BY <1>1, <1>2, <1>3, <1>4 DEF BucketInv, BucketTypeOK, Refuse, FallAsleep, Long
<1>6. elapsed' * Rate = 0 /\ taken * Unit \in Nat /\ clock * Rate \in Nat  BY <1>1
<1>7. Budget'
  BY <1>1, <1>2, <1>3, <1>6 DEF BucketInv, Budget
<1> QED  BY <1>3, <1>5, <1>7 DEF BucketInv, RateBound

\* Time passes: a tick accrues Rate units in the bucket's budget, and capping
\* the time at a full refill forgets some but invents none.
LEMMA BucketTickOK == BucketInv /\ BucketTick => BucketInv'
<1> SUFFICES ASSUME BucketInv, BucketTick PROVE BucketInv'  OBVIOUS
<1>1. /\ Unit \in Nat /\ Rate \in Nat /\ Burst \in Nat /\ LastTick \in Nat
      /\ clock \in 0 .. LastTick /\ taken \in Nat /\ tokens \in Nat
      /\ elapsed \in 0 .. Long /\ Long \in Nat
  BY BucketAssumption DEF BucketInv, BucketTypeOK, Long
<1>2. elapsed' \in 0 .. Long /\ elapsed' <= elapsed + 1
  BY <1>1, LeastBounds DEF BucketTick
<1>3. clock' \in 0 .. LastTick /\ clock' >= clock /\ (clock < LastTick => clock' = clock + 1)
  BY <1>1 DEF BucketTick, Least
<1>4. BucketTypeOK'
  <2>1. sleep' \in [Tasks -> Nat]  BY DEF BucketTick, BucketInv, BucketTypeOK
  <2> QED  BY <1>2, <1>3, <2>1 DEF BucketTick, BucketInv, BucketTypeOK, Long
<1>5. tokens' = tokens /\ taken' = taken  BY DEF BucketTick
<1>6. RateBound'
  <2>1. clock * Rate <= clock' * Rate /\ clock * Rate \in Nat /\ clock' * Rate \in Nat
    <3>1. clock \in Nat /\ clock' \in Nat /\ clock <= clock'  BY <1>1, <1>3
    <3> QED  BY <1>1, <3>1, ProductMonotone
  <2>2. taken * Unit \in Nat  BY <1>1
  <2> QED  BY <1>1, <1>5, <2>1, <2>2 DEF BucketInv, RateBound
<1>7. Budget'
  <2> SUFFICES ASSUME clock' < LastTick
               PROVE  tokens' + elapsed' * Rate + taken' * Unit <= Burst + clock' * Rate
    BY DEF Budget
  <2>1. clock < LastTick /\ clock' = clock + 1  BY <1>1, <1>3
  <2>2. tokens + elapsed * Rate + taken * Unit <= Burst + clock * Rate
    BY <2>1 DEF BucketInv, Budget
  <2>3. /\ elapsed' * Rate <= (elapsed + 1) * Rate
        /\ elapsed' * Rate \in Nat
    <3>1. elapsed' \in Nat /\ elapsed + 1 \in Nat  BY <1>1, <1>2
    <3> QED  BY <1>1, <1>2, <3>1, ProductMonotone
  <2>4. /\ elapsed * Rate \in Nat /\ clock * Rate \in Nat /\ taken * Unit \in Nat
        /\ (elapsed + 1) * Rate = elapsed * Rate + Rate
        /\ (clock + 1) * Rate = clock * Rate + Rate
    BY <1>1
  <2> QED  BY <1>1, <1>5, <2>1, <2>2, <2>3, <2>4
<1> QED  BY <1>4, <1>6, <1>7 DEF BucketInv

\* The invariant is inductive.
THEOREM BucketInvariant == BucketSpec => []BucketInv
<1>1. BucketInit => BucketInv  BY BucketInitOK
<1>2. BucketInv /\ [BucketNext]_bucketVars => BucketInv'
  <2> SUFFICES ASSUME BucketInv, [BucketNext]_bucketVars PROVE BucketInv'  OBVIOUS
  <2>1. ASSUME NEW t \in Tasks, Acquire(t) PROVE BucketInv'
    BY <2>1, TakeOK, RefillOK DEF Acquire
  <2>2. ASSUME NEW t \in Tasks, Wake(t) PROVE BucketInv'
    BY <2>2, TakeOK, RefillOK DEF Wake
  <2>3. ASSUME NEW t \in Tasks, ComeBack(t) PROVE BucketInv'
    BY <2>3 DEF ComeBack, BucketInv, BucketTypeOK, Budget, RateBound, Long
  <2>4. CASE BucketTick  BY <2>4, BucketTickOK
  <2>5. CASE UNCHANGED bucketVars
    BY <2>5 DEF bucketVars, BucketInv, BucketTypeOK, Budget, RateBound, Long
  <2> QED  BY <2>1, <2>2, <2>3, <2>4, <2>5 DEF BucketNext
<1> QED  BY <1>1, <1>2, PTL DEF BucketSpec

\* Type correctness: the bucket is never overdrawn and never overfull.
THEOREM BucketTypes == BucketSpec => []BucketTypeOK
BY BucketInvariant, PTL DEF BucketInv

\* The limiter never lets through more than the burst and what accrued.
THEOREM BucketRateBound == BucketSpec => []RateBound
BY BucketInvariant, PTL DEF BucketInv
=============================================================================
