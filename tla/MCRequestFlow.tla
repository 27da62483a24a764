--------------------------- MODULE MCRequestFlow ----------------------------
(***************************************************************************)
(* Two backends and two requests, one plain and one streaming: with one    *)
(* slot per backend and limiters, of which the first makes requests wait   *)
(* and the second rejects them, they meet in queues, in the breakers and   *)
(* at the limiters.                                                        *)
(***************************************************************************)
EXTENDS RequestFlow, TLC

CONSTANTS r1, r2, m1

MCServes == <<{m1}, {}>>
MCCapacity == <<1, 1>>
MCRateMode == <<"wait", "reject">>
MCBurst == <<1, 1>>
MCKind == (r1 :> "json") @@ (r2 :> "stream")
MCModelOf == (r1 :> m1) @@ (r2 :> NoModel)
MCBackendRetries == <<NoOverride, 0>>
=============================================================================
