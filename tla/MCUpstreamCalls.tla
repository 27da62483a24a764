-------------------------- MODULE MCUpstreamCalls ---------------------------
(***************************************************************************)
(* Calls of a Vertex backend and of an OpenAI-compatible one on one pool   *)
(* of connections.                                                         *)
(***************************************************************************)
EXTENDS UpstreamCalls, TLC

CONSTANTS v1, p1, p2, j1

MCKind == (v1 :> "vertex") @@ (p1 :> "probe") @@ (p2 :> "probe") @@ (j1 :> "json")
=============================================================================
