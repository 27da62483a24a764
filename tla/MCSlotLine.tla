---------------------------- MODULE MCSlotLine -----------------------------
(***************************************************************************)
(* One backend with two slots and four requests, so that two can be        *)
(* released while others are in line, and one called while another slot is *)
(* free.  The backend asks for a retry the routing section does not grant. *)
(***************************************************************************)
EXTENDS RequestFlow, TLC

CONSTANTS r1, r2, r3, r4

MCServes == <<{}>>
MCCapacity == <<2>>
MCRateMode == <<"off">>
MCBurst == <<0>>
MCKind == [r \in {r1, r2, r3} |-> "passthrough"] @@ (r4 :> "stream")
MCModelOf == [r \in {r1, r2, r3, r4} |-> NoModel]
MCBackendRetries == <<1>>
=============================================================================
