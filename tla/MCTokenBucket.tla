--------------------------- MODULE MCTokenBucket ----------------------------
(***************************************************************************)
(* Two patient tasks and an impatient one at a bucket of two and a half    *)
(* tokens that gains two thirds of a token per tick.                       *)
(***************************************************************************)
EXTENDS TokenBucket

CONSTANTS t1, t2, t3
=============================================================================
