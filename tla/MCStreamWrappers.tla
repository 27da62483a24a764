-------------------------- MODULE MCStreamWrappers --------------------------
(* Three chunks: one piece, none, two pieces.                              *)
EXTENDS StreamWrappers

MCPieces == <<1, 0, 2>>
=============================================================================
