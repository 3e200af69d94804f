--------------------------- MODULE MCCircleBuffer ---------------------------
(* Small instances of CircleBuffer for TLC. *)
EXTENDS CircleBuffer
=============================================================================
