------------------------- MODULE MCSimpleThreadPool -------------------------
(* Small instances of SimpleThreadPool for TLC. *)
EXTENDS SimpleThreadPool
=============================================================================
