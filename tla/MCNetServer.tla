---------------------------- MODULE MCNetServer ----------------------------
(* Small instances of NetServer for TLC. *)
EXTENDS NetServer
=============================================================================
