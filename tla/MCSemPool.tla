----------------------------- MODULE MCSemPool -----------------------------
(* Small instances of SemPool for TLC. *)
EXTENDS SemPool
=============================================================================
