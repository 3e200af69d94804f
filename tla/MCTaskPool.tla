----------------------------- MODULE MCTaskPool -----------------------------
(* Small instances of TaskPool for TLC. *)
EXTENDS TaskPool
=============================================================================
