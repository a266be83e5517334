-------------------------- MODULE MCTaskLifetimes --------------------------
(* Small instances of TaskLifetimes for TLC. *)
EXTENDS TaskLifetimes

BothCpus == {{0, 1}}
=============================================================================
