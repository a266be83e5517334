-------------------------- MODULE MCStateBackend --------------------------
(* Small instances of StateBackend for TLC. *)
EXTENDS StateBackend
=============================================================================
