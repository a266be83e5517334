------------------------------ MODULE MCRwLock ------------------------------
(* Small instances of RwLock. *)
EXTENDS RwLock
=============================================================================
