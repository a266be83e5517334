---------------------------- MODULE MCRecovery ----------------------------
(* Small instances of Recovery for TLC. *)
EXTENDS Recovery

\* Slot 1 holds the older image.
OldAndNew == <<1, 2>>
=============================================================================
