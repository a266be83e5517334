--------------------------- MODULE MCSmpScheduler ---------------------------
(* Small instances of SmpScheduler for TLC. *)
EXTENDS SmpScheduler, TLC

\* Nothing in the controller orders slots or request numbers.
Symmetry == Permutations(Slot) \cup Permutations(Request)

BothCpus == {{0, 1}}
=============================================================================
