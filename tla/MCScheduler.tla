---------------------------- MODULE MCScheduler ----------------------------
(* Small instances of Scheduler for TLC. *)
EXTENDS Scheduler, TLC

\* Nothing in the scheduler compares two slots.
SlotSymmetry == Permutations(Slot)

BothCpus == {{0, 1}}
PinnedAndFree == {{0}, {0, 1}}
OnlyCpu0 == {{0}}
=============================================================================
