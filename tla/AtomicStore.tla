---------------------------- MODULE AtomicStore ----------------------------
(* What PBSTATE1 promises of the boot-trust state: one value, replaced by its *)
(* successor in a single step, that a power loss neither loses nor changes.   *)
CONSTANTS InitialStates, Successors(_)

VARIABLE store

Init == store \in InitialStates
Next == store' \in Successors(store)
Spec == Init /\ [][Next]_store
=============================================================================
