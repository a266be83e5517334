----------------------------- MODULE TicketFifo -----------------------------
(* How TicketLock implements FifoLock. *)
EXTENDS TicketLock

\* The threads of L in the order of their tickets r.
Rank(L, r, t) == Cardinality({u \in L : r[u] <= r[t]})
InOrder(L, r) == [k \in 1..Cardinality(L) |-> CHOOSE t \in L : Rank(L, r, t) = k]

\* A thread stands in line from the exchange that takes its ticket to the one
\* that makes it the owner, or to the moment it gives up.
Line == {t \in Thread : pc[t] \in {"spin", "lastLook", "claim"}}

Holder == IF \E t \in Thread : Holds(t) THEN CHOOSE t \in Thread : Holds(t) ELSE NoOwner

Fifo == INSTANCE FifoLock WITH line <- InOrder(Line, reg), holder <- Holder

\* The ticket lock implements the first-in first-out lock: threads are granted
\* the lock in the order in which they took their tickets, one at a time.
ImplementsFifo == Fifo!Spec
=============================================================================
