------------------------------ MODULE FifoLock ------------------------------
(***************************************************************************)
(* What the ticket spinlock promises: a lock whose waiters are served in   *)
(* the order they arrived, and may leave the line.                         *)
(***************************************************************************)
EXTENDS Integers, Sequences

CONSTANTS Thread, NoOwner

VARIABLES line, holder

fifoVars == <<line, holder>>

Init == line = <<>> /\ holder = NoOwner

Enter(t) ==
    /\ holder # t /\ \A i \in DOMAIN line : line[i] # t
    /\ line' = Append(line, t)
    /\ UNCHANGED holder

Grant ==
    /\ line # <<>> /\ holder = NoOwner
    /\ holder' = Head(line)
    /\ line' = Tail(line)

\* The line q without its i-th place.
Drop(q, i) == SubSeq(q, 1, i - 1) \o SubSeq(q, i + 1, Len(q))

Leave(t) ==
    /\ \E i \in DOMAIN line : line[i] = t /\ line' = Drop(line, i)
    /\ UNCHANGED holder

Release ==
    /\ holder # NoOwner
    /\ holder' = NoOwner
    /\ UNCHANGED line

Next == Grant \/ Release \/ \E t \in Thread : Enter(t) \/ Leave(t)

Spec == Init /\ [][Next]_fifoVars
=============================================================================
