-------------------------- MODULE TicketLockProofs --------------------------
(* Proofs about TicketLock, for every set of threads and every window. *)
EXTENDS TicketFifo, Sequences, TLAPS

\* A leaf is tried with SMT, then with Zenon, then with SMT for longer.
USE SMT, Zenon, SMTT(40)

\* A ticket's bit lies in the bitmap.
LEMMA BitType ==
  ASSUME NEW n \in Nat
  PROVE  Bit(n) \in 0..Window - 1
BY WindowAssumption DEF Bit

\* Two tickets less than a window apart have different bits.
LEMMA BitInjective ==
  ASSUME NEW m \in Nat, NEW n \in Nat, m <= n, n - m < Window, Bit(m) = Bit(n)
  PROVE  m = n
<1> DEFINE W == Window
<1>1. W \in Nat /\ W > 0
  BY WindowAssumption
<1>2. m = W * (m \div W) + (m % W) /\ n = W * (n \div W) + (n % W)
  BY <1>1
<1>3. (m \div W) \in Int /\ (n \div W) \in Int
  BY <1>1
<1>4. n - m = W * ((n \div W) - (m \div W))
  BY <1>1, <1>2, <1>3 DEF Bit
<1>5. (n \div W) - (m \div W) <= 0
  <2>1. SUFFICES ASSUME (n \div W) - (m \div W) >= 1 PROVE FALSE
    BY <1>3
  <2>2. \A k \in Int : k >= 1 => W * k >= W
    BY <1>1
  <2> QED BY <2>1, <2>2, <1>1, <1>3, <1>4
<1>6. \A k \in Int : k <= 0 => W * k <= 0
  BY <1>1
<1> QED BY <1>1, <1>3, <1>4, <1>5, <1>6

\* One step of one thread, with every action named.
LEMMA NextCases ==
  ASSUME NEW t \in Thread, TryLoadServing(t) \/ ReserveLoadNext(t) \/ Step(t)
  PROVE  \/ TryLoadServing(t) \/ TryLoadNext(t) \/ TryExchange(t)
         \/ ReserveLoadNext(t) \/ ReserveLoadServing(t) \/ ReserveRecheck(t)
         \/ ReserveExchange(t) \/ SpinServed(t) \/ SpinGiveUp(t)
         \/ Claim(t) \/ CancelLoadServing(t) \/ CancelSet(t)
         \/ UnlockLoadServing(t) \/ UnlockOwner(t) \/ UnlockServing(t)
         \/ AdvanceLoadOwner(t) \/ AdvanceLoadServing(t) \/ AdvanceTest(t)
         \/ AdvanceLoad(t) \/ AdvanceClear(t) \/ AdvanceExchange(t)
BY DEF Step

\* Every access keeps the types.
LEMMA TypeStep ==
  ASSUME TypeOK, NEW t \in Thread, TryLoadServing(t) \/ ReserveLoadNext(t) \/ Step(t)
  PROVE  TypeOK'
<1> USE WindowAssumption, BoundedAssumption
<1> USE DEF TypeOK, Pc, Goto, Continue, Advance, shared
<1>1. CASE TryLoadServing(t)
  BY <1>1 DEF TryLoadServing
<1>2. CASE TryLoadNext(t)
  BY <1>2 DEF TryLoadNext
<1>3. CASE TryExchange(t)
  BY <1>3 DEF TryExchange
<1>4. CASE ReserveLoadNext(t)
  BY <1>4 DEF ReserveLoadNext
<1>5. CASE ReserveLoadServing(t)
  BY <1>5 DEF ReserveLoadServing
<1>6. CASE ReserveRecheck(t)
  BY <1>6 DEF ReserveRecheck
<1>7. CASE ReserveExchange(t)
  BY <1>7 DEF ReserveExchange
<1>8. CASE SpinServed(t)
  BY <1>8 DEF SpinServed
<1>9. CASE SpinGiveUp(t)
  BY <1>9 DEF SpinGiveUp
<1>10. CASE Claim(t)
  BY <1>10 DEF Claim
<1>11. CASE CancelLoadServing(t)
  BY <1>11 DEF CancelLoadServing
<1>12. CASE CancelSet(t)
  BY <1>12, BitType, Zenon DEF CancelSet
<1>13. CASE UnlockLoadServing(t)
  BY <1>13 DEF UnlockLoadServing
<1>14. CASE UnlockOwner(t)
  BY <1>14 DEF UnlockOwner
<1>15. CASE UnlockServing(t)
  BY <1>15 DEF UnlockServing
<1>16. CASE AdvanceLoadOwner(t)
  BY <1>16 DEF AdvanceLoadOwner
<1>17. CASE AdvanceLoadServing(t)
  BY <1>17 DEF AdvanceLoadServing
<1>18. CASE AdvanceTest(t)
  BY <1>18 DEF AdvanceTest
<1>19. CASE AdvanceLoad(t)
  BY <1>19 DEF AdvanceLoad
<1>20. CASE AdvanceClear(t)
  <2>1. CASE cancelled = bits[t]
    BY <1>20, <2>1 DEF AdvanceClear
  <2>2. CASE cancelled # bits[t]
    <3>1. /\ pc' = [pc EXCEPT ![t] = "advance"]
          /\ reg' = [reg EXCEPT ![t] = 0]
          /\ bounded' = [bounded EXCEPT ![t] = FALSE]
      BY <1>20, <2>2, Zenon DEF AdvanceClear
    <3>2. bits' \in [Thread -> SUBSET (0..Window - 1)]
      BY <1>20 DEF AdvanceClear
    <3>3. cancelled' = cancelled /\ UNCHANGED <<next, serving, owner>>
      BY <1>20, <2>2 DEF AdvanceClear
    <3> QED BY <3>1, <3>2, <3>3, Zenon
  <2> QED BY <2>1, <2>2
<1>21. CASE AdvanceExchange(t)
  BY <1>21 DEF AdvanceExchange
<1> QED BY NextCases, <1>1, <1>2, <1>3, <1>4, <1>5, <1>6, <1>7, <1>8, <1>9, <1>10, <1>11, <1>12, <1>13, <1>14, <1>15, <1>16, <1>17, <1>18, <1>19, <1>20, <1>21

\* Every access keeps the invariant: one case per program point.
LEMMA InvStep ==
  ASSUME LockInv, NEW t \in Thread, TryLoadServing(t) \/ ReserveLoadNext(t) \/ Step(t)
  PROVE  TicketsInv' /\ OwnerInv' /\ RegisterInv' /\ CancelledInv' /\ SkipInv'
<1> USE WindowAssumption, NoOwnerAssumption
<1> USE DEF LockInv, TypeOK, Pc, Goto, Continue, Advance, shared, Live, Dead, Holds, Served,
        Skips, InWindow, NoFault
<1>1. CASE TryLoadServing(t)
  BY <1>1 DEF TryLoadServing, TicketsInv, OwnerInv, RegisterInv, CancelledInv, SkipInv
<1>2. CASE TryLoadNext(t)
  BY <1>2 DEF TryLoadNext, TicketsInv, OwnerInv, RegisterInv, CancelledInv, SkipInv
<1>3. CASE TryExchange(t)
  <2> USE <1>3 DEF TryExchange
  <2>1. TicketsInv' BY DEF TicketsInv, OwnerInv, RegisterInv, SkipInv
  <2>2. OwnerInv' BY DEF TicketsInv, OwnerInv
  <2>3. RegisterInv' BY DEF TicketsInv, RegisterInv
  <2>4. CancelledInv' BY DEF TicketsInv, CancelledInv
  <2>5. SkipInv' BY DEF TicketsInv, SkipInv
  <2> QED BY <2>1, <2>2, <2>3, <2>4, <2>5
<1>4. CASE ReserveLoadNext(t)
  BY <1>4 DEF ReserveLoadNext, TicketsInv, OwnerInv, RegisterInv, CancelledInv, SkipInv
<1>5. CASE ReserveLoadServing(t)
  BY <1>5 DEF ReserveLoadServing, TicketsInv, OwnerInv, RegisterInv, CancelledInv, SkipInv
<1>6. CASE ReserveRecheck(t)
  BY <1>6 DEF ReserveRecheck, TicketsInv, OwnerInv, RegisterInv, CancelledInv, SkipInv
<1>7. CASE ReserveExchange(t)
  <2> USE <1>7 DEF ReserveExchange
  <2>1. TicketsInv' BY DEF TicketsInv, OwnerInv, RegisterInv, SkipInv
  <2>2. OwnerInv' BY DEF TicketsInv, OwnerInv
  <2>3. RegisterInv' BY DEF TicketsInv, RegisterInv
  <2>4. CancelledInv' BY DEF TicketsInv, CancelledInv
  <2>5. SkipInv' BY DEF TicketsInv, SkipInv
  <2> QED BY <2>1, <2>2, <2>3, <2>4, <2>5
<1>8. CASE SpinServed(t)
  BY <1>8 DEF SpinServed, TicketsInv, OwnerInv, RegisterInv, CancelledInv, SkipInv
<1>9. CASE SpinGiveUp(t)
  BY <1>9 DEF SpinGiveUp, TicketsInv, OwnerInv, RegisterInv, CancelledInv, SkipInv
<1>10. CASE Claim(t)
  BY <1>10 DEF Claim, TicketsInv, OwnerInv, RegisterInv, CancelledInv, SkipInv
<1>11. CASE CancelLoadServing(t)
  BY <1>11 DEF CancelLoadServing, TicketsInv, OwnerInv, RegisterInv, CancelledInv, SkipInv
<1>12. CASE CancelSet(t)
  <2> USE <1>12 DEF CancelSet
  <2>1. TicketsInv' BY DEF TicketsInv, OwnerInv, RegisterInv, SkipInv
  <2>2. OwnerInv' BY DEF TicketsInv, OwnerInv
  <2>3. RegisterInv' BY DEF TicketsInv, RegisterInv
  <2>4. CancelledInv' BY DEF TicketsInv, CancelledInv
  <2>5. SkipInv' BY BitInjective DEF TicketsInv, SkipInv
  <2> QED BY <2>1, <2>2, <2>3, <2>4, <2>5
<1>13. CASE UnlockLoadServing(t)
  BY <1>13 DEF UnlockLoadServing, TicketsInv, OwnerInv, RegisterInv, CancelledInv, SkipInv
<1>14. CASE UnlockOwner(t)
  BY <1>14 DEF UnlockOwner, TicketsInv, OwnerInv, RegisterInv, CancelledInv, SkipInv
<1>15. CASE UnlockServing(t)
  <2> USE <1>15 DEF UnlockServing
  <2>1. TicketsInv' BY DEF TicketsInv, OwnerInv, RegisterInv, SkipInv
  <2>2. OwnerInv' BY DEF TicketsInv, OwnerInv
  <2>3. RegisterInv' BY DEF TicketsInv, RegisterInv
  <2>4. CancelledInv' BY DEF TicketsInv, CancelledInv
  <2>5. SkipInv' BY DEF TicketsInv, RegisterInv, SkipInv
  <2> QED BY <2>1, <2>2, <2>3, <2>4, <2>5
<1>16. CASE AdvanceLoadOwner(t)
  BY <1>16 DEF AdvanceLoadOwner, TicketsInv, OwnerInv, RegisterInv, CancelledInv, SkipInv
<1>17. CASE AdvanceLoadServing(t)
  BY <1>17 DEF AdvanceLoadServing, TicketsInv, OwnerInv, RegisterInv, CancelledInv, SkipInv
<1>18. CASE AdvanceTest(t)
  <2> USE <1>18 DEF AdvanceTest
  <2>1. TicketsInv' BY DEF TicketsInv, OwnerInv, RegisterInv, SkipInv
  <2>2. OwnerInv' BY DEF TicketsInv, OwnerInv
  <2>3. RegisterInv' BY DEF TicketsInv, RegisterInv
  <2>4. CancelledInv' BY DEF TicketsInv, CancelledInv
  <2>5. SkipInv'
    <3>1. ASSUME Bit(serving) \in cancelled PROVE serving < next /\ Dead(serving)
      <4>1. PICK n \in serving..next - 1 : Bit(n) = Bit(serving) /\ Dead(n)
        BY <3>1, Zenon DEF CancelledInv
      <4>2. n = serving
        BY <4>1, BitInjective DEF TicketsInv
      <4> QED BY <4>1, <4>2
    <3> QED BY <3>1 DEF TicketsInv, SkipInv
  <2> QED BY <2>1, <2>2, <2>3, <2>4, <2>5
<1>19. CASE AdvanceLoad(t)
  BY <1>19 DEF AdvanceLoad, TicketsInv, OwnerInv, RegisterInv, CancelledInv, SkipInv
<1>20. CASE AdvanceClear(t)
  BY <1>20 DEF AdvanceClear, TicketsInv, OwnerInv, RegisterInv, CancelledInv, SkipInv
<1>21. CASE AdvanceExchange(t)
  <2> USE <1>21 DEF AdvanceExchange
  <2>1. TicketsInv' BY DEF TicketsInv, OwnerInv, RegisterInv, SkipInv
  <2>2. OwnerInv' BY DEF TicketsInv, OwnerInv
  <2>3. RegisterInv' BY DEF TicketsInv, RegisterInv
  <2>4. CancelledInv' BY DEF TicketsInv, SkipInv, CancelledInv
  <2>5. SkipInv' BY DEF TicketsInv, RegisterInv, SkipInv
  <2> QED BY <2>1, <2>2, <2>3, <2>4, <2>5
<1> QED BY NextCases, <1>1, <1>2, <1>3, <1>4, <1>5, <1>6, <1>7, <1>8, <1>9, <1>10, <1>11, <1>12, <1>13, <1>14, <1>15, <1>16, <1>17, <1>18, <1>19, <1>20, <1>21

\* The invariant is inductive.
LEMMA LockInductive == LockInv /\ [Next]_vars => LockInv'
<1> SUFFICES ASSUME LockInv, [Next]_vars PROVE LockInv'
  OBVIOUS
<1>1. CASE Next
  BY <1>1, TypeStep, InvStep DEF Next, LockInv
<1>2. CASE UNCHANGED vars
  BY <1>2 DEF vars, shared, LockInv, TypeOK, TicketsInv, OwnerInv, RegisterInv, CancelledInv,
              SkipInv, NoFault, Live, Dead, Holds, Served, Skips
<1> QED BY <1>1, <1>2

\* The inductive invariant of the ticket lock: who holds which ticket, what the
\* loaded copies can still mean, and which tickets a cancelled bit stands for.
THEOREM LockInvariant == Spec => []LockInv
<1>1. Init => LockInv
  BY WindowAssumption, BoundedAssumption, NoOwnerAssumption
  DEF Init, LockInv, TypeOK, Pc, TicketsInv, OwnerInv, RegisterInv, CancelledInv, SkipInv,
      NoFault, Live, Dead, Holds, Served, Skips
<1> QED BY <1>1, LockInductive, PTL DEF Spec

\* Two threads never hold the lock together, for any number of threads, any
\* window and any number of abandoned tickets.
THEOREM LockExcludes == Spec => []MutualExclusion
<1>1. LockInv => MutualExclusion
  BY DEF LockInv, OwnerInv, MutualExclusion
<1> QED BY <1>1, LockInvariant, PTL

\* claim, cancel and unlock never report a fault to a correct caller.
THEOREM LockFaultFree == Spec => []NoFault
<1>1. LockInv => NoFault
  BY DEF LockInv, OwnerInv
<1> QED BY <1>1, LockInvariant, PTL

\* advance_cancelled never steps over a ticket that is still in use.
THEOREM LockSkipsOnlyDead == Spec => []NoSkippedTicket
<1>1. LockInv => NoSkippedTicket
  BY DEF LockInv, TicketsInv, NoSkippedTicket
<1> QED BY <1>1, LockInvariant, PTL

-----------------------------------------------------------------------------
\* No thread in advance_cancelled is about to clear the bit of a ticket that is
\* a whole window old, whose bit may by now stand for a later ticket.
SkipsInWindow == \A t \in Thread : pc[t] = "advanceClear" => next - reg[t] <= Window

\* A ticket that has been handed out and not yet served is in use, or its bit is
\* set, or the thread that cleared the bit is about to move serving past it.
Accounted(n) ==
    \/ \E t \in Thread : Live(t) /\ reg[t] = n
    \/ Bit(n) \in cancelled
    \/ n = serving /\ \E t \in Thread : pc[t] = "advanceExchange" /\ reg[t] = n
AccountInv == NoOrphanedTicket /\ \A n \in serving..next - 1 : Accounted(n)

\* Every access of a thread keeps the outstanding tickets accounted for: taking a
\* ticket makes it a live one, cancel_ticket trades the live thread for the bit,
\* and advance_cancelled trades the bit for the exchange that passes the ticket.
\* The bit it clears is its own ticket's, because no other outstanding ticket of
\* the window has the same bit.
LEMMA AccountStep ==
  ASSUME LockInv, LockInv', AccountInv, SkipsInWindow, NEW t \in Thread,
         TryLoadServing(t) \/ ReserveLoadNext(t) \/ Step(t)
  PROVE  AccountInv'
<1> USE WindowAssumption, NoOwnerAssumption
<1> USE DEF LockInv, TypeOK, Pc, Goto, Continue, Advance, shared, Live, Holds, Served, Skips,
        InWindow, AccountInv, Accounted, NoOrphanedTicket, Advances
<1>1. CASE TryLoadServing(t)
  BY <1>1 DEF TryLoadServing
<1>2. CASE TryLoadNext(t)
  BY <1>2 DEF TryLoadNext
<1>3. CASE TryExchange(t)
  BY <1>3 DEF TryExchange, TicketsInv
<1>4. CASE ReserveLoadNext(t)
  BY <1>4 DEF ReserveLoadNext
<1>5. CASE ReserveLoadServing(t)
  BY <1>5 DEF ReserveLoadServing
<1>6. CASE ReserveRecheck(t)
  BY <1>6 DEF ReserveRecheck
<1>7. CASE ReserveExchange(t)
  BY <1>7 DEF ReserveExchange, TicketsInv
<1>8. CASE SpinServed(t)
  BY <1>8 DEF SpinServed
<1>9. CASE SpinGiveUp(t)
  BY <1>9 DEF SpinGiveUp
<1>10. CASE Claim(t)
  BY <1>10 DEF Claim, OwnerInv, NoFault
<1>11. CASE CancelLoadServing(t)
  BY <1>11 DEF CancelLoadServing, OwnerInv, NoFault
<1>12. CASE CancelSet(t)
  BY <1>12 DEF CancelSet
<1>13. CASE UnlockLoadServing(t)
  BY <1>13 DEF UnlockLoadServing, OwnerInv, NoFault
<1>14. CASE UnlockOwner(t)
  BY <1>14 DEF UnlockOwner, OwnerInv, NoFault
<1>15. CASE UnlockServing(t)
  BY <1>15 DEF UnlockServing, TicketsInv
<1>16. CASE AdvanceLoadOwner(t)
  BY <1>16 DEF AdvanceLoadOwner, OwnerInv, TicketsInv
<1>17. CASE AdvanceLoadServing(t)
  BY <1>17 DEF AdvanceLoadServing
<1>18. CASE AdvanceTest(t)
  BY <1>18 DEF AdvanceTest
<1>19. CASE AdvanceLoad(t)
  BY <1>19 DEF AdvanceLoad
<1>20. CASE AdvanceClear(t)
  <2>1. CASE cancelled # bits[t]
    BY <1>20, <2>1 DEF AdvanceClear
  <2>2. CASE cancelled = bits[t]
    <3>1. /\ pc[t] = "advanceClear" /\ cancelled' = cancelled \ {Bit(reg[t])}
          /\ pc' = [pc EXCEPT ![t] = "advanceExchange"]
          /\ UNCHANGED <<next, serving, owner, bounded, reg>>
      BY <1>20, <2>2 DEF AdvanceClear
    <3>2. reg[t] \in Nat /\ reg[t] <= serving /\ next - reg[t] <= Window
      BY <3>1 DEF RegisterInv, SkipsInWindow
    <3>3. ASSUME NEW n \in serving..next - 1, Bit(n) = Bit(reg[t]) PROVE n = reg[t] /\ n = serving
      <4>1. n \in Nat /\ reg[t] <= n /\ n - reg[t] < Window
        BY <3>2
      <4>2. n = reg[t]
        BY <3>2, <3>3, <4>1, BitInjective
      <4> QED BY <3>2, <4>2
    <3>4. ASSUME NEW n \in serving..next - 1 PROVE Accounted(n)'
      <4>1. CASE \E u \in Thread : Live(u) /\ reg[u] = n
        BY <3>1, <4>1
      <4>2. CASE Bit(n) \in cancelled /\ Bit(n) # Bit(reg[t])
        BY <3>1, <4>2
      <4>3. CASE Bit(n) = Bit(reg[t])
        BY <3>1, <3>3, <4>3
      <4>4. CASE n = serving /\ \E u \in Thread : pc[u] = "advanceExchange" /\ reg[u] = n
        BY <3>1, <4>4
      <4> QED BY <4>1, <4>2, <4>3, <4>4
    <3>5. NoOrphanedTicket'
      BY <3>1
    <3> QED BY <3>1, <3>4, <3>5
  <2> QED BY <2>1, <2>2
<1>21. CASE AdvanceExchange(t)
  BY <1>21 DEF AdvanceExchange
<1> QED BY NextCases, <1>1, <1>2, <1>3, <1>4, <1>5, <1>6, <1>7, <1>8, <1>9, <1>10, <1>11,
         <1>12, <1>13, <1>14, <1>15, <1>16, <1>17, <1>18, <1>19, <1>20, <1>21

\* AccountInv is inductive relative to LockInv, as long as every bit is cleared
\* within the window of its ticket.
LEMMA AccountInductive ==
  LockInv /\ AccountInv /\ SkipsInWindow /\ [Next]_vars => AccountInv'
<1> SUFFICES ASSUME LockInv, AccountInv, SkipsInWindow, [Next]_vars PROVE AccountInv'
  OBVIOUS
<1>1. LockInv'
  BY LockInductive
<1>2. CASE Next
  BY <1>1, <1>2, AccountStep, Zenon DEF Next
<1>3. CASE UNCHANGED vars
  BY <1>3 DEF vars, shared, AccountInv, Accounted, NoOrphanedTicket, Advances, Live, Skips
<1> QED BY <1>2, <1>3

\* unlock and advance_cancelled leave no ticket behind: in every execution in
\* which advance_cancelled clears each bit before the counter has come a whole
\* window past the ticket it stands for, the ticket being served always has
\* somebody who will move serving on. Without that condition the property fails:
\* the run TicketBitReuse shows it.
THEOREM LockAccountsTickets == Spec /\ []SkipsInWindow => []NoOrphanedTicket
<1>1. Init => AccountInv
  BY DEF Init, AccountInv, NoOrphanedTicket
<1>2. AccountInv => NoOrphanedTicket
  BY DEF AccountInv
<1> QED BY <1>1, <1>2, LockInvariant, AccountInductive, PTL DEF Spec

\* The condition is met, and no ticket is orphaned, until the first Window tickets
\* have been handed out: no bit of the bitmap has been used twice by then.
THEOREM LockFirstWindow == MaxTicket <= Window => (Spec => []NoOrphanedTicket)
<1> DEFINE B == next <= MaxTicket
<1>1. Init => B
  BY MaxTicketAssumption DEF Init
<1>2. LockInv /\ B /\ [Next]_vars => B'
  <2> SUFFICES ASSUME LockInv, B, [Next]_vars PROVE B'
    OBVIOUS
  <2>1. next' = next \/ (next' = next + 1 /\ next < MaxTicket)
    BY DEF Next, vars, shared, Step, TryLoadServing, TryLoadNext, TryExchange, ReserveLoadNext,
       ReserveLoadServing, ReserveRecheck, ReserveExchange, SpinServed, SpinGiveUp, Claim,
       CancelLoadServing, CancelSet, UnlockLoadServing, UnlockOwner, UnlockServing,
       AdvanceLoadOwner, AdvanceLoadServing, AdvanceTest, AdvanceLoad, AdvanceClear,
       AdvanceExchange
  <2> QED BY <2>1, MaxTicketAssumption DEF LockInv, TypeOK
<1>3. ASSUME MaxTicket <= Window PROVE LockInv /\ B => SkipsInWindow
  BY <1>3, MaxTicketAssumption, WindowAssumption DEF LockInv, TypeOK, SkipsInWindow
<1>4. CASE MaxTicket <= Window
  <2>1. LockInv /\ B => SkipsInWindow
    BY <1>3, <1>4
  <2>2. Spec => []SkipsInWindow
    BY <1>1, <1>2, <2>1, LockInvariant, PTL DEF Spec
  <2>3. Spec => []NoOrphanedTicket
    BY <2>2, LockAccountsTickets, PTL
  <2> QED BY <2>3
<1> QED BY <1>4

-----------------------------------------------------------------------------
(* The order of the line. *)
INSTANCE FiniteSetTheorems

\* Tickets r are distinct on the finite set L.
Distinct(L, r) ==
    /\ IsFiniteSet(L) /\ \A t \in L : r[t] \in Nat
    /\ \A t, u \in L : r[t] = r[u] => t = u

\* A later ticket has a higher rank, and ranks count from one.
LEMMA Ranks ==
  ASSUME NEW L, NEW r, Distinct(L, r)
  PROVE  /\ Cardinality(L) \in Nat
         /\ \A t \in L : Rank(L, r, t) \in 1..Cardinality(L)
         /\ \A t, u \in L : r[t] < r[u] => Rank(L, r, t) < Rank(L, r, u)
         /\ \A t, u \in L : Rank(L, r, t) = Rank(L, r, u) => t = u
<1> DEFINE N == Cardinality(L)
           Below(t) == {u \in L : r[u] <= r[t]}
<1>1. IsFiniteSet(L) /\ N \in Nat
  BY FS_CardinalityType DEF Distinct
<1>2. \A t \in L : r[t] \in Nat
  BY DEF Distinct
<1>3. ASSUME NEW t \in L
      PROVE  /\ IsFiniteSet(Below(t)) /\ Cardinality(Below(t)) \in 1..N
  <2>1. Below(t) \in SUBSET L /\ t \in Below(t)
    BY <1>2
  <2> HIDE DEF Below
  <2>2. IsFiniteSet(Below(t)) /\ Cardinality(Below(t)) <= N /\ Cardinality(Below(t)) \in Nat
    BY <1>1, <2>1, FS_Subset, FS_CardinalityType, Zenon
  <2>3. Cardinality(Below(t)) # 0
    BY <2>1, <2>2, FS_EmptySet
  <2> QED BY <1>1, <2>2, <2>3
<1>4. ASSUME NEW t \in L, NEW u \in L, r[t] < r[u]
      PROVE  Cardinality(Below(t)) < Cardinality(Below(u))
  <2>1. Below(t) \in SUBSET Below(u) /\ u \in Below(u) /\ u \notin Below(t)
    <3>1. \A v \in L : r[v] <= r[t] => r[v] <= r[u]
      BY <1>2, <1>4
    <3>2. r[u] <= r[u] /\ ~(r[u] <= r[t])
      BY <1>2, <1>4
    <3> QED BY <3>1, <3>2, Zenon
  <2>2. Below(t) # Below(u)
    BY <2>1, Zenon
  <2>3. IsFiniteSet(Below(u)) /\ Cardinality(Below(u)) \in Nat /\ Cardinality(Below(t)) \in Nat
    BY <1>3
  <2> HIDE DEF Below
  <2>4. Cardinality(Below(t)) <= Cardinality(Below(u)) /\ Cardinality(Below(u)) # Cardinality(Below(t))
    BY <2>1, <2>2, <2>3, FS_Subset, Zenon
  <2> QED BY <2>3, <2>4
<1>5. \A t : Rank(L, r, t) = Cardinality(Below(t))
  BY Zenon DEF Rank
<1> HIDE DEF Below
<1>6. \A t \in L : Rank(L, r, t) \in 1..N
  BY <1>3, <1>5, Zenon
<1>7. \A t, u \in L : r[t] < r[u] => Rank(L, r, t) < Rank(L, r, u)
  BY <1>4, <1>5, Zenon
<1>8. ASSUME NEW t \in L, NEW u \in L, Rank(L, r, t) = Rank(L, r, u) PROVE t = u
  <2>1. Rank(L, r, t) \in Nat
    BY <1>1, <1>6
  <2>2. ~(r[t] < r[u]) /\ ~(r[u] < r[t])
    BY <1>7, <1>8, <2>1
  <2>3. r[t] = r[u]
    BY <1>2, <2>2
  <2> QED BY <2>3 DEF Distinct
<1> QED BY <1>1, <1>6, <1>7, <1>8

\* InOrder lists L: the k-th entry is the thread of rank k.
LEMMA Ordered ==
  ASSUME NEW L, NEW r, Distinct(L, r)
  PROVE  /\ DOMAIN InOrder(L, r) = 1..Cardinality(L)
         /\ \A k \in 1..Cardinality(L) : /\ InOrder(L, r)[k] \in L
                                         /\ Rank(L, r, InOrder(L, r)[k]) = k
         /\ \A t \in L : InOrder(L, r)[Rank(L, r, t)] = t
<1> DEFINE N == Cardinality(L)
           R(t) == Rank(L, r, t)
           q == InOrder(L, r)
           f == [t \in L |-> R(t)]
<1>1. /\ N \in Nat /\ \A t \in L : R(t) \in 1..N
      /\ \A t, u \in L : R(t) = R(u) => t = u
  BY Ranks, Zenon
<1> HIDE DEF R
<1>2. f \in Injection(L, 1..N)
  BY <1>1 DEF Injection, IsInjective
<1>3. IsFiniteSet(1..N) /\ Cardinality(1..N) = N
  BY <1>1, FS_Interval
<1> HIDE DEF f
<1>4. f \in Surjection(L, 1..N)
  BY <1>2, <1>3, FS_Injection
<1>5. \A k \in 1..N : \E t \in L : R(t) = k
  BY <1>4, Zenon DEF Surjection, f
<1>6. q = [k \in 1..N |-> CHOOSE t \in L : R(t) = k]
  BY DEF InOrder, R
<1> HIDE DEF q, N
<1>7. \A k \in 1..N : q[k] \in L /\ R(q[k]) = k
  <2> TAKE k \in 1..N
  <2>1. \E t \in L : R(t) = k
    BY <1>5, Zenon
  <2>2. q[k] = CHOOSE t \in L : R(t) = k
    BY <1>6, Zenon
  <2> QED BY <2>1, <2>2, Zenon
<1>8. \A t \in L : q[R(t)] = t
  BY <1>1, <1>7, Zenon
<1>9. DOMAIN q = 1..N
  BY <1>6, Zenon
<1> QED BY <1>7, <1>8, <1>9, Zenon DEF q, N, R

\* The order depends on the tickets of L only.
LEMMA OrderSame ==
  ASSUME NEW L, NEW r, NEW v, \A t \in L : v[t] = r[t]
  PROVE  InOrder(L, v) = InOrder(L, r)
<1>1. \A t \in L : {u \in L : v[u] <= v[t]} = {u \in L : r[u] <= r[t]}
  BY Zenon
<1>2. \A t \in L : Rank(L, v, t) = Rank(L, r, t)
  BY <1>1, Zenon DEF Rank
<1>3. \A k : (CHOOSE t \in L : Rank(L, v, t) = k) = (CHOOSE t \in L : Rank(L, r, t) = k)
  BY <1>2
<1> QED BY <1>3 DEF InOrder

\* The sequence InOrder gives.
LEMMA OrderSeq ==
  ASSUME NEW L, NEW r, Distinct(L, r)
  PROVE  /\ InOrder(L, r) \in Seq(L) /\ Len(InOrder(L, r)) = Cardinality(L)
         /\ InOrder(L, r) = [k \in 1..Cardinality(L) |-> InOrder(L, r)[k]]
<1> DEFINE q == InOrder(L, r)
           N == Cardinality(L)
<1>1. N \in Nat
  BY Ranks, Zenon
<1>2. \A k \in 1..N : q[k] \in L
  BY Ordered, Zenon
<1>3. q = [k \in 1..N |-> q[k]]
  BY DEF InOrder
<1> HIDE DEF q, N
<1>4. q \in [1..N -> L]
  BY <1>2, <1>3
<1>5. q \in Seq(L) /\ Len(q) = N
  BY <1>1, <1>4
<1> QED BY <1>3, <1>5 DEF q, N

\* Thread x holds a later ticket than everybody in L.
Highest(L, r, x) == x \notin L /\ r[x] \in Nat /\ \A t \in L : r[t] < r[x]

\* A thread with a later ticket than everybody's is appended.
LEMMA OrderEnter ==
  ASSUME NEW L, NEW r, Distinct(L, r), NEW x, Highest(L, r, x)
  PROVE  InOrder(L \cup {x}, r) = Append(InOrder(L, r), x)
<1> DEFINE M == L \cup {x}
           N == Cardinality(L)
           q == InOrder(L, r)
           p == InOrder(M, r)
<1>0. x \notin L /\ r[x] \in Nat /\ \A t \in L : r[t] < r[x]
  BY DEF Highest
<1>1. /\ IsFiniteSet(L) /\ \A t \in L : r[t] \in Nat
  BY DEF Distinct
<1>2. Distinct(M, r)
  <2>1. IsFiniteSet(M)
    BY <1>0, <1>1, FS_AddElement
  <2>2. \A t \in M : r[t] \in Nat
    BY <1>0, <1>1
  <2>3. \A t, u \in M : r[t] = r[u] => t = u
    BY <1>0, <1>1 DEF Distinct
  <2> QED BY <2>1, <2>2, <2>3, Zenon DEF Distinct
<1>3. Cardinality(M) = N + 1 /\ N \in Nat
  BY <1>0, <1>1, FS_AddElement, FS_CardinalityType
<1>4. \A t \in L : Rank(M, r, t) = Rank(L, r, t)
  <2> TAKE t \in L
  <2>1. {u \in M : r[u] <= r[t]} = {u \in L : r[u] <= r[t]}
    BY <1>0, <1>1
  <2> QED BY <2>1, Zenon DEF Rank
<1>5. Rank(M, r, x) = N + 1
  <2>1. {u \in M : r[u] <= r[x]} = M
    BY <1>0, <1>1
  <2> QED BY <1>3, <2>1, Zenon DEF Rank
<1>6. \A t \in M : p[Rank(M, r, t)] = t
  BY <1>2, Ordered, Zenon
<1>7. \A k \in 1..N : q[k] \in L /\ Rank(L, r, q[k]) = k
  BY Ordered, Zenon
<1>8. q \in Seq(L) /\ Len(q) = N /\ p \in Seq(M) /\ Len(p) = N + 1
  BY <1>2, <1>3, OrderSeq
<1> HIDE DEF q, p, M, N
<1>9. \A k \in 1..N : p[k] = q[k]
  BY <1>4, <1>6, <1>7, Zenon DEF M
<1>10. p[N + 1] = x
  BY <1>5, <1>6, Zenon DEF M
<1>11. p = Append(q, x)
  <2> DEFINE a == Append(q, x)
  <2>0. q \in Seq(M) /\ x \in M
    BY <1>8 DEF M
  <2>1. a \in Seq(M) /\ Len(a) = N + 1 /\ \A k \in 1..(N + 1) : a[k] = IF k <= N THEN q[k] ELSE x
    BY <1>3, <1>8, <2>0
  <2> HIDE DEF a
  <2>2. \A k \in 1..(N + 1) : p[k] = a[k]
    BY <1>3, <1>9, <1>10, <2>1
  <2>3. p = [k \in 1..(N + 1) |-> p[k]] /\ a = [k \in 1..(N + 1) |-> a[k]]
    BY <1>3, <1>8, <2>1
  <2>4. p = a
    BY <2>2, <2>3
  <2> QED BY <2>4 DEF a
<1> QED BY <1>11 DEF p, q, M

\* Sequence p is q without its entry i: those behind it have moved up by one.
Without(p, q, i) ==
    /\ Len(p) = Len(q) - 1
    /\ \A k \in 1..(Len(q) - 1) : p[k] = IF k < i THEN q[k] ELSE q[k + 1]

\* The order without one thread.
LEMMA OrderWithout ==
  ASSUME NEW L, NEW r, Distinct(L, r), NEW x \in L
  PROVE  /\ InOrder(L, r) \in Seq(L) /\ InOrder(L \ {x}, r) \in Seq(L)
         /\ Rank(L, r, x) \in 1..Len(InOrder(L, r)) /\ InOrder(L, r)[Rank(L, r, x)] = x
         /\ Without(InOrder(L \ {x}, r), InOrder(L, r), Rank(L, r, x))
<1> DEFINE M == L \ {x}
           N == Cardinality(L)
           q == InOrder(L, r)
           p == InOrder(M, r)
           i == Rank(L, r, x)
<1>1. /\ IsFiniteSet(L) /\ \A t \in L : r[t] \in Nat
  BY DEF Distinct
<1>2. IsFiniteSet(M) /\ Cardinality(M) = N - 1 /\ N \in Nat
  BY <1>1, FS_RemoveElement, FS_CardinalityType
<1>3. Distinct(M, r)
  BY <1>1, <1>2 DEF Distinct
<1>4. i \in 1..N /\ q[i] = x
  BY Ranks, Ordered, Zenon
<1>5. ASSUME NEW t \in M
      PROVE  Rank(M, r, t) = IF Rank(L, r, t) < i THEN Rank(L, r, t) ELSE Rank(L, r, t) - 1
  <2> DEFINE A == {u \in L : r[u] <= r[t]}
             B == {u \in M : r[u] <= r[t]}
  <2>1. Rank(L, r, t) = Cardinality(A) /\ Rank(M, r, t) = Cardinality(B)
    BY Zenon DEF Rank
  <2>2. t \in L /\ t # x /\ r[t] # r[x]
    BY DEF Distinct
  <2>3. /\ Rank(L, r, t) \in Nat /\ i \in Nat
        /\ r[t] < r[x] => Rank(L, r, t) < i
        /\ r[x] < r[t] => i < Rank(L, r, t)
    <3>1. /\ Rank(L, r, t) \in 1..N
          /\ r[t] < r[x] => Rank(L, r, t) < i
          /\ r[x] < r[t] => i < Rank(L, r, t)
      BY <2>2, Ranks, Zenon
    <3> QED BY <1>2, <1>4, <3>1
  <2>4. IsFiniteSet(A)
    <3>1. A \in SUBSET L
      OBVIOUS
    <3> HIDE DEF A
    <3> QED BY <1>1, <3>1, FS_Subset, Zenon
  <2>5. CASE r[t] < r[x]
    <3>1. A = B
      BY <1>1, <2>2, <2>5
    <3> QED BY <2>1, <2>3, <2>5, <3>1
  <2>6. CASE r[x] < r[t]
    <3>1. B = A \ {x} /\ x \in A
      BY <1>1, <2>2, <2>6
    <3> HIDE DEF A, B
    <3>2. Cardinality(B) = Cardinality(A) - 1
      BY <2>4, <3>1, FS_RemoveElement
    <3> QED BY <2>1, <2>3, <2>6, <3>2
  <2>7. r[t] < r[x] \/ r[x] < r[t]
    BY <1>1, <2>2
  <2> QED BY <2>5, <2>6, <2>7, Zenon
<1>6. \A t \in M : p[Rank(M, r, t)] = t
  BY <1>3, Ordered, Zenon
<1>7. \A k \in 1..N : q[k] \in L /\ Rank(L, r, q[k]) = k
  BY Ordered, Zenon
<1>8. q \in Seq(L) /\ Len(q) = N /\ p \in Seq(M) /\ Len(p) = N - 1
  BY <1>2, <1>3, OrderSeq
<1> HIDE DEF q, p, N, i
<1>9. ASSUME NEW k \in 1..(N - 1) PROVE p[k] = IF k < i THEN q[k] ELSE q[k + 1]
  <2>1. CASE k < i
    <3>1. k \in 1..N /\ k # i
      BY <1>2, <1>4, <2>1
    <3>2. q[k] \in L /\ Rank(L, r, q[k]) = k /\ q[k] # x
      BY <1>4, <1>7, <3>1 DEF i
    <3>3. Rank(M, r, q[k]) = k
      BY <1>5, <2>1, <3>2
    <3> QED BY <1>6, <2>1, <3>2, <3>3
  <2>2. CASE ~(k < i)
    <3>1. k + 1 \in 1..N /\ k + 1 # i /\ ~(k + 1 < i) /\ (k + 1) - 1 = k
      BY <1>2, <1>4, <2>2
    <3>2. q[k + 1] \in L /\ Rank(L, r, q[k + 1]) = k + 1 /\ q[k + 1] # x
      BY <1>4, <1>7, <3>1 DEF i
    <3>3. Rank(M, r, q[k + 1]) = k
      BY <1>5, <3>1, <3>2
    <3> QED BY <1>6, <2>2, <3>2, <3>3
  <2> QED BY <2>1, <2>2
<1>10. p \in Seq(L)
  BY <1>8
<1>11. i \in 1..Len(q) /\ Without(p, q, i)
  BY <1>4, <1>8, <1>9 DEF Without
<1> QED BY <1>4, <1>8, <1>10, <1>11 DEF q, p, i

\* A thread that gives up is taken out.
LEMMA OrderLeave ==
  ASSUME NEW L, NEW r, Distinct(L, r), NEW x \in L
  PROVE  \E i \in DOMAIN InOrder(L, r) :
            /\ InOrder(L, r)[i] = x
            /\ InOrder(L \ {x}, r) = Fifo!Drop(InOrder(L, r), i)
<1> DEFINE q == InOrder(L, r)
           p == InOrder(L \ {x}, r)
           i == Rank(L, r, x)
           N == Len(q)
<1>0. /\ q \in Seq(L) /\ p \in Seq(L) /\ i \in 1..Len(q) /\ q[i] = x /\ Without(p, q, i)
  BY OrderWithout, Zenon
<1>1. /\ N \in Nat /\ i \in 1..N /\ q[i] = x
      /\ q \in Seq(L) /\ Len(q) = N /\ p \in Seq(L) /\ Len(p) = N - 1
      /\ \A k \in 1..(N - 1) : p[k] = IF k < i THEN q[k] ELSE q[k + 1]
  <2> HIDE DEF q, p, i
  <2> QED BY <1>0 DEF Without
<1> HIDE DEF q, p, N, i
<1> DEFINE a == SubSeq(q, 1, i - 1)
           b == SubSeq(q, i + 1, Len(q))
           c == a \o b
<1>2. /\ a \in Seq(L) /\ Len(a) = i - 1 /\ \A k \in 1..(i - 1) : a[k] = q[k]
  BY <1>1
<1>3. /\ b \in Seq(L) /\ Len(b) = N - i /\ \A k \in 1..(N - i) : b[k] = q[i + k]
  BY <1>1
<1> HIDE DEF a, b
<1>c. /\ c \in Seq(L) /\ Len(c) = Len(a) + Len(b)
      /\ \A k \in 1..Len(a) : c[k] = a[k]
      /\ \A k \in 1..Len(b) : c[Len(a) + k] = b[k]
  BY <1>2, <1>3
<1> HIDE DEF c
<1>4. /\ c \in Seq(L) /\ Len(c) = N - 1
      /\ \A k \in 1..(N - 1) : c[k] = IF k < i THEN q[k] ELSE q[k + 1]
  <2>1. Len(c) = N - 1
    BY <1>1, <1>2, <1>3, <1>c
  <2>2. ASSUME NEW k \in 1..(N - 1), k < i PROVE c[k] = q[k]
    <3>1. k \in 1..Len(a) /\ k \in 1..(i - 1)
      BY <1>1, <1>2, <2>2
    <3> QED BY <1>2, <1>c, <3>1, Zenon
  <2>3. ASSUME NEW k \in 1..(N - 1), ~(k < i) PROVE c[k] = q[k + 1]
    <3> DEFINE j == k - (i - 1)
    <3>1. j \in 1..(N - i) /\ j \in 1..Len(b) /\ Len(a) + j = k /\ i + j = k + 1
      BY <1>1, <1>2, <1>3, <2>3
    <3> HIDE DEF j
    <3>2. c[Len(a) + j] = b[j] /\ b[j] = q[i + j]
      BY <1>3, <1>c, <3>1, Zenon
    <3> QED BY <3>1, <3>2, Zenon
  <2> QED BY <1>c, <2>1, <2>2, <2>3
<1>5. p = c
  <2>1. \A k \in 1..(N - 1) : p[k] = c[k]
    BY <1>1, <1>4
  <2>2. p = [k \in 1..(N - 1) |-> p[k]] /\ c = [k \in 1..(N - 1) |-> c[k]]
    BY <1>1, <1>4
  <2> QED BY <2>1, <2>2
<1>6. p = Fifo!Drop(q, i)
  BY <1>5 DEF Fifo!Drop, a, b, c
<1>7. i \in DOMAIN q
  BY <1>1
<1> QED BY <1>1, <1>6, <1>7 DEF q, p

\* The thread with the first ticket is the head.
LEMMA OrderGrant ==
  ASSUME NEW L, NEW r, Distinct(L, r), NEW x \in L,
         \A t \in L : r[x] <= r[t]
  PROVE  /\ InOrder(L, r) # <<>> /\ Head(InOrder(L, r)) = x
         /\ InOrder(L \ {x}, r) = Tail(InOrder(L, r))
<1> DEFINE q == InOrder(L, r)
           p == InOrder(L \ {x}, r)
           i == Rank(L, r, x)
           N == Len(q)
<1>0. /\ q \in Seq(L) /\ p \in Seq(L) /\ i \in 1..Len(q) /\ q[i] = x /\ Without(p, q, i)
  BY OrderWithout, Zenon
<1>1. /\ N \in Nat /\ i \in 1..N /\ q[i] = x
      /\ q \in Seq(L) /\ Len(q) = N /\ p \in Seq(L) /\ Len(p) = N - 1
      /\ \A k \in 1..(N - 1) : p[k] = IF k < i THEN q[k] ELSE q[k + 1]
  <2> HIDE DEF q, p, i
  <2> QED BY <1>0 DEF Without
<1>2. i = 1
  <2>1. {u \in L : r[u] <= r[x]} = {x}
    BY DEF Distinct
  <2> QED BY <2>1, FS_Singleton DEF Rank
<1> HIDE DEF q, p, N, i
<1> DEFINE c == Tail(q)
<1>3. q # <<>> /\ Head(q) = x
  BY <1>1, <1>2
<1>4. c \in Seq(L) /\ Len(c) = N - 1 /\ \A k \in 1..(N - 1) : c[k] = q[k + 1]
  BY <1>1, <1>2
<1> HIDE DEF c
<1>5. p = c
  <2>1. \A k \in 1..(N - 1) : p[k] = c[k]
    BY <1>1, <1>2, <1>4
  <2>2. p = [k \in 1..(N - 1) |-> p[k]] /\ c = [k \in 1..(N - 1) |-> c[k]]
    BY <1>1, <1>4
  <2> QED BY <2>1, <2>2
<1> QED BY <1>3, <1>5 DEF q, p, c

-----------------------------------------------------------------------------
(* The refinement of FifoLock. *)

\* The threads in line have distinct tickets, and the owner word names the holder.
LEMMA LineDistinct ==
  ASSUME LockInv
  PROVE  Distinct(Line, reg) /\ Holder = owner
<1> DEFINE f == [t \in Line |-> reg[t]]
           W == serving..next - 1
<1>1. /\ \A t \in Line : t \in Thread /\ Live(t) /\ reg[t] \in Nat
      /\ \A t \in Line : reg[t] \in W
      /\ \A t, u \in Line : reg[t] = reg[u] => t = u
  BY DEF Line, Live, LockInv, TypeOK, TicketsInv
<1>2. f \in Injection(Line, W)
  BY <1>1 DEF Injection, IsInjective
<1>3. IsFiniteSet(W)
  <2>1. serving \in Int /\ next - 1 \in Int
    BY DEF LockInv, TypeOK
  <2> QED BY <2>1, FS_Interval
<1>4. IsFiniteSet(Line)
  BY <1>2, <1>3, FS_Injection
<1>5. Holder = owner
  <2>1. /\ owner \in Thread \cup {NoOwner} /\ \A t \in Thread : Holds(t) <=> owner = t
    BY DEF LockInv, TypeOK, OwnerInv
  <2> QED BY <2>1, NoOwnerAssumption DEF Holder
<1> QED BY <1>1, <1>4, <1>5 DEF Distinct

\* What one access of the lock does to the line and to the owner word: nothing
\* (Stays), or try_acquire and reserve_ticket put the thread at the end of the line
\* (Enters), a bounded wait takes it out (Leaves), the owner exchange grants it the
\* lock (Granted), unlock gives the lock up (Releases).
LineKept(t) == Line' = Line /\ \A u \in Line : reg'[u] = reg[u]
Stays(t) == LineKept(t) /\ owner' = owner
Enters(t) ==
    /\ t \notin Line /\ Line' = Line \cup {t} /\ reg' = reg /\ \A u \in Line : reg[u] < reg[t]
    /\ owner' = owner /\ owner # t
Leaves(t) == t \in Line /\ Line' = Line \ {t} /\ reg' = reg /\ owner' = owner
Granted(t) ==
    /\ t \in Line /\ Line' = Line \ {t} /\ reg' = reg /\ \A u \in Line : reg[t] <= reg[u]
    /\ owner = NoOwner /\ owner' = t
Releases(t) == LineKept(t) /\ owner # NoOwner /\ owner' = NoOwner

\* Every access of a thread does one of these five things. Granted needs that the
\* owner word is free and that no thread in line has an earlier ticket than the one
\* being served; Enters that a new ticket is later than every ticket in line.
LEMMA LineStep ==
  ASSUME LockInv, LockInv', NEW t \in Thread, TryLoadServing(t) \/ ReserveLoadNext(t) \/ Step(t)
  PROVE  Stays(t) \/ Enters(t) \/ Leaves(t) \/ Granted(t) \/ Releases(t)
<1> USE NoOwnerAssumption
<1> USE DEF LockInv, TypeOK, Pc, Goto, Continue, Advance, shared, Line, LineKept
<1>1. CASE TryLoadServing(t)
  BY <1>1 DEF TryLoadServing, Stays
<1>2. CASE TryLoadNext(t)
  BY <1>2 DEF TryLoadNext, Stays
<1>3. CASE TryExchange(t)
  <2>1. CASE next = reg[t]
    BY <1>3, <2>1 DEF TryExchange, Enters, TicketsInv, OwnerInv, Live, Holds
  <2>2. CASE next # reg[t]
    BY <1>3, <2>2 DEF TryExchange, Stays
  <2> QED BY <2>1, <2>2
<1>4. CASE ReserveLoadNext(t)
  BY <1>4 DEF ReserveLoadNext, Stays
<1>5. CASE ReserveLoadServing(t)
  BY <1>5 DEF ReserveLoadServing, Stays
<1>6. CASE ReserveRecheck(t)
  BY <1>6 DEF ReserveRecheck, Stays
<1>7. CASE ReserveExchange(t)
  <2>1. CASE next = reg[t]
    BY <1>7, <2>1 DEF ReserveExchange, Enters, TicketsInv, OwnerInv, Live, Holds
  <2>2. CASE next # reg[t]
    BY <1>7, <2>2 DEF ReserveExchange, Stays
  <2> QED BY <2>1, <2>2
<1>8. CASE SpinServed(t)
  BY <1>8 DEF SpinServed, Stays
<1>9. CASE SpinGiveUp(t)
  <2>1. CASE pc[t] = "spin"
    BY <1>9, <2>1 DEF SpinGiveUp, Stays
  <2>2. CASE pc[t] # "spin"
    BY <1>9, <2>2 DEF SpinGiveUp, Leaves
  <2> QED BY <2>1, <2>2
<1>10. CASE Claim(t)
  BY <1>10 DEF Claim, Granted, TicketsInv, OwnerInv, NoFault, Live, Served
<1>11. CASE CancelLoadServing(t)
  BY <1>11 DEF CancelLoadServing, Stays
<1>12. CASE CancelSet(t)
  BY <1>12 DEF CancelSet, Stays
<1>13. CASE UnlockLoadServing(t)
  BY <1>13 DEF UnlockLoadServing, Stays
<1>14. CASE UnlockOwner(t)
  BY <1>14 DEF UnlockOwner, Releases, OwnerInv, Holds
<1>15. CASE UnlockServing(t)
  BY <1>15 DEF UnlockServing, Stays
<1>16. CASE AdvanceLoadOwner(t)
  BY <1>16 DEF AdvanceLoadOwner, Stays
<1>17. CASE AdvanceLoadServing(t)
  BY <1>17 DEF AdvanceLoadServing, Stays
<1>18. CASE AdvanceTest(t)
  BY <1>18 DEF AdvanceTest, Stays
<1>19. CASE AdvanceLoad(t)
  BY <1>19 DEF AdvanceLoad, Stays
<1>20. CASE AdvanceClear(t)
  BY <1>20 DEF AdvanceClear, Stays
<1>21. CASE AdvanceExchange(t)
  BY <1>21 DEF AdvanceExchange, Stays
<1> QED BY NextCases, <1>1, <1>2, <1>3, <1>4, <1>5, <1>6, <1>7, <1>8, <1>9, <1>10, <1>11, <1>12, <1>13, <1>14, <1>15, <1>16, <1>17, <1>18, <1>19, <1>20, <1>21

\* Every access of a thread is a step of the first-in first-out lock, or leaves it alone.
LEMMA FifoStep ==
  ASSUME LockInv, LockInv', NEW t \in Thread, TryLoadServing(t) \/ ReserveLoadNext(t) \/ Step(t)
  PROVE  [Fifo!Next]_(Fifo!fifoVars)
<1> DEFINE q == InOrder(Line, reg)
<1>1. Distinct(Line, reg) /\ Holder = owner
  BY LineDistinct
<1>2. Holder' = owner'
  <2>1. /\ owner' \in Thread \cup {NoOwner} /\ \A u \in Thread : Holds(u)' <=> owner' = u
    BY DEF LockInv, TypeOK, OwnerInv
  <2> QED BY <2>1, NoOwnerAssumption DEF Holder
<1>3. q' = InOrder(Line', reg')
  BY Zenon
<1>4. ASSUME LineKept(t) PROVE q' = q
  <2>1. InOrder(Line, reg') = q
    BY <1>4, OrderSame, Zenon DEF LineKept
  <2> QED BY <1>3, <1>4, <2>1, Zenon DEF LineKept
<1>5. CASE Stays(t)
  <2>1. q' = q /\ Holder' = Holder
    BY <1>1, <1>2, <1>4, <1>5, Zenon DEF Stays
  <2> HIDE DEF q
  <2> QED BY <2>1 DEF Fifo!fifoVars, q
<1>6. CASE Releases(t)
  <2>1. q' = q /\ Holder # NoOwner /\ Holder' = NoOwner
    BY <1>1, <1>2, <1>4, <1>6, Zenon DEF Releases
  <2>2. Fifo!Release
    BY <2>1, Zenon DEF Fifo!Release
  <2> QED BY <2>2, Zenon DEF Fifo!Next
<1>7. CASE Enters(t)
  <2>1. reg[t] \in Nat
    BY DEF LockInv, TypeOK
  <2>2. InOrder(Line \cup {t}, reg) = Append(q, t)
    <3>1. Highest(Line, reg, t)
      BY <1>7, <2>1, Zenon DEF Enters, Highest
    <3>2. Distinct(Line, reg)
      BY <1>1
    <3> HIDE DEF q
    <3> QED BY <3>1, <3>2, OrderEnter DEF q
  <2>3. q' = Append(q, t)
    BY <1>3, <1>7, <2>2, Zenon DEF Enters
  <2>4. Holder' = Holder /\ Holder # t
    BY <1>1, <1>2, <1>7, Zenon DEF Enters
  <2>5. \A i \in DOMAIN q : q[i] # t
    <3>1. \A k \in DOMAIN q : q[k] \in Line
      <4>1. /\ DOMAIN q = 1..Cardinality(Line)
            /\ \A k \in 1..Cardinality(Line) : q[k] \in Line
        BY <1>1, Ordered, Zenon
      <4> HIDE DEF q
      <4> QED BY <4>1, Zenon
    <3> QED BY <1>7, <3>1, Zenon DEF Enters
  <2>6. Fifo!Enter(t)
    BY <2>3, <2>4, <2>5, Zenon DEF Fifo!Enter
  <2> QED BY <2>6, Zenon DEF Fifo!Next
<1>8. CASE Leaves(t)
  <2>1. PICK i \in DOMAIN q : q[i] = t /\ InOrder(Line \ {t}, reg) = Fifo!Drop(q, i)
    BY <1>1, <1>8, OrderLeave DEF Leaves
  <2>2. q' = Fifo!Drop(q, i)
    BY <1>3, <1>8, <2>1, Zenon DEF Leaves
  <2>3. Holder' = Holder
    BY <1>1, <1>2, <1>8, Zenon DEF Leaves
  <2>4. Fifo!Leave(t)
    BY <2>1, <2>2, <2>3, Zenon DEF Fifo!Leave
  <2> QED BY <2>4, Zenon DEF Fifo!Next
<1>9. CASE Granted(t)
  <2>1. q # <<>> /\ Head(q) = t /\ InOrder(Line \ {t}, reg) = Tail(q)
    BY <1>1, <1>9, OrderGrant, Zenon DEF Granted
  <2>2. q' = Tail(q)
    BY <1>3, <1>9, <2>1, Zenon DEF Granted
  <2>3. Holder = NoOwner /\ Holder' = Head(q)
    BY <1>1, <1>2, <1>9, <2>1, Zenon DEF Granted
  <2>4. Fifo!Grant
    BY <2>1, <2>2, <2>3, Zenon DEF Fifo!Grant
  <2> QED BY <2>4, Zenon DEF Fifo!Next
<1> QED BY <1>5, <1>6, <1>7, <1>8, <1>9, LineStep, Zenon

\* A step that changes no variable leaves the line and the holder as they are.
LEMMA FifoStutter ==
  ASSUME UNCHANGED vars
  PROVE  UNCHANGED Fifo!fifoVars
<1>1. pc' = pc /\ reg' = reg
  BY DEF vars
<1>2. Line' = Line /\ Holder' = Holder
  BY <1>1, Zenon DEF Line, Holder, Holds
<1> QED BY <1>1, <1>2, Zenon DEF Fifo!fifoVars

\* A lock nobody has used is a lock with an empty line and no holder.
LEMMA FifoInit ==
  ASSUME Init
  PROVE  Fifo!Init
<1>1. Line = {}
  BY DEF Init, Line
<1>2. InOrder({}, reg) = <<>>
  BY FS_EmptySet DEF InOrder
<1>3. Holder = NoOwner
  BY DEF Init, Holder, Holds
<1> QED BY <1>1, <1>2, <1>3 DEF Fifo!Init

\* The ticket lock implements the first-in first-out lock: whatever the number of
\* threads and the window, threads are granted the lock one at a time and in the
\* order in which they took their tickets, the ones that gave up excepted.
THEOREM LockIsFifo == Spec => ImplementsFifo
<1>1. LockInv /\ [Next]_vars => [Fifo!Next]_(Fifo!fifoVars)
  <2> SUFFICES ASSUME LockInv, [Next]_vars PROVE [Fifo!Next]_(Fifo!fifoVars)
    OBVIOUS
  <2>1. LockInv'
    BY LockInductive
  <2>2. CASE Next
    BY <2>1, <2>2, FifoStep, Zenon DEF Next
  <2>3. CASE UNCHANGED vars
    BY <2>3, FifoStutter, Zenon
  <2> QED BY <2>2, <2>3
<1>2. Init => Fifo!Init
  BY FifoInit
<1> QED BY <1>1, <1>2, LockInvariant, PTL DEF Spec, ImplementsFifo, Fifo!Spec
=============================================================================
