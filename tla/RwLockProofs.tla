---------------------------- MODULE RwLockProofs ----------------------------
(* Proofs about RwLock, for every finite set of threads, every window and every *)
(* mix of write calls.                                                          *)
EXTENDS RwLock, FiniteSetTheorems, TLAPS

\* A leaf is tried with SMT, then with Zenon, then with SMT for longer.
USE SMT, Zenon, SMTT(40)

\* A ticket's bit lies in the bitmap.
LEMMA BitType ==
  ASSUME NEW n \in Nat
  PROVE  Bit(n) \in 0..Window - 1
BY WindowAssumption DEF Bit

\* Two tickets less than a window apart have different bits.
LEMMA BitInjective ==
  ASSUME NEW m \in Nat, NEW n \in Nat, m <= n, n - m < Window, Bit(m) = Bit(n)
  PROVE  m = n
<1> DEFINE W == Window
<1>1. W \in Nat /\ W > 0
  BY WindowAssumption
<1>2. m = W * (m \div W) + (m % W) /\ n = W * (n \div W) + (n % W)
  BY <1>1
<1>3. (m \div W) \in Int /\ (n \div W) \in Int
  BY <1>1
<1>4. n - m = W * ((n \div W) - (m \div W))
  BY <1>1, <1>2, <1>3 DEF Bit
<1>5. (n \div W) - (m \div W) <= 0
  <2>1. SUFFICES ASSUME (n \div W) - (m \div W) >= 1 PROVE FALSE
    BY <1>3
  <2>2. \A k \in Int : k >= 1 => W * k >= W
    BY <1>1
  <2> QED BY <2>1, <2>2, <1>1, <1>3, <1>4
<1>6. \A k \in Int : k <= 0 => W * k <= 0
  BY <1>1
<1> QED BY <1>1, <1>3, <1>4, <1>5, <1>6

In(x, S) == IF x \in S THEN 1 ELSE 0
Class(f, S) == {u \in Thread : f[u] \in S}
ReaderPc == {"readMark", "reading", "readLeave"}
WaitingPc == {"spin", "loadState", "exchangeState", "removeWaiting"}

\* A thread that moves from one point to another enters or leaves a class of
\* threads; the size of the class changes with it.
LEMMA ClassStep ==
  ASSUME NEW S, NEW f, NEW g, NEW t \in Thread, \A u \in Thread : u # t => g[u] = f[u]
  PROVE  /\ Cardinality(Class(f, S)) \in Nat
         /\ Cardinality(Class(g, S)) = Cardinality(Class(f, S)) + In(g[t], S) - In(f[t], S)
         /\ Cardinality(Class(f, S)) >= In(f[t], S)
         /\ Cardinality(Class(f, S)) = 0 <=> Class(f, S) = {}
<1> DEFINE F == Class(f, S)
           G == Class(g, S)
<1>1. F \in SUBSET Thread /\ (t \in F <=> f[t] \in S)
  BY DEF Class
<1>2. IsFiniteSet(F)
  BY <1>1, ThreadAssumption, FS_Subset
<1>3. Cardinality(F) \in Nat
  BY <1>2, FS_CardinalityType
<1>4. Cardinality(F) = 0 <=> F = {}
  BY <1>2, FS_EmptySet
<1>5. CASE g[t] \in S
  <2>1. G = F \cup {t}
    BY <1>5 DEF Class
  <2>2. Cardinality(G) = IF t \in F THEN Cardinality(F) ELSE Cardinality(F) + 1
    BY <1>2, <2>1, FS_AddElement, Zenon
  <2> HIDE DEF F, G
  <2>3. Cardinality(F) >= In(f[t], S)
    BY <1>1, <1>3, <1>4 DEF In
  <2>4. Cardinality(G) = Cardinality(F) + In(g[t], S) - In(f[t], S)
    BY <1>1, <1>3, <1>5, <2>2 DEF In
  <2> QED BY <1>3, <1>4, <2>3, <2>4 DEF F, G
<1>6. CASE g[t] \notin S
  <2>1. G = F \ {t}
    BY <1>6 DEF Class
  <2>2. Cardinality(G) = IF t \in F THEN Cardinality(F) - 1 ELSE Cardinality(F)
    BY <1>2, <2>1, FS_RemoveElement, Zenon
  <2> HIDE DEF F, G
  <2>3. Cardinality(F) >= In(f[t], S)
    BY <1>1, <1>3, <1>4 DEF In
  <2>4. Cardinality(G) = Cardinality(F) + In(g[t], S) - In(f[t], S)
    BY <1>1, <1>3, <1>6, <2>2 DEF In
  <2> QED BY <1>3, <1>4, <2>3, <2>4 DEF F, G
<1> QED BY <1>5, <1>6

\* The same for the classes that the state word counts.
LEMMA Counting ==
  ASSUME TypeOK, NEW t \in Thread, pc' = [pc EXCEPT ![t] = pc'[t]]
  PROVE  /\ Cardinality(Readers) \in Nat /\ Cardinality(WaitingWriters) \in Nat
         /\ Cardinality(Readers)'
              = Cardinality(Readers) + In(pc'[t], ReaderPc) - In(pc[t], ReaderPc)
         /\ Cardinality(WaitingWriters)'
              = Cardinality(WaitingWriters) + In(pc'[t], WaitingPc) - In(pc[t], WaitingPc)
         /\ Cardinality(Readers) >= In(pc[t], ReaderPc)
         /\ Cardinality(WaitingWriters) >= In(pc[t], WaitingPc)
         /\ Cardinality(Readers) = 0 <=> Readers = {}
<1>1. \A u \in Thread : u # t => pc'[u] = pc[u]
  BY DEF TypeOK
<1>2. Readers = Class(pc, ReaderPc) /\ Readers' = Class(pc', ReaderPc)
  BY DEF Readers, ReaderPc, Class
<1>3. WaitingWriters = Class(pc, WaitingPc) /\ WaitingWriters' = Class(pc', WaitingPc)
  BY DEF WaitingWriters, WaitingPc, Class
<1>4. /\ Cardinality(Class(pc, ReaderPc)) \in Nat
      /\ Cardinality(Class(pc', ReaderPc))
           = Cardinality(Class(pc, ReaderPc)) + In(pc'[t], ReaderPc) - In(pc[t], ReaderPc)
      /\ Cardinality(Class(pc, ReaderPc)) >= In(pc[t], ReaderPc)
      /\ Cardinality(Class(pc, ReaderPc)) = 0 <=> Class(pc, ReaderPc) = {}
  BY ONLY <1>1, ClassStep, t \in Thread, Zenon
<1>5. /\ Cardinality(Class(pc, WaitingPc)) \in Nat
      /\ Cardinality(Class(pc', WaitingPc))
           = Cardinality(Class(pc, WaitingPc)) + In(pc'[t], WaitingPc) - In(pc[t], WaitingPc)
      /\ Cardinality(Class(pc, WaitingPc)) >= In(pc[t], WaitingPc)
  BY ONLY <1>1, ClassStep, t \in Thread, Zenon
<1> QED BY <1>2, <1>3, <1>4, <1>5

\* One step of one thread, with every action named.
LEMMA NextCases ==
  ASSUME NEW t \in Thread, ReadEnter(t) \/ WriteStart(t) \/ ReadStep(t) \/ WriteStep(t)
  PROVE
    \/ ReadEnter(t) \/ ReadMark(t) \/ ReadUnlockMark(t) \/ ReadLeave(t)
    \/ WriteStart(t) \/ TryServing(t) \/ TryState(t) \/ Reserve(t) \/ AddWaiting(t)
    \/ SpinServed(t) \/ SpinGiveUp(t) \/ LoadState(t) \/ ExchangeState(t)
    \/ SetOwner(t) \/ WriteUnlockLook(t) \/ ClearOwner(t) \/ ClearWriter(t)
    \/ NextWriter(t) \/ RemoveWaiting(t) \/ CancelWriter(t) \/ AdvanceLoadOwner(t)
    \/ AdvanceLoadServing(t) \/ AdvanceLoad(t) \/ AdvanceClear(t) \/ AdvanceExchange(t)
BY DEF ReadStep, WriteStep

\* Every access keeps the types; the counts make sure that none falls below zero.
LEMMA TypeStep ==
  ASSUME TypeOK, StateInv, NEW t \in Thread,
         ReadEnter(t) \/ WriteStart(t) \/ ReadStep(t) \/ WriteStep(t)
  PROVE  TypeOK' /\ pc' = [pc EXCEPT ![t] = pc'[t]]
<1> USE WindowAssumption, CallsAssumption
<1> USE DEF TypeOK, Goto, Continue, Advance, owners, tickets, Refused, Free
<1>1. CASE ReadEnter(t)
  BY <1>1 DEF ReadEnter
<1>2. CASE ReadMark(t)
  BY <1>2 DEF ReadMark
<1>3. CASE ReadUnlockMark(t)
  BY <1>3 DEF ReadUnlockMark
<1>4. CASE ReadLeave(t)
  <2>1. pc' = [pc EXCEPT ![t] = pc'[t]] /\ pc[t] \in ReaderPc
    BY <1>4 DEF ReadLeave, ReaderPc
  <2>2. state.readers \in Nat /\ state.readers >= 1
    BY <2>1, Counting DEF StateInv, CountsExact, In
  <2> QED BY <1>4, <2>1, <2>2 DEF ReadLeave
<1>5. CASE WriteStart(t)
  BY <1>5 DEF WriteStart
<1>6. CASE TryServing(t)
  BY <1>6 DEF TryServing
<1>7. CASE TryState(t)
  BY <1>7 DEF TryState
<1>8. CASE Reserve(t)
  BY <1>8 DEF Reserve
<1>9. CASE AddWaiting(t)
  BY <1>9 DEF AddWaiting
<1>10. CASE SpinServed(t)
  BY <1>10 DEF SpinServed
<1>11. CASE SpinGiveUp(t)
  BY <1>11 DEF SpinGiveUp
<1>12. CASE LoadState(t)
  BY <1>12 DEF LoadState
<1>13. CASE ExchangeState(t)
  <2>1. pc' = [pc EXCEPT ![t] = pc'[t]] /\ pc[t] \in WaitingPc
    BY <1>13 DEF ExchangeState, WaitingPc
  <2>2. state.waiting \in Nat /\ state.waiting >= 1
    BY <2>1, Counting DEF StateInv, CountsExact, In
  <2>3. CASE state = snap[t]
    <3>1. state' = [state EXCEPT !.writer = TRUE, !.waiting = @ - 1]
      BY <1>13, <2>3 DEF ExchangeState
    <3>2. state.waiting - 1 \in Nat
      BY <2>2
    <3>3. state' \in [writer : BOOLEAN, waiting : Nat, readers : Nat]
      BY <3>1, <3>2, Zenon
    <3>4. pc' = [pc EXCEPT ![t] = "setOwner"]
      BY <1>13, <2>3, Zenon DEF ExchangeState
    <3>5. snap' = [snap EXCEPT ![t] = Free] /\ UNCHANGED <<owners, tickets, call, reg, bits>>
      BY <1>13 DEF ExchangeState
    <3> QED BY <3>3, <3>4, <3>5
  <2>4. CASE state # snap[t]
    BY <1>13, <2>1, <2>4 DEF ExchangeState
  <2> QED BY <2>3, <2>4
<1>14. CASE SetOwner(t)
  BY <1>14 DEF SetOwner
<1>15. CASE WriteUnlockLook(t)
  BY <1>15 DEF WriteUnlockLook
<1>16. CASE ClearOwner(t)
  BY <1>16 DEF ClearOwner
<1>17. CASE ClearWriter(t)
  BY <1>17, Zenon DEF ClearWriter
<1>18. CASE NextWriter(t)
  BY <1>18 DEF NextWriter
<1>19. CASE RemoveWaiting(t)
  BY <1>19 DEF RemoveWaiting
<1>20. CASE CancelWriter(t)
  BY <1>20, BitType, Zenon DEF CancelWriter
<1>21. CASE AdvanceLoadOwner(t)
  BY <1>21 DEF AdvanceLoadOwner
<1>22. CASE AdvanceLoadServing(t)
  BY <1>22 DEF AdvanceLoadServing
<1>23. CASE AdvanceLoad(t)
  BY <1>23 DEF AdvanceLoad
<1>24. CASE AdvanceClear(t)
  <2>1. CASE cancelled_writers = bits[t]
    BY <1>24, <2>1 DEF AdvanceClear
  <2>2. CASE cancelled_writers # bits[t]
    <3>1. Advance(t)
      BY <1>24, <2>2, Zenon DEF AdvanceClear
    <3>2. /\ bits' = [bits EXCEPT ![t] = {}] /\ cancelled_writers' = cancelled_writers
          /\ UNCHANGED <<state, owners, writer_next, writer_serving, snap>>
      BY <1>24, <2>2 DEF AdvanceClear
    <3> QED BY <3>1, <3>2
  <2> QED BY <2>1, <2>2
<1>25. CASE AdvanceExchange(t)
  BY <1>25 DEF AdvanceExchange
<1> QED
  BY NextCases, <1>1, <1>2, <1>3, <1>4, <1>5, <1>6, <1>7, <1>8, <1>9, <1>10, <1>11,
     <1>12, <1>13, <1>14, <1>15, <1>16, <1>17, <1>18, <1>19, <1>20, <1>21, <1>22,
     <1>23, <1>24, <1>25, Zenon

\* The state word keeps counting the threads: what a thread adds or takes away is
\* what its move adds to or takes from the class.
LEMMA StateStep ==
  ASSUME TypeOK, StateInv, NEW t \in Thread,
         ReadEnter(t) \/ WriteStart(t) \/ ReadStep(t) \/ WriteStep(t)
  PROVE  StateInv'
<1>0. /\ Cardinality(Readers) \in Nat /\ Cardinality(WaitingWriters) \in Nat
      /\ Cardinality(Readers)'
           = Cardinality(Readers) + In(pc'[t], ReaderPc) - In(pc[t], ReaderPc)
      /\ Cardinality(WaitingWriters)'
           = Cardinality(WaitingWriters) + In(pc'[t], WaitingPc) - In(pc[t], WaitingPc)
      /\ Cardinality(Readers) >= In(pc[t], ReaderPc)
      /\ Cardinality(WaitingWriters) >= In(pc[t], WaitingPc)
  BY TypeStep, Counting
<1> USE <1>0
<1> USE DEF TypeOK, StateInv, CountsExact, Goto, Continue, Advance, owners, tickets, Refused,
        Free, NoWriter, In, ReaderPc, WaitingPc, Writers
<1>1. CASE ReadEnter(t)
  BY <1>1 DEF ReadEnter
<1>2. CASE ReadMark(t)
  BY <1>2 DEF ReadMark
<1>3. CASE ReadUnlockMark(t)
  BY <1>3 DEF ReadUnlockMark
<1>4. CASE ReadLeave(t)
  BY <1>4 DEF ReadLeave
<1>5. CASE WriteStart(t)
  BY <1>5 DEF WriteStart
<1>6. CASE TryServing(t)
  BY <1>6 DEF TryServing
<1>7. CASE TryState(t)
  BY <1>7 DEF TryState
<1>8. CASE Reserve(t)
  BY <1>8 DEF Reserve
<1>9. CASE AddWaiting(t)
  BY <1>9 DEF AddWaiting
<1>10. CASE SpinServed(t)
  BY <1>10 DEF SpinServed
<1>11. CASE SpinGiveUp(t)
  BY <1>11 DEF SpinGiveUp
<1>12. CASE LoadState(t)
  BY <1>12 DEF LoadState
<1>13. CASE ExchangeState(t)
  <2>1. CASE state = snap[t]
    <3>1. ~state.writer /\ state.readers = 0 /\ Writers = {}
      BY <1>13, <2>1 DEF ExchangeState
    <3>2. /\ pc' = [pc EXCEPT ![t] = "setOwner"]
          /\ state' = [state EXCEPT !.writer = TRUE, !.waiting = @ - 1]
      BY <1>13, <2>1 DEF ExchangeState
    <3>3. Writers' = {t}
      BY <3>1, <3>2
    <3>4. state'.writer = (Writers' # {})
      BY <3>2, <3>3, Zenon
    <3> HIDE DEF Writers
    <3>5. reader_owners' = reader_owners /\ snap' = [snap EXCEPT ![t] = Free]
      BY <1>13 DEF ExchangeState
    <3>6. CountsExact'
      <4>1. state'.readers = Cardinality(Readers)' /\ state'.waiting = Cardinality(WaitingWriters)'
        BY <1>13, <3>2 DEF ExchangeState
      <4>2. \A u \in Thread : pc'[u] # "fault"
        BY <3>2
      <4> QED BY <4>1, <4>2, <3>4, Zenon DEF CountsExact
    <3>7. reader_owners' = {u \in Thread : pc'[u] = "reading"}
      BY <1>13, <3>2, <3>5 DEF ExchangeState
    <3>8. \A u \in Thread : pc'[u] = "exchangeState" => NoWriter(snap'[u])
      BY <3>2, <3>5
    <3>9. state'.readers = 0 /\ \A u, v \in Writers' : u = v
      BY <3>1, <3>2, <3>3
    <3> QED BY <3>6, <3>7, <3>8, <3>9
  <2>2. CASE state # snap[t]
    BY <1>13, <2>2 DEF ExchangeState
  <2> QED BY <2>1, <2>2
<1>14. CASE SetOwner(t)
  BY <1>14 DEF SetOwner
<1>15. CASE WriteUnlockLook(t)
  BY <1>15 DEF WriteUnlockLook
<1>16. CASE ClearOwner(t)
  BY <1>16 DEF ClearOwner
<1>17. CASE ClearWriter(t)
  <2>1. t \in Writers /\ state.writer /\ state.readers = 0
    BY <1>17 DEF ClearWriter
  <2>2. pc' = [pc EXCEPT ![t] = "nextWriter"] /\ state' = [state EXCEPT !.writer = FALSE]
    BY <1>17, <2>1, Zenon DEF ClearWriter
  <2>3. Writers' = {}
    BY <2>1, <2>2
  <2>4. state'.writer = (Writers' # {})
    BY <2>2, <2>3, Zenon
  <2> HIDE DEF Writers
  <2>5. UNCHANGED <<reader_owners, snap>>
    BY <1>17 DEF ClearWriter
  <2>6. CountsExact'
    <3>1. state'.readers = Cardinality(Readers)' /\ state'.waiting = Cardinality(WaitingWriters)'
      BY <1>17, <2>2 DEF ClearWriter
    <3>2. \A u \in Thread : pc'[u] # "fault"
      BY <2>2
    <3> QED BY <3>1, <3>2, <2>4, Zenon DEF CountsExact
  <2>7. reader_owners' = {u \in Thread : pc'[u] = "reading"}
    BY <1>17, <2>2, <2>5 DEF ClearWriter
  <2>8. \A u \in Thread : pc'[u] = "exchangeState" => NoWriter(snap'[u])
    BY <2>2, <2>5
  <2> QED BY <2>2, <2>3, <2>6, <2>7, <2>8, Zenon
<1>18. CASE NextWriter(t)
  BY <1>18 DEF NextWriter
<1>19. CASE RemoveWaiting(t)
  BY <1>19 DEF RemoveWaiting
<1>20. CASE CancelWriter(t)
  BY <1>20 DEF CancelWriter
<1>21. CASE AdvanceLoadOwner(t)
  BY <1>21 DEF AdvanceLoadOwner
<1>22. CASE AdvanceLoadServing(t)
  BY <1>22 DEF AdvanceLoadServing
<1>23. CASE AdvanceLoad(t)
  BY <1>23 DEF AdvanceLoad
<1>24. CASE AdvanceClear(t)
  <2>1. pc[t] = "advanceClear" /\ pc' = [pc EXCEPT ![t] = pc'[t]]
    BY <1>24, TypeStep DEF AdvanceClear
  <2>2. pc'[t] \in {"advance", "advanceExchange"}
    BY <1>24 DEF AdvanceClear
  <2>3. UNCHANGED <<state, reader_owners, snap>>
    BY <1>24 DEF AdvanceClear
  <2>4. CASE pc' = [pc EXCEPT ![t] = "advance"]
    BY <2>1, <2>3, <2>4
  <2>5. CASE pc' = [pc EXCEPT ![t] = "advanceExchange"]
    BY <2>1, <2>3, <2>5
  <2> QED BY <2>1, <2>2, <2>4, <2>5
<1>25. CASE AdvanceExchange(t)
  BY <1>25 DEF AdvanceExchange
<1> QED
  BY NextCases, <1>1, <1>2, <1>3, <1>4, <1>5, <1>6, <1>7, <1>8, <1>9, <1>10, <1>11,
     <1>12, <1>13, <1>14, <1>15, <1>16, <1>17, <1>18, <1>19, <1>20, <1>21, <1>22,
     <1>23, <1>24, <1>25, Zenon

\* The writers' tickets: one case per action.
LEMMA TicketStep ==
  ASSUME RwInv, NEW t \in Thread,
         ReadEnter(t) \/ WriteStart(t) \/ ReadStep(t) \/ WriteStep(t)
  PROVE  TicketsInv' /\ CancelledInv' /\ SkipInv'
<1> USE WindowAssumption, CallsAssumption
<1> USE DEF RwInv, TypeOK, Goto, Continue, Advance, owners, tickets, Refused, Live, Dead, Served,
        Skips
<1>1. CASE ReadEnter(t)
  BY <1>1 DEF ReadEnter, TicketsInv, CancelledInv, SkipInv
<1>2. CASE ReadMark(t)
  BY <1>2 DEF ReadMark, TicketsInv, CancelledInv, SkipInv
<1>3. CASE ReadUnlockMark(t)
  BY <1>3 DEF ReadUnlockMark, TicketsInv, CancelledInv, SkipInv
<1>4. CASE ReadLeave(t)
  BY <1>4 DEF ReadLeave, TicketsInv, CancelledInv, SkipInv
<1>5. CASE WriteStart(t)
  BY <1>5 DEF WriteStart, TicketsInv, CancelledInv, SkipInv
<1>6. CASE TryServing(t)
  BY <1>6 DEF TryServing, TicketsInv, CancelledInv, SkipInv
<1>7. CASE TryState(t)
  BY <1>7 DEF TryState, TicketsInv, CancelledInv, SkipInv
<1>8. CASE Reserve(t)
  <2> USE <1>8 DEF Reserve
  <2>1. TicketsInv' BY DEF TicketsInv, SkipInv
  <2>2. CancelledInv' BY DEF TicketsInv, CancelledInv, SkipInv
  <2>3. SkipInv' BY DEF TicketsInv, SkipInv
  <2> QED BY <2>1, <2>2, <2>3
<1>9. CASE AddWaiting(t)
  BY <1>9 DEF AddWaiting, TicketsInv, CancelledInv, SkipInv
<1>10. CASE SpinServed(t)
  BY <1>10 DEF SpinServed, TicketsInv, CancelledInv, SkipInv
<1>11. CASE SpinGiveUp(t)
  BY <1>11 DEF SpinGiveUp, TicketsInv, CancelledInv, SkipInv
<1>12. CASE LoadState(t)
  BY <1>12 DEF LoadState, TicketsInv, CancelledInv, SkipInv
<1>13. CASE ExchangeState(t)
  BY <1>13 DEF ExchangeState, TicketsInv, CancelledInv, SkipInv
<1>14. CASE SetOwner(t)
  BY <1>14 DEF SetOwner, TicketsInv, CancelledInv, SkipInv
<1>15. CASE WriteUnlockLook(t)
  BY <1>15 DEF WriteUnlockLook, TicketsInv, CancelledInv, SkipInv
<1>16. CASE ClearOwner(t)
  BY <1>16 DEF ClearOwner, TicketsInv, CancelledInv, SkipInv
<1>17. CASE ClearWriter(t)
  BY <1>17 DEF ClearWriter, TicketsInv, CancelledInv, SkipInv
<1>18. CASE NextWriter(t)
  <2> USE <1>18 DEF NextWriter
  <2>1. TicketsInv' BY DEF TicketsInv, SkipInv
  <2>2. CancelledInv' BY DEF TicketsInv, CancelledInv, SkipInv
  <2>3. SkipInv' BY DEF TicketsInv, SkipInv
  <2> QED BY <2>1, <2>2, <2>3
<1>19. CASE RemoveWaiting(t)
  BY <1>19 DEF RemoveWaiting, TicketsInv, CancelledInv, SkipInv
<1>20. CASE CancelWriter(t)
  <2> USE <1>20 DEF CancelWriter
  <2>1. TicketsInv' BY DEF TicketsInv, SkipInv
  <2>2. CancelledInv' BY DEF TicketsInv, CancelledInv, SkipInv
  <2>3. SkipInv'
    <3>1. \A u \in Thread : u # t => pc'[u] = pc[u] /\ reg'[u] = reg[u]
      OBVIOUS
    <3>2. Live(t) /\ pc'[t] = "advance" /\ UNCHANGED <<writer_next, writer_serving>>
      OBVIOUS
    <3> SUFFICES ASSUME NEW u \in Thread, Skips(u)', reg'[u] = writer_serving
                 PROVE  /\ writer_serving < writer_next /\ Dead(writer_serving)'
                        /\ pc'[u] = "advanceExchange" => Bit(writer_serving) \notin cancelled_writers'
      BY <3>2 DEF SkipInv
    <3>3. u # t /\ Skips(u) /\ reg[u] = writer_serving
      BY <3>1, <3>2
    <3>4. writer_serving < writer_next /\ Dead(writer_serving)
      BY <3>3 DEF SkipInv
    <3>5. Dead(writer_serving)'
      BY <3>1, <3>2, <3>4
    <3>6. reg[t] # writer_serving /\ writer_serving <= reg[t] /\ reg[t] < writer_next
      BY <3>2, <3>4 DEF TicketsInv
    <3>7. Bit(reg[t]) # Bit(writer_serving)
      BY <3>4, <3>6, BitInjective DEF TicketsInv
    <3>8. pc'[u] = "advanceExchange" => Bit(writer_serving) \notin cancelled_writers
      BY <3>1, <3>3 DEF SkipInv
    <3> QED BY <3>4, <3>5, <3>7, <3>8
  <2> QED BY <2>1, <2>2, <2>3
<1>21. CASE AdvanceLoadOwner(t)
  BY <1>21 DEF AdvanceLoadOwner, TicketsInv, CancelledInv, SkipInv
<1>22. CASE AdvanceLoadServing(t)
  BY <1>22 DEF AdvanceLoadServing, TicketsInv, CancelledInv, SkipInv
<1>23. CASE AdvanceLoad(t)
  <2> USE <1>23 DEF AdvanceLoad
  <2>1. TicketsInv' BY DEF TicketsInv, SkipInv
  <2>2. CancelledInv' BY DEF TicketsInv, CancelledInv, SkipInv
  <2>3. SkipInv'
    <3>1. ASSUME Bit(writer_serving) \in cancelled_writers
          PROVE  writer_serving < writer_next /\ Dead(writer_serving)
      <4>1. PICK n \in writer_serving..writer_next - 1 : Bit(n) = Bit(writer_serving) /\ Dead(n)
        BY <3>1, Zenon DEF CancelledInv
      <4>2. n = writer_serving
        BY <4>1, BitInjective DEF TicketsInv
      <4> QED BY <4>1, <4>2
    <3> QED BY <3>1 DEF TicketsInv, SkipInv
  <2> QED BY <2>1, <2>2, <2>3
<1>24. CASE AdvanceClear(t)
  <2>1. /\ pc[t] = "advanceClear" /\ UNCHANGED <<writer_next, writer_serving>>
        /\ cancelled_writers' \subseteq cancelled_writers
        /\ \A u \in Thread \ {t} : pc'[u] = pc[u] /\ reg'[u] = reg[u] /\ call'[u] = call[u]
    BY <1>24 DEF AdvanceClear
  <2>2. \/ /\ pc'[t] = "advanceExchange" /\ reg'[t] = reg[t]
           /\ cancelled_writers' = cancelled_writers \ {Bit(reg[t])}
        \/ pc'[t] = "advance"
    BY <1>24 DEF AdvanceClear
  <2>3. \A u \in Thread : /\ Live(u)' => Live(u) /\ u # t
                          /\ Served(u)' => Served(u) /\ u # t
    BY <2>1, <2>2
  <2>4. Skips(t)' => pc'[t] = "advanceExchange"
    BY <2>2
  <2> HIDE DEF RwInv, Live, Served
  <2>5. TicketsInv'
    <3>1. \A u \in Thread : Live(u)' \/ Served(u)' => reg'[u] = reg[u]
      BY <2>1, <2>3
    <3>2. \A u \in Thread : pc'[u] = "advanceLoad" \/ Skips(u)' =>
                              (pc[u] = "advanceLoad" \/ Skips(u)) /\ reg'[u] = reg[u]
      BY <2>1, <2>2, <2>4
    <3>3. writer_serving' <= writer_next' /\ writer_next' - writer_serving' <= Window
      BY <2>1 DEF RwInv, TicketsInv
    <3>4. \A u \in Thread :
            /\ Live(u)' => writer_serving' <= reg'[u] /\ reg'[u] < writer_next'
            /\ Served(u)' => reg'[u] = writer_serving'
      BY <2>1, <2>3, <3>1 DEF RwInv, TicketsInv
    <3>5. \A u \in Thread : pc'[u] = "advanceLoad" \/ Skips(u)' => reg'[u] <= writer_serving'
      BY <2>1, <3>2 DEF RwInv, TicketsInv
    <3>6. \A u, v \in Thread : Live(u)' /\ Live(v)' /\ u # v => reg'[u] # reg'[v]
      BY <2>3, <3>1 DEF RwInv, TicketsInv
    <3> HIDE DEF Skips
    <3> QED BY <3>3, <3>4, <3>5, <3>6, Zenon DEF TicketsInv
  <2>6. \A n : Dead(n) => Dead(n)'
    BY <2>1, <2>3
  <2> HIDE DEF Dead
  <2>7. CancelledInv'
    <3> SUFFICES ASSUME NEW b \in cancelled_writers'
                 PROVE  \E n \in writer_serving..writer_next - 1 : Bit(n) = b /\ Dead(n)'
      BY <2>1 DEF CancelledInv
    <3>1. PICK n \in writer_serving..writer_next - 1 : Bit(n) = b /\ Dead(n)
      BY <2>1 DEF RwInv, CancelledInv
    <3> QED BY <2>6, <3>1
  <2>8. SkipInv'
    <3> SUFFICES ASSUME NEW u \in Thread, Skips(u)', reg'[u] = writer_serving'
                 PROVE  /\ writer_serving < writer_next /\ Dead(writer_serving)
                        /\ pc'[u] = "advanceExchange" => Bit(writer_serving) \notin cancelled_writers'
      BY <2>1, <2>6, Zenon DEF SkipInv
    <3>1. Skips(u) /\ reg[u] = writer_serving
      <4>1. CASE u = t
        BY <2>1, <2>2, <2>4, <4>1
      <4>2. CASE u # t
        BY <2>1, <4>2
      <4> QED BY <4>1, <4>2
    <3>2. writer_serving < writer_next /\ Dead(writer_serving)
      BY <3>1 DEF RwInv, SkipInv
    <3>3. CASE u = t
      BY <2>2, <2>4, <3>1, <3>2, <3>3
    <3>4. CASE u # t
      BY <2>1, <3>1, <3>2, <3>4, Zenon DEF RwInv, SkipInv
    <3> QED BY <3>3, <3>4
  <2> QED BY <2>5, <2>7, <2>8
<1>25. CASE AdvanceExchange(t)
  <2> USE <1>25 DEF AdvanceExchange
  <2>1. TicketsInv'
    <3>1. CASE writer_serving = reg[t]
      <4>1. Skips(t)
        OBVIOUS
      <4>2. writer_serving < writer_next /\ Dead(writer_serving)
        BY <3>1, <4>1 DEF SkipInv
      <4>3. \A u \in Thread : Live(u) => writer_serving < reg[u]
        <5> SUFFICES ASSUME NEW u \in Thread, Live(u) PROVE writer_serving < reg[u]
          OBVIOUS
        <5>1. reg[u] # writer_serving
          BY <4>2
        <5>2. writer_serving <= reg[u] /\ reg[u] \in Nat /\ writer_serving \in Nat
          BY DEF TicketsInv
        <5> QED BY ONLY <5>1, <5>2
      <4>4. \A u \in Thread : ~Served(u)
        BY <4>2 DEF TicketsInv
      <4> QED BY <3>1, <4>2, <4>3, <4>4 DEF TicketsInv
    <3>2. CASE writer_serving # reg[t]
      BY <3>2 DEF TicketsInv
    <3> QED BY <3>1, <3>2
  <2>2. CancelledInv' BY DEF TicketsInv, CancelledInv, SkipInv
  <2>3. SkipInv' BY DEF TicketsInv, SkipInv
  <2> QED BY <2>1, <2>2, <2>3
<1> QED
  BY NextCases, <1>1, <1>2, <1>3, <1>4, <1>5, <1>6, <1>7, <1>8, <1>9, <1>10, <1>11,
     <1>12, <1>13, <1>14, <1>15, <1>16, <1>17, <1>18, <1>19, <1>20, <1>21, <1>22,
     <1>23, <1>24, <1>25

\* The invariant is inductive.
LEMMA RwInductive == RwInv /\ [Next]_vars => RwInv'
<1> SUFFICES ASSUME RwInv, [Next]_vars PROVE RwInv'
  OBVIOUS
<1>1. CASE Next
  BY <1>1, TypeStep, StateStep, TicketStep DEF Next, RwInv
<1>2. CASE UNCHANGED vars
  BY <1>2 DEF vars, owners, tickets, RwInv, TypeOK, StateInv, CountsExact, TicketsInv,
              CancelledInv, SkipInv, NoWriter, Live, Dead, Served, Skips, Readers, Writers,
              WaitingWriters
<1> QED BY <1>1, <1>2

\* The inductive invariant of the reader-writer lock holds throughout.
THEOREM RwInvariant == Spec => []RwInv
<1>1. Init => RwInv
  <2> SUFFICES ASSUME Init PROVE RwInv
    OBVIOUS
  <2>1. Readers = {} /\ Writers = {} /\ WaitingWriters = {}
    BY DEF Init, Readers, Writers, WaitingWriters
  <2>2. CountsExact
    BY <2>1, FS_EmptySet, Zenon DEF Init, CountsExact, Free
  <2> QED BY <2>1, <2>2, WindowAssumption, NoOwnerAssumption
      DEF Init, RwInv, TypeOK, StateInv, TicketsInv, CancelledInv, SkipInv, Free, Live, Dead,
          Served, Skips
<1> QED BY <1>1, RwInductive, PTL DEF Spec

\* The state word counts exactly the readers inside and the writers waiting, and
\* no operation returns Invariant to a correct caller.
THEOREM RwCounts == Spec => []CountsExact
<1>1. RwInv => CountsExact
  BY DEF RwInv, StateInv
<1> QED BY <1>1, RwInvariant, PTL

\* A writer excludes readers and other writers, for any number of threads.
THEOREM RwExcludes == Spec => []RwExclusion
<1>1. RwInv => RwExclusion
  <2> SUFFICES ASSUME RwInv PROVE RwExclusion
    OBVIOUS
  <2>1. IsFiniteSet(Writers) /\ IsFiniteSet(Readers)
    BY ThreadAssumption, FS_Subset DEF Writers, Readers
  <2>2. Cardinality(Writers) <= 1
    <3>1. CASE Writers = {}
      BY <3>1, FS_EmptySet
    <3>2. CASE Writers # {}
      <4>1. PICK w : w \in Writers
        BY <3>2
      <4>2. \A u \in Writers : u = w
        BY <4>1 DEF RwInv, StateInv
      <4>3. Writers = {w}
        BY <4>1, <4>2
      <4>4. Cardinality({w}) = 1
        BY FS_Singleton
      <4> QED BY <4>3, <4>4
    <3> QED BY <3>1, <3>2
  <2>3. Writers # {} => Readers = {}
    BY <2>1, FS_EmptySet, Zenon DEF RwInv, StateInv, CountsExact
  <2> QED BY <2>2, <2>3 DEF RwExclusion
<1> QED BY <1>1, RwInvariant, PTL

\* A writer that waited for its ticket still holds the ticket being served when it
\* unlocks, whatever window the tickets have and however try_write overtakes.
THEOREM RwRelease == Spec => []TicketedOwnerCanRelease
<1>1. RwInv => TicketedOwnerCanRelease
  BY DEF RwInv, TicketsInv, TicketedOwnerCanRelease, Writers, Served
<1> QED BY <1>1, RwInvariant, PTL
-----------------------------------------------------------------------------
\* The owner word names a thread that is between storing and clearing it.
OwnerWrites == writer_owner # NoOwner => pc[writer_owner] \in {"writing", "clearOwner"}

\* A writer ticket that has been handed out and not yet served is in use, or its
\* bit is set, or the thread that cleared the bit is about to move the serving
\* counter past it.
Accounted(n) ==
    \/ \E t \in Thread : Live(t) /\ reg[t] = n
    \/ Bit(n) \in cancelled_writers
    \/ n = writer_serving /\ \E t \in Thread : pc[t] = "advanceExchange" /\ reg[t] = n
AccountInv ==
    /\ OwnerWrites
    /\ NoOrphanedWriter
    /\ \A n \in writer_serving..writer_next - 1 : Accounted(n)

\* The bit that advance_cancelled_writers clears is its own ticket's, because no
\* other outstanding ticket of the window has the same bit; the exchange that
\* passes the ticket comes next.
LEMMA AccountClear ==
  ASSUME RwInv, AccountInv, SkipsInWindow, NEW t \in Thread, AdvanceClear(t)
  PROVE  AccountInv'
<1>1. /\ pc[t] = "advanceClear" /\ UNCHANGED <<writer_next, writer_serving, writer_owner>>
      /\ \/ /\ UNCHANGED cancelled_writers
            /\ pc' = [pc EXCEPT ![t] = "advance"] /\ reg' = [reg EXCEPT ![t] = 0]
            /\ call' = [call EXCEPT ![t] = "none"]
         \/ /\ cancelled_writers' = cancelled_writers \ {Bit(reg[t])}
            /\ pc' = [pc EXCEPT ![t] = "advanceExchange"] /\ UNCHANGED <<call, reg>>
  BY DEF AdvanceClear, Advance, Goto, owners
<1>2. /\ pc = [u \in Thread |-> pc[u]] /\ call = [u \in Thread |-> call[u]]
      /\ reg \in [Thread -> Nat]
      /\ writer_serving \in Nat /\ writer_next \in Nat
  BY DEF RwInv, TypeOK
<1>3. reg[t] \in Nat /\ reg[t] <= writer_serving /\ writer_next - reg[t] <= Window
  BY <1>1, <1>2 DEF RwInv, TicketsInv, Skips, SkipsInWindow
<1>4. ASSUME NEW n \in writer_serving..writer_next - 1, Bit(n) = Bit(reg[t])
      PROVE  n = reg[t] /\ n = writer_serving
  <2>1. n \in Nat /\ reg[t] <= n /\ n - reg[t] < Window /\ writer_serving <= n
    BY <1>2, <1>3, WindowAssumption
  <2>2. reg[t] = n
    BY <1>3, <1>4, <2>1, BitInjective
  <2> QED BY <1>2, <1>3, <2>1, <2>2
<1>5. ASSUME NEW n \in writer_serving..writer_next - 1 PROVE Accounted(n)'
  <2>1. Accounted(n)
    BY <1>5, Zenon DEF AccountInv
  <2>2. CASE \E u \in Thread : Live(u) /\ reg[u] = n
    <3>1. PICK u \in Thread : Live(u) /\ reg[u] = n
      BY <2>2, Zenon
    <3>2. u # t
      BY <1>1, <3>1 DEF Live
    <3>3. pc'[u] = pc[u] /\ reg'[u] = reg[u]
      BY <1>1, <1>2, <3>2
    <3> QED BY <3>1, <3>3, Zenon DEF Accounted, Live
  <2>3. CASE Bit(n) \in cancelled_writers /\ Bit(n) # Bit(reg[t])
    BY <1>1, <2>3, Zenon DEF Accounted, Bit
  <2>4. CASE Bit(n) \in cancelled_writers /\ Bit(n) = Bit(reg[t])
    <3>1. n = reg[t] /\ n = writer_serving
      BY <1>4, <1>5, <2>4, Zenon
    <3>2. CASE UNCHANGED cancelled_writers
      BY <2>4, <3>2, Zenon DEF Accounted, Bit
    <3>3. CASE pc' = [pc EXCEPT ![t] = "advanceExchange"] /\ UNCHANGED reg
      <4>1. pc'[t] = "advanceExchange" /\ reg'[t] = n /\ n = writer_serving'
        BY <1>1, <1>2, <3>1, <3>3, Zenon
      <4> QED BY <4>1, Zenon DEF Accounted
    <3> QED BY <1>1, <3>2, <3>3, Zenon
  <2>5. CASE n = writer_serving /\ \E u \in Thread : pc[u] = "advanceExchange" /\ reg[u] = n
    <3>1. PICK u \in Thread : pc[u] = "advanceExchange" /\ reg[u] = n
      BY <2>5, Zenon
    <3>2. u # t
      BY <1>1, <3>1
    <3>3. pc'[u] = pc[u] /\ reg'[u] = reg[u]
      BY <1>1, <1>2, <3>2
    <3> QED BY <1>1, <2>5, <3>1, <3>3, Zenon DEF Accounted
  <2> QED BY <2>1, <2>2, <2>3, <2>4, <2>5, Zenon DEF Accounted
<1>6. pc'[t] \in {"advance", "advanceExchange"} /\ \A u \in Thread \ {t} : pc'[u] = pc[u]
  BY <1>1, <1>2
<1>7. NoOrphanedWriter'
  BY <1>6, Zenon DEF NoOrphanedWriter, Advances, Skips
<1>8. ASSUME writer_owner # NoOwner PROVE pc'[writer_owner] \in {"writing", "clearOwner"}
  <2>1. writer_owner \in Thread /\ pc[writer_owner] \in {"writing", "clearOwner"}
    BY <1>8, Zenon DEF RwInv, TypeOK, AccountInv, OwnerWrites
  <2> QED BY <1>1, <1>6, <2>1
<1>9. OwnerWrites'
  BY <1>1, <1>8, Zenon DEF OwnerWrites
<1> QED BY <1>1, <1>5, <1>7, <1>9 DEF AccountInv

\* Every access keeps the outstanding tickets accounted for: cancel_writer trades
\* the live thread for the bit, and advance_cancelled_writers trades the bit for
\* the exchange that passes the ticket.
LEMMA AccountStep ==
  ASSUME RwInv, RwInv', AccountInv, SkipsInWindow, NEW t \in Thread,
         ReadEnter(t) \/ WriteStart(t) \/ ReadStep(t) \/ WriteStep(t)
  PROVE  AccountInv'
<1> USE WindowAssumption, NoOwnerAssumption
<1> USE DEF RwInv, TypeOK, Goto, Continue, Advance, owners, tickets, Refused, Live, Skips,
        Served, Writers, AccountInv, OwnerWrites, Accounted, NoOrphanedWriter, Advances
<1>1. CASE ReadEnter(t)
  BY <1>1 DEF ReadEnter
<1>2. CASE ReadMark(t)
  BY <1>2 DEF ReadMark
<1>3. CASE ReadUnlockMark(t)
  BY <1>3 DEF ReadUnlockMark, StateInv, CountsExact
<1>4. CASE ReadLeave(t)
  BY <1>4 DEF ReadLeave, StateInv, CountsExact
<1>5. CASE WriteStart(t)
  BY <1>5 DEF WriteStart
<1>6. CASE TryServing(t)
  BY <1>6 DEF TryServing
<1>7. CASE TryState(t)
  BY <1>7 DEF TryState
<1>8. CASE Reserve(t)
  <2> USE <1>8 DEF Reserve, TicketsInv
  <2>1. OwnerWrites' OBVIOUS
  <2>2. NoOrphanedWriter' OBVIOUS
  <2>3. ASSUME NEW n \in (writer_serving..writer_next - 1)' PROVE Accounted(n)'
    <3>1. pc[t] = "reserve" /\ UNCHANGED <<writer_serving, cancelled_writers>>
          /\ \A u \in Thread \ {t} : pc'[u] = pc[u] /\ reg'[u] = reg[u]
      OBVIOUS
    <3>2. CASE n \in writer_serving..writer_next - 1
      <4>1. Accounted(n)
        BY <3>2, Zenon
      <4> QED BY ONLY <3>1, <4>1, t \in Thread, Zenon DEF Accounted, Live, Bit
    <3>3. CASE n \notin writer_serving..writer_next - 1
      <4>1. pc'[t] = "addWaiting" /\ reg'[t] = n
        BY <2>3, <3>3
      <4> QED BY <4>1, Zenon
    <3> QED BY <3>2, <3>3, Zenon
  <2> QED BY <2>1, <2>2, <2>3
<1>9. CASE AddWaiting(t)
  BY <1>9 DEF AddWaiting
<1>10. CASE SpinServed(t)
  BY <1>10 DEF SpinServed
<1>11. CASE SpinGiveUp(t)
  BY <1>11 DEF SpinGiveUp
<1>12. CASE LoadState(t)
  BY <1>12 DEF LoadState
<1>13. CASE ExchangeState(t)
  BY <1>13 DEF ExchangeState
<1>14. CASE SetOwner(t)
  BY <1>14 DEF SetOwner
<1>15. CASE WriteUnlockLook(t)
  BY <1>15 DEF WriteUnlockLook, TicketsInv
<1>16. CASE ClearOwner(t)
  BY <1>16 DEF ClearOwner
<1>17. CASE ClearWriter(t)
  <2>1. /\ pc[t] = "clearWriter" /\ pc = [u \in Thread |-> pc[u]]
        /\ \E to \in {"fault", "nextWriter"} : pc' = [pc EXCEPT ![t] = to]
    BY ONLY <1>17, TypeOK, Zenon DEF ClearWriter, Goto, TypeOK
  <2>2. pc'[t] # "fault"
    BY Zenon DEF StateInv, CountsExact
  <2>3. pc' = [pc EXCEPT ![t] = "nextWriter"]
    BY ONLY <2>1, <2>2, t \in Thread, Zenon
  <2>4. UNCHANGED <<writer_next, writer_serving, writer_owner, cancelled_writers, call, reg>>
    BY <1>17 DEF ClearWriter
  <2> QED BY <2>1, <2>3, <2>4 DEF TicketsInv
<1>18. CASE NextWriter(t)
  BY <1>18 DEF NextWriter, TicketsInv
<1>19. CASE RemoveWaiting(t)
  BY <1>19 DEF RemoveWaiting
<1>20. CASE CancelWriter(t)
  BY <1>20 DEF CancelWriter
<1>21. CASE AdvanceLoadOwner(t)
  BY <1>21 DEF AdvanceLoadOwner, TicketsInv
<1>22. CASE AdvanceLoadServing(t)
  BY <1>22 DEF AdvanceLoadServing
<1>23. CASE AdvanceLoad(t)
  BY <1>23 DEF AdvanceLoad
<1>24. CASE AdvanceClear(t)
  BY <1>24, AccountClear, Zenon
<1>25. CASE AdvanceExchange(t)
  BY <1>25 DEF AdvanceExchange
<1> QED
  BY NextCases, <1>1, <1>2, <1>3, <1>4, <1>5, <1>6, <1>7, <1>8, <1>9, <1>10, <1>11,
     <1>12, <1>13, <1>14, <1>15, <1>16, <1>17, <1>18, <1>19, <1>20, <1>21, <1>22,
     <1>23, <1>24, <1>25, Zenon

\* AccountInv is inductive relative to RwInv, as long as every bit is cleared
\* within the window of its ticket.
LEMMA AccountInductive ==
  RwInv /\ AccountInv /\ SkipsInWindow /\ [Next]_vars => AccountInv'
<1> SUFFICES ASSUME RwInv, AccountInv, SkipsInWindow, [Next]_vars PROVE AccountInv'
  OBVIOUS
<1>1. RwInv'
  BY RwInductive
<1>2. CASE Next
  BY <1>1, <1>2, AccountStep, Zenon DEF Next
<1>3. CASE UNCHANGED vars
  BY <1>3 DEF vars, owners, tickets, AccountInv, OwnerWrites, Accounted, NoOrphanedWriter,
              Advances, Live, Skips, Writers
<1> QED BY <1>2, <1>3

\* write_unlock and advance_cancelled_writers leave no ticket behind: in every
\* execution in which each bit is cleared before the counter has come a whole
\* window past the ticket it stands for, the writer ticket being served has
\* somebody who will move the counter on, unless try_write has overtaken it.
\* Without that condition NoOrphanedWriter fails, as RwBitReuse.cfg shows.
THEOREM RwAccountsTickets == Spec /\ []SkipsInWindow => []NoOrphanedWriter
<1>1. Init => AccountInv
  BY DEF Init, AccountInv, OwnerWrites, NoOrphanedWriter
<1>2. AccountInv => NoOrphanedWriter
  BY DEF AccountInv
<1> QED BY <1>1, <1>2, RwInvariant, AccountInductive, PTL DEF Spec
=============================================================================
