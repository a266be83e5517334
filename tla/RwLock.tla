------------------------------- MODULE RwLock -------------------------------
(***************************************************************************)
(* ReaderWriterLock of native/kernel/src/locks.rs.  An action is one       *)
(* atomic access, except that a load / compare-exchange loop that retries  *)
(* until it wins, and has no other effect, is the read-modify-write it     *)
(* amounts to (TicketLock has the reservation loop step by step).  The     *)
(* waiting count stays below its 15-bit limit, since a waiting writer has  *)
(* one of at most Window tickets, so add_waiting_writer cannot be refused. *)
(*                                                                         *)
(* The state word is a record: the writer bit and the numbers of waiting   *)
(* writers and of readers.  reg, snap and bits are a thread's copies of    *)
(* its ticket or a counter, of the state word and of the bitmap.           *)
(***************************************************************************)
EXTENDS Integers, FiniteSets

CONSTANTS
    Thread,      \* threads, each with its own owner token
    NoOwner,     \* owner token zero
    Window,      \* MAX_OUTSTANDING_TICKETS, also the width of the bitmap
    Calls,       \* the write calls made: subset of {"try", "bounded", "lock"}
    MaxTicket    \* bound: writer tickets handed out

ASSUME ThreadAssumption == IsFiniteSet(Thread)
ASSUME NoOwnerAssumption == NoOwner \notin Thread
ASSUME WindowAssumption == Window \in Nat \ {0}
ASSUME CallsAssumption == Calls \subseteq {"try", "bounded", "lock"}
ASSUME MaxTicketAssumption == MaxTicket \in Nat

VARIABLES
    state, reader_owners, writer_owner, writer_next, writer_serving,
    cancelled_writers, pc, call, reg, snap, bits

tickets == <<writer_next, writer_serving, cancelled_writers>>
owners == <<reader_owners, writer_owner>>
vars == <<state, owners, tickets, pc, call, reg, snap, bits>>

Free == [writer |-> FALSE, waiting |-> 0, readers |-> 0]
Bit(n) == n % Window

\* Mutant: a writer enters beside readers.
NoWriterIgnoresReaders(s) == ~s.writer

NoWriter(s) == ~s.writer /\ s.readers = 0

Goto(t, to) == pc' = [pc EXCEPT ![t] = to]

\* The call goes on at point to if ok, and otherwise returns to its caller.
Continue(t, ok, to) ==
    /\ Goto(t, IF ok THEN to ELSE "idle")
    /\ reg' = [reg EXCEPT ![t] = IF ok THEN @ ELSE 0]
    /\ call' = [call EXCEPT ![t] = IF ok THEN @ ELSE "none"]

\* The call goes on with advance_cancelled_writers, which needs none of its
\* registers.
Advance(t) ==
    /\ Goto(t, "advance")
    /\ reg' = [reg EXCEPT ![t] = 0]
    /\ call' = [call EXCEPT ![t] = "none"]

Init ==
    /\ state = Free /\ reader_owners = {} /\ writer_owner = NoOwner
    /\ writer_next = 0 /\ writer_serving = 0 /\ cancelled_writers = {}
    /\ pc = [t \in Thread |-> "idle"]
    /\ call = [t \in Thread |-> "none"]
    /\ reg = [t \in Thread |-> 0]
    /\ snap = [t \in Thread |-> Free]
    /\ bits = [t \in Thread |-> {}]

-----------------------------------------------------------------------------
\* try_read, and one round of read_bounded and read_lock: readers are refused
\* while a writer holds or waits
ReadEnter(t) ==
    /\ pc[t] = "idle" /\ t \notin reader_owners /\ writer_owner # t
    /\ ~state.writer /\ state.waiting = 0
    /\ state' = [state EXCEPT !.readers = @ + 1]
    /\ Goto(t, "readMark")
    /\ UNCHANGED <<owners, tickets, call, reg, snap, bits>>

ReadMark(t) ==
    /\ pc[t] = "readMark"
    /\ reader_owners' = reader_owners \cup {t}
    /\ Goto(t, "reading")
    /\ UNCHANGED <<state, writer_owner, tickets, call, reg, snap, bits>>

ReadUnlockMark(t) ==
    /\ pc[t] = "reading"
    /\ reader_owners' = reader_owners \ {t}
    /\ Goto(t, IF t \in reader_owners THEN "readLeave" ELSE "fault")
    /\ UNCHANGED <<state, writer_owner, tickets, call, reg, snap, bits>>

ReadLeave(t) ==
    /\ pc[t] = "readLeave"
    /\ state' = [state EXCEPT !.readers = @ - 1]
    /\ Goto(t, IF state.readers = 0 \/ state.writer THEN "fault" ELSE "idle")
    /\ UNCHANGED <<owners, tickets, call, reg, snap, bits>>

-----------------------------------------------------------------------------
\* write_bounded and write_lock go on to their reservation; try_write first
\* loads writer_next, writer_serving and the state word, one after the other
WriteStart(t) ==
    /\ pc[t] = "idle" /\ t \notin reader_owners /\ writer_owner # t
    /\ \E k \in Calls :
         /\ call' = [call EXCEPT ![t] = k]
         /\ reg' = [reg EXCEPT ![t] = IF k = "try" THEN writer_next ELSE 0]
         /\ Goto(t, IF k = "try" THEN "tryServing" ELSE "reserve")
    /\ UNCHANGED <<state, owners, tickets, snap, bits>>

TryServing(t) ==
    /\ pc[t] = "tryServing"
    /\ Continue(t, writer_serving = reg[t], "tryState")
    /\ UNCHANGED <<state, owners, tickets, snap, bits>>

TryState(t) ==
    /\ pc[t] = "tryState"
    /\ Continue(t, state = Free, "reserve")
    /\ UNCHANGED <<state, owners, tickets, snap, bits>>

\* reserve_writer: a ticket, or QueueFull
Reserve(t) ==
    /\ pc[t] = "reserve" /\ writer_next < MaxTicket
    /\ LET ok == writer_next - writer_serving < Window
       IN  /\ writer_next' = IF ok THEN writer_next + 1 ELSE writer_next
           /\ reg' = [reg EXCEPT ![t] = IF ok THEN writer_next ELSE 0]
           /\ call' = [call EXCEPT ![t] = IF ok THEN @ ELSE "none"]
           /\ Goto(t, IF ok THEN "addWaiting" ELSE "idle")
    /\ UNCHANGED <<state, owners, writer_serving, cancelled_writers, snap, bits>>

\* Mutant: try_write does not count itself as waiting.
AddWaitingNotTry(t) ==
    /\ pc[t] = "addWaiting"
    /\ state' = IF call[t] = "try" THEN state ELSE [state EXCEPT !.waiting = @ + 1]
    /\ Goto(t, IF call[t] = "try" THEN "loadState" ELSE "spin")
    /\ UNCHANGED <<owners, tickets, call, reg, snap, bits>>

\* try_write goes straight to the state word; the others wait for their ticket
AddWaiting(t) ==
    /\ pc[t] = "addWaiting"
    /\ state' = [state EXCEPT !.waiting = @ + 1]
    /\ Goto(t, IF call[t] = "try" THEN "loadState" ELSE "spin")
    /\ UNCHANGED <<owners, tickets, call, reg, snap, bits>>

\* Mutant: writers do not wait for their ticket.
SpinAnyTicket(t) ==
    /\ pc[t] = "spin"
    /\ Goto(t, "loadState")
    /\ UNCHANGED <<state, owners, tickets, call, reg, snap, bits>>

SpinServed(t) ==
    /\ pc[t] = "spin" /\ writer_serving = reg[t]
    /\ Goto(t, "loadState")
    /\ UNCHANGED <<state, owners, tickets, call, reg, snap, bits>>

\* the attempts of write_bounded are used up
SpinGiveUp(t) ==
    /\ pc[t] = "spin" /\ call[t] = "bounded"
    /\ Goto(t, "removeWaiting")
    /\ UNCHANGED <<state, owners, tickets, call, reg, snap, bits>>

\* where a writer goes on that did not win the state word
Refused(t) == IF call[t] = "try" THEN "removeWaiting" ELSE "spin"

LoadState(t) ==
    /\ pc[t] = "loadState"
    /\ snap' = [snap EXCEPT ![t] = IF NoWriter(state) THEN state ELSE Free]
    /\ Goto(t, IF NoWriter(state) THEN "exchangeState" ELSE Refused(t))
    /\ UNCHANGED <<state, owners, tickets, call, reg, bits>>

ExchangeState(t) ==
    /\ pc[t] = "exchangeState"
    /\ state' = IF state = snap[t]
                THEN [state EXCEPT !.writer = TRUE, !.waiting = @ - 1] ELSE state
    /\ Goto(t, IF state = snap[t] THEN "setOwner" ELSE Refused(t))
    /\ snap' = [snap EXCEPT ![t] = Free]
    /\ UNCHANGED <<owners, tickets, call, reg, bits>>

SetOwner(t) ==
    /\ pc[t] = "setOwner"
    /\ writer_owner' = t
    /\ Goto(t, "writing")
    /\ UNCHANGED <<state, reader_owners, tickets, call, reg, snap, bits>>

\* write_unlock: refused with NotOwner, and then the thread still holds the lock
WriteUnlockLook(t) ==
    /\ pc[t] = "writing" /\ writer_owner = t /\ writer_serving = reg[t]
    /\ Goto(t, "clearOwner")
    /\ UNCHANGED <<state, owners, tickets, call, reg, snap, bits>>

ClearOwner(t) ==
    /\ pc[t] = "clearOwner"
    /\ writer_owner' = NoOwner
    /\ Goto(t, "clearWriter")
    /\ UNCHANGED <<state, reader_owners, tickets, call, reg, snap, bits>>

ClearWriter(t) ==
    /\ pc[t] = "clearWriter"
    /\ state' = [state EXCEPT !.writer = FALSE]
    /\ Goto(t, IF ~state.writer \/ state.readers # 0 THEN "fault" ELSE "nextWriter")
    /\ UNCHANGED <<owners, tickets, call, reg, snap, bits>>

\* Mutant: write_unlock does not skip abandoned tickets.
NextWriterNoAdvance(t) ==
    /\ pc[t] = "nextWriter"
    /\ writer_serving' = writer_serving + 1
    /\ Continue(t, FALSE, "advance")
    /\ UNCHANGED <<state, owners, writer_next, cancelled_writers, snap, bits>>

NextWriter(t) ==
    /\ pc[t] = "nextWriter"
    /\ writer_serving' = writer_serving + 1
    /\ Advance(t)
    /\ UNCHANGED <<state, owners, writer_next, cancelled_writers, snap, bits>>

\* Mutant: a writer that gives up is still counted as waiting.
RemoveWaitingForgets(t) ==
    /\ pc[t] = "removeWaiting"
    /\ Goto(t, "cancel")
    /\ UNCHANGED <<state, owners, tickets, call, reg, snap, bits>>

\* remove_waiting_writer and cancel_writer after a refused or abandoned attempt
RemoveWaiting(t) ==
    /\ pc[t] = "removeWaiting"
    /\ state' = [state EXCEPT !.waiting = IF @ = 0 THEN 0 ELSE @ - 1]
    /\ Goto(t, "cancel")
    /\ UNCHANGED <<owners, tickets, call, reg, snap, bits>>

CancelWriter(t) ==
    /\ pc[t] = "cancel"
    /\ cancelled_writers' = cancelled_writers \cup {Bit(reg[t])}
    /\ Advance(t)
    /\ UNCHANGED <<state, owners, writer_next, writer_serving, snap, bits>>

\* advance_cancelled_writers
AdvanceLoadOwner(t) ==
    /\ pc[t] = "advance"
    /\ Continue(t, writer_owner = NoOwner, "advanceServing")
    /\ UNCHANGED <<state, owners, tickets, snap, bits>>

AdvanceLoadServing(t) ==
    /\ pc[t] = "advanceServing"
    /\ reg' = [reg EXCEPT ![t] = writer_serving]
    /\ Goto(t, "advanceLoad")
    /\ UNCHANGED <<state, owners, tickets, call, snap, bits>>

AdvanceLoad(t) ==
    /\ pc[t] = "advanceLoad"
    /\ LET set == Bit(reg[t]) \in cancelled_writers
       IN  /\ bits' = [bits EXCEPT ![t] = IF set THEN cancelled_writers ELSE {}]
           /\ Continue(t, set, "advanceClear")
    /\ UNCHANGED <<state, owners, tickets, snap>>

AdvanceClear(t) ==
    /\ pc[t] = "advanceClear"
    /\ LET same == cancelled_writers = bits[t]
       IN  /\ cancelled_writers' = IF same THEN cancelled_writers \ {Bit(reg[t])}
                                   ELSE cancelled_writers
           /\ IF same THEN Goto(t, "advanceExchange") /\ UNCHANGED <<call, reg>> ELSE Advance(t)
    /\ bits' = [bits EXCEPT ![t] = {}]
    /\ UNCHANGED <<state, owners, writer_next, writer_serving, snap>>

AdvanceExchange(t) ==
    /\ pc[t] = "advanceExchange"
    /\ writer_serving' = IF writer_serving = reg[t] THEN writer_serving + 1 ELSE writer_serving
    /\ Advance(t)
    /\ UNCHANGED <<state, owners, writer_next, cancelled_writers, snap, bits>>

-----------------------------------------------------------------------------
ReadStep(t) == ReadMark(t) \/ ReadUnlockMark(t) \/ ReadLeave(t)

WriteStep(t) ==
    \/ TryServing(t) \/ TryState(t) \/ Reserve(t) \/ AddWaiting(t) \/ SpinServed(t) \/ SpinGiveUp(t)
    \/ LoadState(t) \/ ExchangeState(t) \/ SetOwner(t)
    \/ WriteUnlockLook(t) \/ ClearOwner(t) \/ ClearWriter(t) \/ NextWriter(t)
    \/ RemoveWaiting(t) \/ CancelWriter(t)
    \/ AdvanceLoadOwner(t) \/ AdvanceLoadServing(t) \/ AdvanceLoad(t)
    \/ AdvanceClear(t) \/ AdvanceExchange(t)

Next == \E t \in Thread : ReadEnter(t) \/ WriteStart(t) \/ ReadStep(t) \/ WriteStep(t)

Spec == Init /\ [][Next]_vars

\* A thread inside a call keeps executing, and holders release the lock.
FairSpec == Spec /\ \A t \in Thread : WF_vars(ReadStep(t) \/ WriteStep(t))

-----------------------------------------------------------------------------
Readers == {t \in Thread : pc[t] \in {"readMark", "reading", "readLeave"}}
Writers == {t \in Thread : pc[t] \in {"setOwner", "writing", "clearOwner", "clearWriter"}}
WaitingWriters == {t \in Thread : pc[t] \in {"spin", "loadState", "exchangeState",
                                             "removeWaiting"}}

\* The types of the lock's atomics and of the threads' registers.
TypeOK ==
    /\ state \in [writer : BOOLEAN, waiting : Nat, readers : Nat]
    /\ reader_owners \subseteq Thread /\ writer_owner \in Thread \cup {NoOwner}
    /\ writer_next \in Nat /\ writer_serving \in Nat
    /\ cancelled_writers \subseteq 0..Window - 1
    /\ pc \in [Thread -> {"idle", "readMark", "reading", "readLeave", "tryServing",
         "tryState", "reserve", "addWaiting",
         "spin", "loadState", "exchangeState", "setOwner", "writing", "clearOwner",
         "clearWriter", "nextWriter", "removeWaiting", "cancel", "advance",
         "advanceServing", "advanceLoad", "advanceClear", "advanceExchange", "fault"}]
    /\ call \in [Thread -> {"none", "try", "bounded", "lock"}]
    /\ reg \in [Thread -> Nat]
    /\ snap \in [Thread -> [writer : BOOLEAN, waiting : Nat, readers : Nat]]
    /\ bits \in [Thread -> SUBSET (0..Window - 1)]

\* A writer excludes readers and other writers, whichever of the three write
\* calls it used and whatever order the tickets were served in.
RwExclusion ==
    /\ Cardinality(Writers) <= 1
    /\ Writers # {} => Readers = {}

\* The state word counts exactly the readers inside and the writers waiting,
\* through every refusal, time-out and race for the word; so neither an
\* underflow nor the Invariant returns can happen.
CountsExact ==
    /\ state.readers = Cardinality(Readers)
    /\ state.waiting = Cardinality(WaitingWriters)
    /\ state.writer = (Writers # {})
    /\ \A t \in Thread : pc[t] # "fault"

\* A writer that holds the lock holds the ticket being served, so that its own
\* write_unlock is accepted.
OwnerCanRelease == \A t \in Writers : writer_serving = reg[t]

\* This holds of every writer that waited for its ticket, also when try_write
\* calls overtake it and skips of abandoned tickets race its release.
TicketedOwnerCanRelease ==
    \A t \in Writers : call[t] # "try" => writer_serving = reg[t]

\* A ticket is live until its thread has set its bit or has moved the serving
\* counter on.
Live(t) == pc[t] \in {"addWaiting", "spin", "loadState", "exchangeState", "setOwner", "writing",
                      "clearOwner", "clearWriter", "nextWriter", "removeWaiting", "cancel"}
Dead(n) == \A t \in Thread : Live(t) => reg[t] # n
\* The thread holds the ticket being served: it has waited for it, or
\* write_unlock has found it so.
Served(t) == \/ pc[t] \in {"clearOwner", "clearWriter", "nextWriter"}
             \/ /\ pc[t] \in {"loadState", "exchangeState", "setOwner", "writing"}
                /\ call[t] # "try"
Skips(t) == pc[t] \in {"advanceClear", "advanceExchange"}

StateInv ==
    /\ CountsExact
    /\ reader_owners = {t \in Thread : pc[t] = "reading"}
    /\ \A t, u \in Writers : t = u
    /\ state.writer => state.readers = 0
    /\ \A t \in Thread : pc[t] = "exchangeState" => NoWriter(snap[t])
TicketsInv ==
    /\ writer_serving <= writer_next /\ writer_next - writer_serving <= Window
    /\ \A t \in Thread :
         /\ Live(t) => writer_serving <= reg[t] /\ reg[t] < writer_next
         /\ Served(t) => reg[t] = writer_serving
         /\ pc[t] = "advanceLoad" \/ Skips(t) => reg[t] <= writer_serving
         /\ \A u \in Thread : Live(t) /\ Live(u) /\ t # u => reg[t] # reg[u]
CancelledInv ==
    \A b \in cancelled_writers :
      \E n \in writer_serving..writer_next - 1 : Bit(n) = b /\ Dead(n)
SkipInv ==
    \A t \in Thread :
      Skips(t) /\ reg[t] = writer_serving =>
        /\ writer_serving < writer_next /\ Dead(writer_serving)
        /\ pc[t] = "advanceExchange" => Bit(writer_serving) \notin cancelled_writers

\* The inductive invariant behind RwExclusion, CountsExact and
\* TicketedOwnerCanRelease: what the state word says of the threads, a snapshot
\* that is about to be exchanged was free, and the writers' tickets behave as
\* those of the ticket lock, although try_write takes the word out of turn.
RwInv == TypeOK /\ StateInv /\ TicketsInv /\ CancelledInv /\ SkipInv

Advances(t) ==
    \/ pc[t] \in {"advance", "advanceServing"} \/ Skips(t)
    \/ /\ pc[t] = "advanceLoad" /\ reg[t] = writer_serving
       /\ Bit(writer_serving) \in cancelled_writers

\* The writer ticket being served belongs to a live thread, or some thread is on
\* its way through advance_cancelled_writers and will step over it, or try_write
\* has taken the lock out of turn: no writer waits behind a ticket that everybody
\* has forgotten.
NoOrphanedWriter ==
    writer_serving < writer_next =>
      \E t \in Thread :
        \/ Advances(t) \/ (Live(t) /\ reg[t] = writer_serving)
        \/ t \in Writers /\ call[t] = "try"

\* No thread in advance_cancelled_writers is about to clear the bit of a ticket
\* that is a whole window old, whose bit may by now stand for a later ticket.
SkipsInWindow ==
    \A t \in Thread : pc[t] = "advanceClear" => writer_next - reg[t] <= Window

\* A writer in write_lock gets the lock, if the threads inside calls keep
\* executing, nobody uses try_write, and no thread in advance_cancelled_writers
\* is overtaken by a whole window of tickets: readers stop arriving as soon as
\* the writer is counted as waiting, and tickets abandoned ahead of it are
\* skipped, by whoever gets there first.
WriterProgress ==
    [](SkipsInWindow /\ \A t \in Thread : call[t] # "try") =>
      \A t \in Thread : (pc[t] = "spin" /\ call[t] = "lock") ~> (pc[t] = "writing")
=============================================================================
