----------------------------- MODULE TicketLock -----------------------------
(***************************************************************************)
(* TicketSpinLock of native/kernel/src/locks.rs, one action per atomic     *)
(* access.  The owner tokens are the threads.  Loads, stores and           *)
(* read-modify-writes are interleaved as x86-64 executes them: every write *)
(* of the lock is a locked instruction, so the interleaving is sequential. *)
(* Statistics counters are left out.                                       *)
(*                                                                         *)
(* A thread is at the program point pc[t].  reg[t] is the counter value it *)
(* loaded last, which becomes its ticket when it wins the exchange on next *)
(* and a copy of serving again in advance_cancelled; bits[t] is the bitmap *)
(* it loaded.                                                              *)
(***************************************************************************)
EXTENDS Integers, FiniteSets

CONSTANTS
    Thread,      \* threads, each with its own owner token
    NoOwner,     \* owner token zero
    Window,      \* MAX_OUTSTANDING_TICKETS, also the width of the bitmap
    Bounded,     \* the calls threads make: TRUE for lock_bounded, FALSE for lock
    MaxTicket    \* bound: tickets handed out

ASSUME NoOwnerAssumption == NoOwner \notin Thread
ASSUME WindowAssumption == Window \in Nat \ {0}
ASSUME BoundedAssumption == Bounded \subseteq BOOLEAN
ASSUME MaxTicketAssumption == MaxTicket \in Nat

VARIABLES
    next, serving,   \* ticket counters
    owner,           \* owner token of the holder
    cancelled,       \* bitmap of abandoned tickets
    pc, bounded,     \* program point; whether the call is lock_bounded
    reg, bits        \* registers

vars == <<next, serving, owner, cancelled, pc, bounded, reg, bits>>
shared == <<next, serving, owner, cancelled>>

Bit(n) == n % Window

\* The wrapping subtraction n - serving < MAX_OUTSTANDING_TICKETS: a counter
\* that serving has overtaken wraps to a distance far beyond the window.
InWindow(n) == serving <= n /\ n - serving < Window

Goto(t, to) == pc' = [pc EXCEPT ![t] = to]

\* The call goes on at point to if ok, and otherwise returns to its caller.
Continue(t, ok, to) ==
    /\ Goto(t, IF ok THEN to ELSE "idle")
    /\ reg' = [reg EXCEPT ![t] = IF ok THEN @ ELSE 0]
    /\ bounded' = [bounded EXCEPT ![t] = @ /\ ok]

\* The call goes on with advance_cancelled, which needs none of its registers.
Advance(t) ==
    /\ Goto(t, "advance")
    /\ reg' = [reg EXCEPT ![t] = 0]
    /\ bounded' = [bounded EXCEPT ![t] = FALSE]

Init ==
    /\ next = 0 /\ serving = 0 /\ owner = NoOwner /\ cancelled = {}
    /\ pc = [t \in Thread |-> "idle"]
    /\ bounded = [t \in Thread |-> FALSE]
    /\ reg = [t \in Thread |-> 0]
    /\ bits = [t \in Thread |-> {}]

-----------------------------------------------------------------------------
\* try_lock: serving is loaded first, then next, then next is exchanged
TryLoadServing(t) ==
    /\ pc[t] = "idle" /\ owner # t
    /\ reg' = [reg EXCEPT ![t] = serving]
    /\ Goto(t, "tryNext")
    /\ UNCHANGED <<shared, bounded, bits>>

TryLoadNext(t) ==
    /\ pc[t] = "tryNext"
    /\ Continue(t, next = reg[t], "tryExchange")
    /\ UNCHANGED <<shared, bits>>

TryExchange(t) ==
    /\ pc[t] = "tryExchange" /\ next < MaxTicket
    /\ next' = IF next = reg[t] THEN next + 1 ELSE next
    /\ Continue(t, next = reg[t], "claim")
    /\ UNCHANGED <<serving, owner, cancelled, bits>>

\* lock and lock_bounded start with reserve_ticket
ReserveLoadNext(t) ==
    /\ \/ pc[t] = "idle" /\ owner # t /\ \E b \in Bounded : bounded' = [bounded EXCEPT ![t] = b]
       \/ pc[t] = "reserve" /\ UNCHANGED bounded
    /\ reg' = [reg EXCEPT ![t] = next]
    /\ Goto(t, "reserveServing")
    /\ UNCHANGED <<shared, bits>>

\* Mutant: one ticket too many.
ReserveWindowOffByOne(t) ==
    /\ pc[t] = "reserveServing"
    /\ Goto(t, IF serving <= reg[t] /\ reg[t] - serving <= Window
               THEN "reserveExchange" ELSE "reserveFull")
    /\ UNCHANGED <<shared, bounded, reg, bits>>

ReserveLoadServing(t) ==
    /\ pc[t] = "reserveServing"
    /\ Goto(t, IF InWindow(reg[t]) THEN "reserveExchange" ELSE "reserveFull")
    /\ UNCHANGED <<shared, bounded, reg, bits>>

\* An apparently full window is refused only if next has not moved meanwhile.
ReserveRecheck(t) ==
    /\ pc[t] = "reserveFull"
    /\ Continue(t, next # reg[t], "reserve")
    /\ UNCHANGED <<shared, bits>>

ReserveExchange(t) ==
    /\ pc[t] = "reserveExchange" /\ next < MaxTicket
    /\ next' = IF next = reg[t] THEN next + 1 ELSE next
    /\ Goto(t, IF next = reg[t] THEN "spin" ELSE "reserve")
    /\ UNCHANGED <<serving, owner, cancelled, bounded, reg, bits>>

\* Mutant: a waiter takes a lock nobody owns although it is not its turn.
SpinBarges(t) ==
    /\ pc[t] \in {"spin", "lastLook"} /\ (serving = reg[t] \/ owner = NoOwner)
    /\ Goto(t, "claim")
    /\ UNCHANGED <<shared, bounded, reg, bits>>

\* The spin loop, and the load after its last attempt
SpinServed(t) ==
    /\ pc[t] \in {"spin", "lastLook"} /\ serving = reg[t]
    /\ Goto(t, "claim")
    /\ UNCHANGED <<shared, bounded, reg, bits>>

SpinGiveUp(t) ==
    /\ pc[t] \in {"spin", "lastLook"} /\ bounded[t] /\ serving # reg[t]
    /\ Goto(t, IF pc[t] = "spin" THEN "lastLook" ELSE "cancel")
    /\ UNCHANGED <<shared, bounded, reg, bits>>

\* claim: a failed exchange is Error::Invariant
Claim(t) ==
    /\ pc[t] = "claim"
    /\ owner' = IF owner = NoOwner THEN t ELSE owner
    /\ Goto(t, IF owner = NoOwner THEN "holding" ELSE "fault")
    /\ UNCHANGED <<next, serving, cancelled, bounded, reg, bits>>

-----------------------------------------------------------------------------
CancelLoadServing(t) ==
    /\ pc[t] = "cancel"
    /\ Goto(t, IF InWindow(reg[t]) THEN "cancelSet" ELSE "fault")
    /\ UNCHANGED <<shared, bounded, reg, bits>>

\* Mutant: cancel leaves the skipping to the next unlock.
CancelNoAdvance(t) ==
    /\ pc[t] = "cancelSet"
    /\ cancelled' = cancelled \cup {Bit(reg[t])}
    /\ Continue(t, FALSE, "advance")
    /\ UNCHANGED <<next, serving, owner, bits>>

\* Mutant: cancel clears the owner word, as unlock does.
CancelClearsOwner(t) ==
    /\ pc[t] = "cancelSet"
    /\ cancelled' = cancelled \cup {Bit(reg[t])}
    /\ owner' = NoOwner
    /\ Advance(t)
    /\ UNCHANGED <<next, serving, bits>>

CancelSet(t) ==
    /\ pc[t] = "cancelSet"
    /\ cancelled' = cancelled \cup {Bit(reg[t])}
    /\ Advance(t)
    /\ UNCHANGED <<next, serving, owner, bits>>

\* unlock
UnlockLoadServing(t) ==
    /\ pc[t] = "holding"
    /\ Goto(t, IF serving = reg[t] THEN "unlockOwner" ELSE "fault")
    /\ UNCHANGED <<shared, bounded, reg, bits>>

UnlockOwner(t) ==
    /\ pc[t] = "unlockOwner"
    /\ owner' = IF owner = t THEN NoOwner ELSE owner
    /\ Goto(t, IF owner = t THEN "unlockServing" ELSE "fault")
    /\ UNCHANGED <<next, serving, cancelled, bounded, reg, bits>>

\* Mutant: unlock does not skip abandoned tickets.
UnlockNoAdvance(t) ==
    /\ pc[t] = "unlockServing"
    /\ serving' = serving + 1
    /\ Continue(t, FALSE, "advance")
    /\ UNCHANGED <<next, owner, cancelled, bits>>

UnlockServing(t) ==
    /\ pc[t] = "unlockServing"
    /\ serving' = serving + 1
    /\ Advance(t)
    /\ UNCHANGED <<next, owner, cancelled, bits>>

\* advance_cancelled, the tail of both unlock and cancel
AdvanceLoadOwner(t) ==
    /\ pc[t] = "advance"
    /\ Continue(t, owner = NoOwner, "advanceServing")
    /\ UNCHANGED <<shared, bits>>

AdvanceLoadServing(t) ==
    /\ pc[t] = "advanceServing"
    /\ reg' = [reg EXCEPT ![t] = serving]
    /\ Goto(t, "advanceTest")
    /\ UNCHANGED <<shared, bounded, bits>>

AdvanceTest(t) ==
    /\ pc[t] = "advanceTest"
    /\ Continue(t, Bit(reg[t]) \in cancelled, "advanceLoad")
    /\ UNCHANGED <<shared, bits>>

AdvanceLoad(t) ==
    /\ pc[t] = "advanceLoad"
    /\ bits' = [bits EXCEPT ![t] = cancelled]
    /\ Goto(t, "advanceClear")
    /\ UNCHANGED <<shared, bounded, reg>>

AdvanceClear(t) ==
    /\ pc[t] = "advanceClear"
    /\ cancelled' = IF cancelled = bits[t] THEN cancelled \ {Bit(reg[t])} ELSE cancelled
    /\ \/ cancelled = bits[t] /\ Goto(t, "advanceExchange") /\ UNCHANGED <<bounded, reg>>
       \/ cancelled # bits[t] /\ Advance(t)
    /\ bits' = [bits EXCEPT ![t] = {}]
    /\ UNCHANGED <<next, serving, owner>>

\* Mutant: serving is incremented without comparing it.
AdvanceIncrement(t) ==
    /\ pc[t] = "advanceExchange"
    /\ serving' = serving + 1
    /\ Advance(t)
    /\ UNCHANGED <<next, owner, cancelled, bits>>

AdvanceExchange(t) ==
    /\ pc[t] = "advanceExchange"
    /\ serving' = IF serving = reg[t] THEN serving + 1 ELSE serving
    /\ Advance(t)
    /\ UNCHANGED <<next, owner, cancelled, bits>>

-----------------------------------------------------------------------------
\* The steps of a call that has started.
Step(t) ==
    \/ TryLoadNext(t) \/ TryExchange(t)
    \/ ReserveLoadServing(t) \/ ReserveRecheck(t) \/ ReserveExchange(t)
    \/ SpinServed(t) \/ SpinGiveUp(t) \/ Claim(t)
    \/ CancelLoadServing(t) \/ CancelSet(t)
    \/ UnlockLoadServing(t) \/ UnlockOwner(t) \/ UnlockServing(t)
    \/ AdvanceLoadOwner(t) \/ AdvanceLoadServing(t) \/ AdvanceTest(t)
    \/ AdvanceLoad(t) \/ AdvanceClear(t) \/ AdvanceExchange(t)

Next == \E t \in Thread : TryLoadServing(t) \/ ReserveLoadNext(t) \/ Step(t)

Spec == Init /\ [][Next]_vars

\* Every thread that has started a call keeps executing, and a holder unlocks.
FairSpec ==
    /\ Spec
    /\ \A t \in Thread : WF_vars(Step(t) \/ (pc[t] = "reserve" /\ ReserveLoadNext(t)))

-----------------------------------------------------------------------------
Pc == {"idle", "tryNext", "tryExchange", "reserve", "reserveServing", "reserveFull",
       "reserveExchange", "spin", "lastLook", "claim", "holding", "unlockOwner",
       "unlockServing", "cancel", "cancelSet", "advance", "advanceServing",
       "advanceTest", "advanceLoad", "advanceClear", "advanceExchange", "fault"}

\* The types of the lock's atomics and of the threads' registers.
TypeOK ==
    /\ next \in Nat /\ serving \in Nat
    /\ owner \in Thread \cup {NoOwner}
    /\ cancelled \subseteq 0..Window - 1
    /\ pc \in [Thread -> Pc] /\ bounded \in [Thread -> BOOLEAN]
    /\ reg \in [Thread -> Nat]
    /\ bits \in [Thread -> SUBSET (0..Window - 1)]

\* A ticket is live until its thread has set its bit or has moved serving on.
Live(t) == pc[t] \in {"spin", "lastLook", "claim", "holding", "unlockOwner",
                      "unlockServing", "cancel", "cancelSet"}
Dead(n) == \A t \in Thread : Live(t) => reg[t] # n
Holds(t) == pc[t] \in {"holding", "unlockOwner"}
Served(t) == pc[t] \in {"claim", "holding", "unlockOwner", "unlockServing"}
Skips(t) == pc[t] \in {"advanceLoad", "advanceClear", "advanceExchange"}

\* Two threads never hold the lock together, and the owner word names the
\* holder: unlock clears it before the next ticket is served, and a skip of
\* abandoned tickets that races an unlock or another skip serves nobody early.
MutualExclusion ==
    \A t \in Thread :
        Holds(t) => owner = t /\ \A u \in Thread : Holds(u) => u = t

\* claim, cancel and unlock never return Invariant or NotOwner to a caller that
\* uses the lock correctly.
NoFault == \A t \in Thread : pc[t] # "fault"

\* advance_cancelled never moves serving past a ticket whose thread still waits
\* or holds, however long ago it loaded serving and the bitmap.
NoSkippedTicket == \A t \in Thread : Live(t) => serving <= reg[t]

Advances(t) ==
    \/ pc[t] \in {"advance", "advanceServing"} \/ Skips(t)
    \/ pc[t] = "advanceTest" /\ reg[t] = serving /\ Bit(serving) \in cancelled

\* A ticket being served belongs to a live thread, or some thread is on its way
\* through advance_cancelled and will step over it: no caller waits behind a
\* ticket that everybody has forgotten.
NoOrphanedTicket ==
    serving < next =>
      \E t \in Thread : Advances(t) \/ (Live(t) /\ reg[t] = serving)

\* A thread in lock() gets the lock, if the threads that are inside a call keep
\* executing.
WaiterProgress ==
    \A t \in Thread : (pc[t] = "spin" /\ ~bounded[t]) ~> (pc[t] = "holding")

TicketsInv ==
    /\ serving <= next /\ next - serving <= Window
    /\ \A t \in Thread :
         /\ Live(t) => serving <= reg[t] /\ reg[t] < next
         /\ Served(t) => reg[t] = serving
         /\ \A u \in Thread : Live(t) /\ Live(u) /\ t # u => reg[t] # reg[u]
OwnerInv ==
    /\ \A t \in Thread : Holds(t) <=> owner = t
    /\ NoFault
RegisterInv ==
    \A t \in Thread :
      /\ pc[t] \in {"tryNext", "tryExchange", "advanceTest"} \/ Skips(t) => reg[t] <= serving
      /\ pc[t] \in {"reserveServing", "reserveExchange"} => reg[t] <= next
      /\ pc[t] = "reserveExchange" /\ next = reg[t] => next - serving < Window
CancelledInv ==
    \A b \in cancelled : \E n \in serving..next - 1 : Bit(n) = b /\ Dead(n)
SkipInv ==
    \A t \in Thread :
      reg[t] = serving =>
        /\ Skips(t) => serving < next /\ Dead(serving)
        /\ pc[t] = "advanceExchange" => Bit(serving) \notin cancelled

\* The inductive invariant behind MutualExclusion, NoFault and NoSkippedTicket:
\* tickets are distinct and within the window, the owner word names the holder,
\* what a call keeps in registers is not ahead of the counters, a set bit stands
\* for an abandoned ticket of the window, and a skip in progress that still
\* matches serving steps over an abandoned ticket.
LockInv == TypeOK /\ TicketsInv /\ OwnerInv /\ RegisterInv /\ CancelledInv /\ SkipInv
=============================================================================
