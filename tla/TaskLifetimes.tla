--------------------------- MODULE TaskLifetimes ---------------------------
(***************************************************************************)
(* PKLIFE1, the composition of native/kernel/src/reclamation/              *)
(* task_lifetimes.rs: the PKSCHED4 controller of SmpScheduler, the pinned  *)
(* object pool of reclamation.rs that holds each task's address space and  *)
(* stack, and the execution holds of reclamation/execution.rs.             *)
(*                                                                         *)
(* The controller's operations take &mut self, so their pool operations    *)
(* never find the pool's gate taken.  pin takes &self: a reader that loses *)
(* the gate to another gets Busy and nothing changes.  Readers drop their  *)
(* pins at any time, with one atomic decrement.  Each Resources value has  *)
(* an address space and a stack of its own, so the DuplicateRoot and       *)
(* DuplicateStack refusals are left out.  The two pool generations that    *)
(* name an owner are always those of its binding.                          *)
(***************************************************************************)
EXTENDS SmpScheduler

CONSTANTS
    CAPACITY,             \* number of pool slots
    Reader,               \* readers on other threads
    pins_per_object,      \* Limits
    generations_per_slot,
    NoHandle              \* Option::None

ASSUME CapacityAssumption == CAPACITY = Cardinality(Slot)
ASSUME LimitsAssumption == pins_per_object \in Nat \ {0} /\ generations_per_slot \in Nat \ {0}
ASSUME ReaderAssumption == IsFiniteSet(Reader)

PoolSlot == 1..CAPACITY
Handle == [slot : PoolSlot, generation : Nat]
ASSUME HandleAssumption == NoHandle \notin Handle

VARIABLES
    entries,      \* Pool: phase and generation of each slot
    pins,         \* Pool: pin count of each slot
    bindings,     \* the handle of each task slot's object, and whether it is retired
    generations,  \* last task generation handed out for each task slot
    phase,        \* of the controller: "open", "draining" or "dropped"
    readers,      \* the handle each reader has pinned
    holds         \* the Dispatch values: handle, ticket and what has become of them

poolVars == <<entries, pins>>
lifeVars == <<entries, pins, bindings, generations, phase, readers, holds>>
vars == <<schedVars, lifeVars>>

EMPTY == [phase |-> "Free", generation |-> 0]
NoBinding == [handle |-> NoHandle, retired |-> FALSE]

Bound(s) == bindings[s] # NoBinding

LifeInit ==
    /\ Init
    /\ entries = [i \in PoolSlot |-> EMPTY]
    /\ pins = [i \in PoolSlot |-> 0]
    /\ bindings = [s \in Slot |-> NoBinding]
    /\ generations = [s \in Slot |-> 0]
    /\ phase = "open"
    /\ readers = [r \in Reader |-> NoHandle]
    /\ holds = {}

-----------------------------------------------------------------------------
(* The pool *)

Publishable == {i \in PoolSlot : /\ entries[i].phase = "Free"
                                 /\ entries[i].generation < generations_per_slot}

\* publish: the first free slot that has a generation left
Publish(s) ==
    \E i \in Publishable :
      LET h == [slot |-> i, generation |-> entries[i].generation + 1] IN
        /\ \A j \in Publishable : i <= j
        /\ entries' = [entries EXCEPT ![i] = [phase |-> "Live", generation |-> h.generation]]
        /\ bindings' = [bindings EXCEPT ![s] = [handle |-> h, retired |-> FALSE]]

\* validate
Valid(h) == entries[h.slot].phase # "Free" /\ entries[h.slot].generation = h.generation

PoolPin(h) ==
    /\ Valid(h) /\ entries[h.slot].phase = "Live" /\ pins[h.slot] < pins_per_object
    /\ pins' = [pins EXCEPT ![h.slot] = @ + 1]

PoolRetire(h) ==
    /\ Valid(h) /\ entries[h.slot].phase # "Retired"
    /\ entries' = [entries EXCEPT ![h.slot].phase = "Retired"]

\* Mutant: the pin count is not looked at.
ReclaimPinned(h) ==
    /\ Valid(h) /\ entries[h.slot].phase = "Retired"
    /\ entries' = [entries EXCEPT ![h.slot].phase = "Free"]

PoolReclaim(h) ==
    /\ Valid(h) /\ entries[h.slot].phase = "Retired" /\ pins[h.slot] = 0
    /\ entries' = [entries EXCEPT ![h.slot].phase = "Free"]

\* retire, once the scheduler has made the task Dead
Retire(s) ==
    /\ Bound(s) /\ ~bindings[s].retired
    /\ PoolRetire(bindings[s].handle)
    /\ bindings' = [bindings EXCEPT ![s].retired = TRUE]
    /\ UNCHANGED <<pins, generations, phase, readers, holds>>

-----------------------------------------------------------------------------
(* The controller *)

\* A create_task that fails after the publication is rolled back; BindingsOk
\* says that it cannot fail.
Create(s, p, a) ==
    /\ phase = "open" /\ ~Bound(s) /\ generations[s] < MaxGeneration
    /\ Publish(s)
    /\ CreateTask(s, generations[s] + 1, p, a)
    /\ generations' = [generations EXCEPT ![s] = @ + 1]
    /\ UNCHANGED <<pins, phase, readers, holds>>

ActivateBound(s, c) ==
    /\ phase = "open" /\ Bound(s)
    /\ Activate(s, c)
    /\ UNCHANGED lifeVars

Block(s) ==
    /\ phase # "dropped" /\ Bound(s)
    /\ BlockRunnable(s)
    /\ UNCHANGED lifeVars

\* Mutant: the cancelled task's resources are not retired.
CancelKeepsLive(s) ==
    /\ phase # "dropped" /\ Bound(s)
    /\ CancelTask(s)
    /\ UNCHANGED lifeVars

Cancel(s) ==
    /\ phase # "dropped" /\ Bound(s)
    /\ CancelTask(s)
    /\ Retire(s)

\* Mutant: a task that was never activated cannot be cancelled in a shutdown,
\* as it can no longer be activated.
CancelDormantOpen(s) ==
    /\ phase = "open" /\ Bound(s)
    /\ NoPending /\ Live(s) /\ tasks[s].state = "Dormant"
    /\ tasks[s].affinity \cap online # {}
    /\ tasks' = [tasks EXCEPT ![s] = [Dead(@) EXCEPT !.owner_epoch = 1]]
    /\ UNCHANGED <<queues, current, online, ticketVars>>
    /\ Retire(s)

\* cancel_dormant: activate on the least loaded CPU it may use, then cancel
CancelDormant(s) ==
    /\ phase # "dropped" /\ Bound(s)
    /\ NoPending /\ Live(s) /\ tasks[s].state = "Dormant"
    /\ tasks[s].affinity \cap online # {}
    /\ tasks' = [tasks EXCEPT ![s] = [Dead(@) EXCEPT !.owner_epoch = 1]]
    /\ UNCHANGED <<queues, current, online, ticketVars>>
    /\ Retire(s)

RunLocal ==
    /\ phase = "open"
    /\ \E i \in DOMAIN queues[0] : DispatchLocal(i) /\ Retire(queues[0][i].slot)

\* Mutant: the resources are pinned after the ticket has been handed out.
StageUnpinned(c) ==
    /\ phase = "open"
    /\ StageDispatch(c)
    /\ holds' = holds \cup {[handle |-> bindings[pending'.task.slot].handle,
                             ticket |-> pending', state |-> "exposed"]}
    /\ UNCHANGED <<entries, pins, bindings, generations, phase, readers>>

\* stage_dispatch: the execution pin is taken before the ticket is handed out.
Stage(c) ==
    /\ phase = "open"
    /\ StageDispatch(c)
    /\ LET h == bindings[pending'.task.slot].handle IN
         /\ PoolPin(h)
         /\ holds' = holds \cup {[handle |-> h, ticket |-> pending', state |-> "exposed"]}
    /\ UNCHANGED <<entries, bindings, generations, phase, readers>>

Probe(s) ==
    /\ phase = "open" /\ Bound(s)
    /\ StageOfflineProbe(s)
    /\ UNCHANGED lifeVars

\* acknowledge and timeout_offline
Settle ==
    /\ phase # "dropped"
    /\ (\E ack \in answered : Acknowledge(ack)) \/ Timeout
    /\ UNCHANGED lifeVars

Complete(c) ==
    /\ phase # "dropped"
    /\ CompleteCurrent(c)
    /\ Retire(current[c].slot)

\* reclaim: the resources go back to the caller
Reclaim(s) ==
    /\ phase # "dropped" /\ Bound(s) /\ bindings[s].retired
    /\ PoolReclaim(bindings[s].handle)
    /\ bindings' = [bindings EXCEPT ![s] = NoBinding]
    /\ UNCHANGED <<schedVars, pins, generations, phase, readers, holds>>

BeginShutdown ==
    /\ phase = "open"
    /\ phase' = "draining"
    /\ UNCHANGED <<schedVars, entries, pins, bindings, generations, readers, holds>>

\* Drop for TaskLifetimes: what is left in the storage stays there.
DropController ==
    /\ phase # "dropped"
    /\ phase' = "dropped"
    /\ UNCHANGED <<schedVars, entries, pins, bindings, generations, readers, holds>>

-----------------------------------------------------------------------------
(* Readers and dispatches *)

PinTask(r, s) ==
    /\ phase = "open" /\ Bound(s) /\ readers[r] = NoHandle
    /\ PoolPin(bindings[s].handle)
    /\ readers' = [readers EXCEPT ![r] = bindings[s].handle]
    /\ UNCHANGED <<schedVars, entries, bindings, generations, phase, holds>>

\* Mutant: a pin is released by hand and then by its destructor again.
DropPinTwice(r) ==
    /\ readers[r] # NoHandle
    /\ pins' = [pins EXCEPT ![readers[r].slot] = @ - 2]
    /\ readers' = [readers EXCEPT ![r] = NoHandle]
    /\ UNCHANGED <<schedVars, entries, bindings, generations, phase, holds>>

DropPin(r) ==
    /\ readers[r] # NoHandle
    /\ pins' = [pins EXCEPT ![readers[r].slot] = @ - 1]
    /\ readers' = [readers EXCEPT ![r] = NoHandle]
    /\ UNCHANGED <<schedVars, entries, bindings, generations, phase, holds>>

Becomes(h, state) == holds' = (holds \ {h}) \cup {[h EXCEPT !.state = state]}

\* External: a CPU stops using a dispatched context, at some time after the
\* scheduler has given the task up.
Quiesce(h) ==
    /\ h.state = "exposed"
    /\ ~(Known(h.ticket.task) /\ tasks[h.ticket.task.slot].state \in {"Transfer", "Running"})
    /\ Becomes(h, "quiet")
    /\ UNCHANGED <<schedVars, entries, pins, bindings, generations, phase, readers>>

\* Drop for Dispatch: the pin is kept for ever.
DropDispatch(h) ==
    /\ h.state # "dropped"
    /\ Becomes(h, "dropped")
    /\ UNCHANGED <<schedVars, entries, pins, bindings, generations, phase, readers>>

\* Mutant: the hold is released while the CPU may still run the task.
ConfirmEarly(h) ==
    /\ h.state # "dropped"
    /\ pins' = [pins EXCEPT ![h.handle.slot] = @ - 1]
    /\ holds' = holds \ {h}
    /\ UNCHANGED <<schedVars, entries, bindings, generations, phase, readers>>

ConfirmQuiescent(h) ==
    /\ h.state = "quiet"
    /\ pins' = [pins EXCEPT ![h.handle.slot] = @ - 1]
    /\ holds' = holds \ {h}
    /\ UNCHANGED <<schedVars, entries, bindings, generations, phase, readers>>

-----------------------------------------------------------------------------
LifeTaskOp(s) ==
    \/ \E p \in Priority, a \in Affinity : Create(s, p, a)
    \/ \E c \in Cpu : ActivateBound(s, c)
    \/ Block(s)
    \/ Cancel(s)
    \/ CancelDormant(s)
    \/ Probe(s)
    \/ Reclaim(s)

ReaderOp(r) == DropPin(r) \/ \E s \in Slot : PinTask(r, s)

HoldOp(h) == Quiesce(h) \/ DropDispatch(h) \/ ConfirmQuiescent(h)

LifeNext ==
    \/ \E s \in Slot : LifeTaskOp(s)
    \/ \E c \in Cpu : Stage(c) \/ Complete(c)
    \/ RunLocal
    \/ Settle
    \/ BeginShutdown
    \/ DropController
    \/ Answer /\ UNCHANGED lifeVars
    \/ \E r \in Reader : ReaderOp(r)
    \/ \E h \in holds : HoldOp(h)

LifeSpec == LifeInit /\ [][LifeNext]_vars

-----------------------------------------------------------------------------
\* The types of the pool's and the controller's fields.
LifeTypeOK ==
    /\ TypeOK
    /\ entries \in [PoolSlot -> [phase : {"Free", "Live", "Retired"}, generation : Nat]]
    /\ pins \in [PoolSlot -> Nat]
    /\ bindings \in [Slot -> [handle : Handle, retired : BOOLEAN] \cup {NoBinding}]
    /\ generations \in [Slot -> Nat]
    /\ phase \in {"open", "draining", "dropped"}
    /\ readers \in [Reader -> Handle \cup {NoHandle}]
    /\ \A h \in holds : h.handle \in Handle /\ h.state \in {"exposed", "quiet", "dropped"}

Pinned == {r \in Reader : readers[r] # NoHandle}

\* The pin counts are exact: one for every reader and for every dispatch whose
\* quiescence has not been confirmed, those that were lost included.
PinsExact ==
    \A i \in PoolSlot :
      pins[i] = Cardinality({r \in Pinned : readers[r].slot = i})
                + Cardinality({h \in holds : h.handle.slot = i})

\* Nobody uses resources that have been handed back: the object of every
\* reader, and of every dispatch that a CPU may still execute, is in the pool
\* with the generation it was pinned with, although the scheduler has
\* completed or cancelled the task and its slot may have been asked for again.
HeldAlive ==
    /\ \A r \in Pinned : Valid(readers[r])
    /\ \A h \in holds : Valid(h.handle)

\* A task on a CPU, or on its way to one, has an execution hold.
RunsHeld ==
    \A s \in Slot : tasks[s].state \in {"Transfer", "Running"} =>
      \E h \in holds : h.ticket.task = Id(s) /\ h.state # "quiet"
                       /\ h.handle = bindings[s].handle

\* Bindings, scheduler slots and pool slots agree: an unbound slot can be
\* created again with the next generation, a bound one names its own live
\* object, retired exactly when the task is dead, and every object in the pool
\* belongs to one task.
BindingsOk ==
    /\ \A s \in Slot :
         /\ tasks[s].generation = generations[s]
         /\ ~Bound(s) => ~Live(s) \/ tasks[s].state = "Dead"
         /\ Bound(s) =>
              /\ Live(s) /\ Valid(bindings[s].handle)
              /\ bindings[s].retired = (tasks[s].state = "Dead")
              /\ bindings[s].retired = (entries[bindings[s].handle.slot].phase = "Retired")
    /\ \A i \in PoolSlot : entries[i].phase # "Free" =>
         Cardinality({s \in Slot : Bound(s) /\ bindings[s].handle.slot = i}) = 1

-----------------------------------------------------------------------------
\* Fairness: CPUs answer and leave contexts they were told to leave, readers
\* drop their pins, and the owner of a controller that is shutting down
\* settles, cancels, completes, confirms and reclaims whatever it still has.
LifeFair ==
    /\ LifeSpec
    /\ WF_vars(Answer /\ UNCHANGED lifeVars) /\ WF_vars(Settle)
    /\ \A c \in Cpu : WF_vars(Complete(c))
    /\ \A s \in Slot : WF_vars(Cancel(s) \/ CancelDormant(s) \/ Reclaim(s))
    /\ \A r \in Reader : WF_vars(DropPin(r))
    /\ WF_vars(\E h \in holds : Quiesce(h) \/ ConfirmQuiescent(h))

\* is_drained
Drained == phase = "draining" /\ \A s \in Slot : ~Bound(s)
                              /\ \A i \in PoolSlot : entries[i].phase = "Free"

\* A shutdown completes, whatever was queued, running, staged or pinned when it
\* began, unless the controller or a dispatch is dropped.
ShutdownDrains ==
    [](phase # "dropped" /\ \A h \in holds : h.state # "dropped")
      => (phase = "draining" ~> Drained)
=============================================================================
