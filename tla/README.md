# A TLA+ verification of PooleOS

PooleOS is a microkernel in Rust (`native/kernel/src`) with a chain of boot
crates (`native/*`) and Python tooling that builds it and records evidence
(`runtime/`, `tools/`). This directory models the parts of the kernel in which
several actors share state: the locks, the two scheduler cores, and the pool
that keeps a task's memory alive while a CPU or a reader may still use it; and
the two durable state machines of the boot path, which must survive a crash at
any step: A/B boot selection and the redundant boot-trust state. The kernel
modules are written from the Rust code, the boot modules from the Python
reference models (`runtime/native_recovery.py`, `runtime/native_boot_trust.py`);
`PROJECT.json` gives the lines each definition stands for.

Contents: the inventory of the system, the modules and how they correspond to
the code, the runs, the proofs, what the checks found, what is not modelled, and
the plan.

## 1. Inventory

| Part | State | Operations | Who interacts | Model |
|---|---|---|---|---|
| Ticket spinlock, `locks.rs` 260-470 | `next`, `serving`, `owner`, bitmap of cancelled tickets | try, bounded and unbounded lock, unlock | threads on all CPUs, access by access | `TicketLock`, `TicketFifo`, `FifoLock` |
| Reader-writer lock, `locks.rs` 1020-1395 | state word, owner words, writer tickets | the read and write calls, unlock | threads on all CPUs | `RwLock` |
| Sleeping mutex, notification, sequence lock, IRQ-save lock, rank graph, `locks.rs` | waiters, deadlines, handoff, sequence | lock, claim, time-out, cancel, notify | tasks, timer, teardown | no |
| Scheduler core PKSCHED1, `scheduler.rs` | task slots, run queues, running tasks, one mutex, donations | create, dispatch, yield, block, wake, migrate, lock, unlock, teardown | callers on each CPU, serialised by `&mut self` | `Scheduler` |
| BSP preemption PKSCHED2, `scheduler_preempt.rs` | tick counter, event queue, quantum | timer tick, event queueing | timer and tasks | no |
| Deferred work PKSCHED3, `scheduler_deferred.rs` | work slots, worker, flush watermark | enqueue, claim, finish, cancel, flush, shutdown | interrupt handlers and workers | no |
| SMP scheduler PKSCHED4, `scheduler_smp.rs` | task slots, queues, CPUs, one pending transfer | stage, acknowledge, time out, complete, take offline | the controller and the CPU that answers | `SmpScheduler` |
| AP workers PKSCHED5, `scheduler_ap_workers.rs` | work per AP, pending dispatch per AP | stage, acknowledge, cancel, time out | BSP and APs | no |
| SMP preemption PKSCHED6, `scheduler_smp_preempt.rs` | event lanes, watchdogs | ticks, due events | timers of each CPU | no |
| Pool PKRECLAIM1, `reclamation.rs` | phase, generation and pin count of each slot | publish, pin, retire, reclaim, shutdown | controller and readers | `TaskLifetimes` |
| Execution holds PKEXEC1, `reclamation/execution.rs` | the pin of a dispatched context | confirm quiescent, drop | the executing CPU | `TaskLifetimes` |
| Task lifetimes PKLIFE1, `reclamation/task_lifetimes.rs` | bindings of tasks to pool objects | create, activate, dispatch, cancel, complete, reclaim, shut down | all of the above | `TaskLifetimes` |
| AP resources, retention, `reclamation/ap_resources.rs`, `physical_memory/retention.rs` | state of an AP's memory, retention identities | expose, park, release | BSP and AP | no |
| Interprocessor interrupts PKSMP5, `smp_ipi.rs` | request, stage, answers | arm, time out, acknowledge, authorise, rollback | BSP and APs | no |
| AP start-up PKSMP1/2, `smp.rs`, `smp_runtime.rs` | stage of the transaction | advance, roll back | BSP and AP | no |
| Virtual memory PKVM1/3 | mappings, pending invalidations, frames | map, begin, acknowledge and complete unmap | CPUs that must invalidate | no |
| Physical memory PKPMM7 | extents, allocation ledger, metadata arenas | allocate, free, grow, retire | sequential, with failures in between | no |
| Boot exit PBEXIT1, `bootexit` | attempt count, state | observe map, handoff, exit | firmware | no |
| Recovery selection PREC1, `native_recovery.py` | recovery state: active and pending slot, masks, attempts, in-flight binding | select boot, report success, report failure | loader, booted system, operator, power losses | `Recovery` |
| Boot-trust state PBSTATE1, `native_boot_trust.py` | two copies, a monotonic anchor | select, plan, nine transition steps | the state's owner and power losses | `StateBackend`, `AtomicStore` |
| Other boot crates, policies, parsers, Python tooling | byte formats, files | parse, validate, copy | sequential | no |

What makes this system hard is the same in most parts: several operations look
at shared state and act on it later (ticket locks, bounded calls that give up,
staged transfers), answers come late or twice, bounded counters have to stay in
their bounds whatever the order of calls, memory must outlive every CPU that
may still run on it, and the machine may stop between any two writes.
`PROJECT.json` lists the hazards at the lines where they bite, each with the
properties about it or with the reason why there is none.

## 2. The modules

### `TicketLock`, `TicketFifo`, `FifoLock`

`TicketSpinLock`, with one action for each atomic access: `try_lock` is
`TryLoadServing`, `TryLoadNext`, `TryExchange`; `reserve_ticket` is the four
`Reserve...` actions including the second look at a window that seems full; then
`SpinServed` or `SpinGiveUp`, `Claim`, the two steps of `unlock`, the steps of
`cancel` and the five of `advance_cancelled`. `pc`, `reg` and `bits` are a
thread's program point and registers, cleared when nothing later reads them
(`advance_cancelled` starts with none, operator `Advance`). All writes to the lock are locked
instructions on x86-64, so sequential interleaving is what the build executes.
A return of `Invariant` or `NotOwner` is the program point `"fault"`.
A compare-exchange that fails spuriously is not modelled: the build has none.
The counters do not wrap in the model; the wrapping subtraction of the window
test is modelled by `InWindow`, where a counter that has been overtaken is
outside the window.

`FifoLock` is what the lock promises: a line of waiters, served in order, that
waiters may leave. `TicketFifo` is the mapping: a thread stands in line from the
exchange that takes its ticket until it owns the lock or gives up (`Line`), its
place is the rank of its ticket among those in line (`InOrder`), and the holder
is the thread between its owner exchange and its release.

### `RwLock`

`ReaderWriterLock`, at the same grain, except that a load and compare-exchange
loop that retries until it wins is the read-modify-write it amounts to. Reads are
`try_read`, which the bounded and unbounded calls repeat; the writer calls are
`try`, `bounded` and `lock`.

### `Scheduler`

PKSCHED1. All operations take `&mut self`: one operation, one action. Operations
change the state first and call `validate()` last, and an error of `validate()`
undoes nothing. So an action is the mutation, and what `validate()` tests are
properties. `Recompute` is `recompute_effective_priorities`, `IsPick` is
`pick_queue_index`. Statistics are left out. The error returns of guards change
nothing and are left out as stutters.

### `SmpScheduler`

PKSCHED4. At most one transfer is pending. `Stage...` installs a ticket with a
request number (attempt and sequence in the code) that its caller chooses:
`install_pending` wants it nonzero, not new, so `Install` takes any number of
`Request`, used before or not. The target CPU's `Answer` is the acceptance by
`validate_request` of `smp_ipi.rs`, which takes each number once. An answer goes
into `answered` and stays there, so it may be late, come again, or be offered for
a later ticket. `Acknowledge` compares CPU and number, as `acknowledge_expected`
does, and commits: an old answer commits a later ticket of the same CPU that uses
its number again. Nothing here assumes that callers avoid this; the properties
say what holds all the same. The
operations copy the controller, change the copy and keep it only if it
validates: `Fits` says which pending commits succeed. `Timeout` serves offline
probes only, as in the code.

### `TaskLifetimes`

PKLIFE1 composes three parts: it extends `SmpScheduler` and each of its actions
conjoins the scheduler's action with what happens to the pool, the bindings and
the holds. `Stage` takes the pin before the ticket exists. `Quiesce` is external:
the CPU leaves the context, at any time after the scheduler has given the task
up. `ConfirmQuiescent` is `unsafe` in the code and documented to be called only
then, which is its guard; `DropDispatch` may happen at any time and keeps the
pin. `DropController` is the destructor. The controller has `&mut self`
operations, so the gate of the pool is only contended by readers, for whom
`Busy` changes nothing.

### `Recovery`

PREC1. `select_boot` is split into its paths (`SelectUnwritable`,
`SelectFirmware`, `SelectRecovery`, `SelectTrial`, `SelectAfterTrials`,
`SelectByMode`), `report_boot_success` and `report_boot_failure` are one action
each. The caller stores the state an operation returns before acting on it, so
one step computes and stores. Around the operations stands the machine, which is
external: it hands control over, the booted system issues a receipt, something
fails, the deadline for a success passes, the power goes. Receipts stay
deliverable for ever, so they come late, twice or in another order; a report of
failure names no boot, in the model as in the code. The loader does not deliver
reports between its selection and the handoff.

### `StateBackend`, `AtomicStore`

PBSTATE1. `media` is what survives, `cache` what was written; a flush makes them
equal. The nine steps of `BACKEND_TRANSITION_STEPS` are the actions after `Plan`.
The repository names and orders the steps and samples the states after them in
`_power_loss_corpus`; storage itself is external. `PowerLoss` may come at every
step and leaves, of an unflushed write, the old contents, the new ones or an
unreadable copy. `CopyLost` destroys one copy between transitions while the other
is good. `AtomicStore` is the promise: one value that changes only to a successor.

## 3. The runs

| Run | Instance | Shows |
|---|---|---|
| `sched_core` | 3 tasks, 2 CPUs, 2 priorities; 192,119 states | `PlacementOk`, `WaitersOk`, `PriorityExact`, `TypeOK`, `BypassRank` |
| `sched_lifecycle` | 2 tasks, 2 CPUs, 2 generations, donation, mixed affinity; 110,337 states | slot reuse leaves nothing behind, boosts end, `WakeOnce`, `NoStarvation` |
| `ticket_lock` | 3 threads, window 3, 3 tickets; 311,281 states | exclusion, no fault, no skipped and no orphaned ticket, `ImplementsFifo`, `WaiterProgress` |
| `rw_lock` | 3 threads, window 2, 4 writer tickets; 501,811 states | `RwInv`, `RwExclusion`, `CountsExact`, `TicketedOwnerCanRelease`, `WriterProgress` |
| `smp_sched` | 3 tasks, 2 CPUs, 2 generations, 3 transfers, 2 request numbers; 953,428 states | `PlacementOk`, `CommitReady`, `BypassBound`, `EpochFences` |
| `task_lifetimes` | 2 tasks, 2 CPUs, 2 generations, 2 transfers, 1 request number, 1 reader, 2 pins; 375,393 states | `PinsExact`, `HeldAlive`, `RunsHeld`, `BindingsOk`, `ShutdownDrains` |
| `recovery` | 2 slots, 2 attempts, 7 generations, 1 nonce, 5 kinds of failure; 692,369 states | `StateOk`, `LoopsBounded`, `FreshSuccess`, `ActiveBootable`, `InflightSettles` |
| `state_backend` | 3 contents, 4 generations, a migration of epoch and profile; 5,004 states | `Recoverable`, `ImplementsStore`, `RedundancyRestored` |
| `sched_owner_donation`, `ticket_bit_reuse`, `rw_try_write`, `recovery_active_failure` | small | each violates one property, see section 5 |

Two more configurations answer by a counterexample a question next to one of
these. They are no runs of their own; start them with
`tlc -config SchedulerOwnerBlocked.cfg MCScheduler` (a blocked owner,
`OwnerRunnable`) and `tlc -config RwBitReuse.cfg MCRwLock` (the reused bit in the
reader-writer lock, `NoOrphanedWriter`). Section 5 says what they show.

**Bounds.** Three tasks are the fewest with which a task is passed over twice and
a mutex has two waiters. Two CPUs are enough for a migration and for one CPU to
answer while another works. Two generations let a slot be reused once while an
old id is still about. Three threads let two race to skip a third's
abandoned ticket. `MaxGeneration`, `MaxStateGeneration`, `MaxTicket` and `MaxTransaction` bound the
behaviours, not the code: a run ends when they are used up. That is why
deadlock is not checked in the lock, SMP and lifetime runs. The two passing
scheduler runs check it, and a scheduler whose tasks are all torn down still
has a step (a torn-down task's priority may be set); so do `recovery` and
`state_backend`, where the power can always fail.
`recovery` has two slots, as the code has; two attempts are the fewest with a
retry; seven generations are enough for two trials and their verdicts, the
retirement of the candidate and a boot of the other slot, with a stale verdict
delivered in between; one report of failure is outstanding at a time, and the
single nonce is the worst case, that of a caller who always uses the default.
The five failures have the five different rows a boot can meet. In `state_backend`
two contents would show a wrong one; a third lets an interrupted transition and
its successor write different states of one generation.
`ticket_lock` has the window at least as large as the number of tickets, so
that no bit of the bitmap is used for two tickets: `NoOrphanedTicket` and
`WaiterProgress` hold there, and `ticket_bit_reuse` shows what happens otherwise.
The safety theorems of section 4 do not need this: they hold for every window.
`rw_lock` has twice as many tickets as its window, so bits are used again, and
the fourth ticket is the first that could be stuck behind an orphaned one.
Three transfers with two request numbers let a number be used again, by the
same CPU or another; in `task_lifetimes` every number is used again.
The runs of `smp_sched` and `task_lifetimes` let every task use both CPUs.

**Symmetry** is used only for slots and request numbers, in runs without liveness
properties, where no operation orders two slots or two numbers.

**Fairness.** `sched_lifecycle`: an idle CPU with queued work dispatches, and a
running task is eventually made to yield, by the timer quantum. The locks: a
thread inside a call, or holding the lock, keeps executing; no thread has to
make a call. `docs/native-kernel-locks.md` states the same assumption. Spinning
itself is not a step, so it needs no fairness. `WriterProgress` is stated for
behaviours in which nobody uses `try_write`, because a `try_write` may leave the
lock unreleasable, and in which bits are cleared within a window
(`SkipsInWindow`, section 4), because of what `RwBitReuse.cfg` shows.
`task_lifetimes`: CPUs answer and leave contexts, readers drop their pins, and
the owner of the controller goes on settling, cancelling, completing and
reclaiming what it has; `ShutdownDrains` is stated for behaviours in which
neither the controller nor a dispatch is dropped, since the code promises to
retain memory in those cases. `recovery`: the loader goes on to hand over
control, a deadline that has passed is noticed and a failure noticed is
reported; nobody has to succeed. `state_backend`: the owner carries on with a
transition it has begun, and begins one when the selection asks for a repair
(`repair_copies`). The second is an assumption about the owner: the repository
plans repairs and lists their steps, but does not show the caller. A transition nobody asked for is never assumed. `RedundancyRestored`
is stated for behaviours in which faults stop, and exempts only the idle store
that needs a repair and has no generation left for it (`RepairRefused`).

Every property has a mutant: a definition changed as a plausible mistake in the
code would change it, for which TLC finds the property violated. Mutants stand
just before the definition they replace and are not part of any specification.

## 4. The proofs

The theorems are in the modules whose names end in `Proofs`, and the lemmas of
the operations of the schedulers and of the task lifetimes in those that end in
`Steps`. A proof module
starts with the order in which its leaves are tried: SMT, Zenon, SMT for longer.

`TicketLockProofs` proves, for every set of threads, window, mix of calls
and ticket bound:

* `LockInvariant`: `Spec => []LockInv`
* `LockExcludes`, `LockFaultFree`, `LockSkipsOnlyDead`: mutual exclusion, no
  `Invariant` or `NotOwner` for a correct caller, and `serving` never passes a
  live ticket.

The three properties are not inductive. `LockInv` adds what the code relies on
without saying so: tickets of live threads are distinct, lie between `serving`
and `next`, and span at most a window (`TicketsInv`); a counter in a register is
never ahead of the counter it came from, and a thread about to exchange `next`
has room in the window if `next` has not moved (`RegisterInv`, which is why
`reserve_ticket` loads `next` before `serving`); a set bit stands for an
abandoned ticket in the window (`CancelledInv`); and a thread in the middle of a
skip whose `serving` is still current skips an abandoned ticket whose bit is
clear by the time of its exchange (`SkipInv`). The last is what makes the
stale exchange harmless. The arithmetic lemma `BitInjective` says two tickets of
one window have different bits. The assumptions are those of the constants: the
window is positive, no thread is the null owner.

* `LockAccountsTickets`: `Spec /\ []SkipsInWindow => []NoOrphanedTicket`
* `LockFirstWindow`: `MaxTicket <= Window => (Spec => []NoOrphanedTicket)`

`NoOrphanedTicket` does not hold without a condition, as `ticket_bit_reuse`
shows. `SkipsInWindow` is the condition: whenever a thread in
`advance_cancelled` is about to clear a bit, `next` is at most a window past the
ticket the thread read. The lock does not enforce it. What the proof carries is
`AccountInv`: each ticket handed out and not yet served is in use, or has its bit
set, or is passed by an exchange already under way. Clearing a bit is the one
step that could break it, by clearing the bit of another ticket; within the
window `BitInjective` says there is no other. The second theorem is the case of
the run `ticket_lock`, for every window.

* `LockIsFifo`: `Spec => ImplementsFifo`, the refinement of `FifoLock`

`LineStep` sorts the accesses into those that change neither line nor owner and
those that put a thread in line, take it out, grant it the lock or release it.
That a new ticket is later than all in line, and a granted one earlier, comes from
`TicketsInv`. The rest is about `InOrder`: `Ranks` and `Ordered` show that ranks
number the line from one without gap (an injection between finite sets of one
size is onto; the line is finite because its tickets lie in the window), and
`OrderEnter`, `OrderLeave`, `OrderGrant` that adding the last ticket appends,
dropping one closes the gap, and dropping the first takes the tail.

`RwLockProofs` proves, for every finite set of threads, window, mix of calls and
ticket bound:

* `RwInvariant`: `Spec => []RwInv`;
* `RwCounts`, `RwExcludes`, `RwRelease`: `CountsExact`, `RwExclusion` and
  `TicketedOwnerCanRelease` always hold;
* `RwAccountsTickets`: `Spec /\ []SkipsInWindow => []NoOrphanedWriter`.

The invariant is `RwInv`: the state word counts the threads that are between
taking and returning their share of it, reader by reader and waiting writer by
waiting writer, and a thread about to exchange the word has seen it free. The
counts are cardinalities of sets of threads, which is why the set must be finite
(`ThreadAssumption`). The writers' tickets add what the ticket lock needs. The
last theorem has the condition and the argument of `LockAccountsTickets`;
`RwBitReuse.cfg` shows that the condition is needed. It also covers a `try_write`
that holds the lock with a ticket not yet served.

`SmpProofs` (with `SmpSteps`, one lemma per operation) proves, for every finite
non-empty set of slots, any CPUs out of four with CPU 0, and any priorities,
affinities, generations and transfers:

* `SmpPlacement`, `SmpCommitReady`, `SmpBypassBound`: `PlacementOk`,
  `CommitReady` and `BypassBound` always hold;
* `SmpEpochFences`: so does the action property `EpochFences`.

They hold for every choice of request numbers, all equal included: that a commit
is consistent rests on the pending ticket, not on the answer being the right one.

The invariant is `SmpInv`: a queue holds exactly the ids of the tasks whose
records name it, each once (`Queued`); a CPU runs exactly the task whose record
says so (`OnCpu`); a record's state, epoch, owner and affinity agree
(`RecordsOk`); and the pending ticket still describes its task, which is the
only one that can be in transfer (`PendingOk`). The last is what `CommitReady`
needs, and it holds because every operation that could take the task away is
refused while a ticket is pending. The queues enter only through what they
contain: `QueueGains`, `QueueLoses` and `QueueDrops` say what `insert`,
`remove_at` and `remove` do to `Queued`. For the bypass counts `Levels` says
that at most `N - k` of the tasks not in transfer have been passed over `k`
times: a dispatch or preemption raises only tasks whose count is no greater than
the selected one's, and that one leaves its class. It is stated over all slots,
not per queue, so a migration cannot disturb it. `AbsenceAssumption` says that
the values for "no task" and "no ticket" are neither.

`SmpProofs` also proves (with `LifetimeSteps`), for the same constants, any number
of pool slots and any finite set of readers:

* `LifeTypes`, `LifePins`, `LifeHeld`, `LifeRuns`, `LifeBindings`: `LifeTypeOK`,
  `PinsExact`, `HeldAlive`, `RunsHeld` and `BindingsOk` always hold;
* `LifeScheduler`: the scheduler inside the composition keeps `SmpInv`;
* `LifePlacement`, `LifeCommitReady`: so `PlacementOk` and `CommitReady` hold in it;
* `LifeSchedules`: `LifeSpec => [][Next \/ \E s : CancelDormant(s)]_schedVars`, the
  lifetime layer moves the scheduler by its own operations and by
  `cancel_dormant`, which activates and cancels in one step;
* `LifeFences`: hence `EpochFences` holds in it as well.

The invariant is `LifeInv`. It contains `SmpInv`, so every action's scheduler
half is discharged by the lemma `SmpSteps` has for it, and the new work is in the
other half. None of the five properties is inductive alone. A reclaim keeps
`HeldAlive` because the count it tests is exact (`PinsExact`); a pin is taken
only on the live object that the binding names (`BindingOk`); the count stays
exact because a dispatch's ticket is new, which needs that the tickets of all
holds lie in the past and that no two holds share one (`HoldsOk`); a task that
is cancelled or completed retires its own object and no other's (`OwnersOk`);
and a commit can start a task only through a dispatch, which has its hold
already, since the composition stages nothing else but probes (`TicketKinds`).
`QuietStep`, `RetireStep` and `HeldStep` say once what the actions that leave the
pool alone, end a task, or change the holds have in common; the last part counts
readers and holds with `HoldAdded` and `ReaderMoved`. `ReaderAssumption` (the
readers are finitely many) is what makes a count a number; `HandleAssumption`
says that "no handle" is not one.

`SchedulerProofs`, with the operations that move one task in `SchedulerSteps`,
proves, for every finite non-empty set of slots, any CPUs, priorities, affinities
and generation bound:

* `SchedulerTypes`: `Spec => []TypeOK`
* `SchedulerRank`: `Spec => []BypassRank`
* `SchedulerBypass`: `Spec => []BypassBound`, so `dispatch` never returns
  `BypassOverflow`;
* `SchedulerPlacement`, `SchedulerWaiters`, `SchedulerPriorities`: `PlacementOk`,
  `WaitersOk` and `PriorityExact` always hold;
* `SchedulerWakes`: so does the action property `WakeOnce`;
* `SchedulerOwner`: `Spec => [](OwnerUndonated => OwnerPriority)`, the last test of
  `validate()` fails only while the mutex owner has a donation above its base
  priority, so the run `sched_owner_donation` shows the only way to fail it.

`WaitersOk` is the waiter part of `validate()` with the owner test weakened to what
holds: the owner can run, or waits for an event or an external lock. So the test
as the code has it (`OwnerRunnable`) fails only after the owner itself has called
`block_current` or `block_current_for_lock`, which `SchedulerOwnerBlocked.cfg` shows; no
handoff, wake or teardown gives the mutex to a task that cannot run.

`BypassBound` is not inductive: nothing in it prevents two tasks from standing at
the limit together. `BypassRank` says that at most `MAX_TASKS - k` tasks have been passed over `k`
times or more. `StepShape` shows what any operation does to the counts: either
none rises, or one task is selected, goes to zero, and the tasks whose count
rises had counts no greater than its own (`DispatchStep`, from the order
`pick_queue_index` uses). `RankStep` then counts: whoever enters the class of `k`
had `k - 1`, and the selected task leaves the class of `k - 1` for zero.

The others follow from `SchedulerInv` (`SchedulerInvariant`). `PlacementOk`
speaks of positions in queues and cannot be carried from step to step as it
stands; `SchedulerInv` says of each queue, and of the wait list, that it lists a
set determined by the task records, each id once (`Lists`): the runnable tasks
queued on the CPU, the tasks blocked on the mutex. Each CPU runs exactly the task
that says so; a record's state, CPU, affinity, wait kind and wake reason agree
(`RecordOk`), which is why a wake never meets a reason not yet consumed; the
mutex owner is alive and not waiting (`OwnerOk`), without which a teardown or a
hand-over could leave waiters behind a free mutex; and the effective priorities
are exact (`Exact`). There is one lemma per operation. Most change one task:
`ReadyMoves`, `RunningMoves` and `WaitingMoves` say how the three sets then
change, and `ListsGain` and `ListsLose` how the queue does. `teardown` is the
exception, since it moves every waiter of the mutex to a queue at once:
`PickLists` and `ListsJoin` show that the waiters are appended each once, whatever
CPU `select_allowed_cpu` chooses for each.

`BootProofs` proves of PREC1, for every policy (attempts, versions, floor), every set
of nonces and failures, and every bound on generations:

* `StateAccepted`, `BoundedLoops`, `SuccessIsFresh`, `ActiveRemains`: `StateOk`,
  `LoopsBounded`, `FreshSuccess` and `ActiveBootable` always hold;
* `FailureSettles`: a failure receipt for a boot in flight clears the binding
  unless it would retire the active slot, so `recovery_active_failure` shows the
  only receipts that are refused.

The invariant is `RecoveryInv`. `LoopsBounded` counts boots, while the code
counts down attempts at selection; the invariant says that a selected boot that
has not started has already been paid for. `FreshSuccess` needs that the
generations of all receipts lie in the past, and that a receipt equal to the
binding in flight stems from the last selection; the generation alone gives
this, whatever the nonces. `Decision` in the proof module says what the paths of
`select_boot` have in common, and `DecideInv` shows once that storing such a
state keeps the invariant.

Of PBSTATE1 it proves, for every set of contents and every bound:

* `AlwaysRecoverable`: `StoreSpec => []Recoverable`
* `StoreRefinement`: `StoreSpec => ImplementsStore`, the refinement of `AtomicStore`
  under the mapping that reads the media as recovery would.

`StoreInv` says which copy is secured at each step: before the anchor advances
the copy that is not the target, written through and anchored; after it the
target. A power loss at any step keeps the secured copy, so what is read is
always the anchor, and the anchor only moves to a successor.

Only model-checked: the liveness properties `WaiterProgress`, `WriterProgress`,
`NoStarvation`, `ShutdownDrains`, `InflightSettles` and `RedundancyRestored`
(the prover has no support for fairness and `ENABLED` here), and the violations
of section 5. Every invariant, action property and refinement of a passing run
is also a theorem, `NoOrphanedTicket` under the condition given above and
`NoOrphanedWriter`, which no passing run checks, under the same.

## 5. What the checks found

* `sched_owner_donation` (`scheduler.rs:862`): `validate()` expects the mutex owner's
  effective priority to ignore an external donation, while
  `recompute_effective_priorities` counts it. A donation to the owner of more than
  its own and its waiters' priorities leaves the scheduler in a state `validate()`
  rejects for as long as that is so.
* `SchedulerOwnerBlocked.cfg` (`scheduler.rs:400`): `validate()` wants the mutex owner
  Runnable or Running (851-856), but `block_current` and `block_current_for_lock`
  do not refuse the owner. They block it and then report `LockOwner`, and so does
  every operation that validates, having changed the state, until the owner is
  woken or torn down.
* `ticket_bit_reuse` (`locks.rs:439`): a thread loads `serving` and stalls while a
  whole window of tickets passes. When it goes on to test and clear the bit
  (441-447), the bit stands for a ticket abandoned one window later, and the
  exchange compares only the bitmap. Nobody then skips that ticket and later
  callers wait for ever. Loading the bitmap once would not help. With the code's
  window this takes a stall while 32 tickets pass.
* `RwBitReuse.cfg` (`locks.rs:1353`): the same in `advance_cancelled_writers`, which
  does load the bitmap once.
* `rw_try_write` (`locks.rs:1144`): a `try_write` that overtakes a reserved writer holds
  the lock with a ticket that is not served, and `write_unlock` refuses its owner.
* `recovery_active_failure` (`native_recovery.py:1299`): a failure whose row
  retires the slot (`signature_invalid`, `version_rollback`,
  `artifact_integrity`, `attempt_exhausted`), reported for a boot of the active
  slot, computes a state whose active slot is not known good. `parse_state`
  refuses it, so the report is lost and the boot stays in flight, which makes
  `select_boot` refuse every boot until another failure is reported;
  `docs/native-recovery-bundle.md` says a failure receipt clears the binding.
  `InflightSettles` holds because the deadline's report is still accepted.

Everything else checked holds.

## 6. Not modelled

Statistics, logging and evidence records; memory ordering weaker than x86-64's;
wrapping of 32- and 64-bit counters, which the code turns into errors
(generation, transaction) or which needs 2^32 tickets. Parsers and validators of
byte formats (`elf`, `manifest`, `policy` and the other bundle crates, and the
parsing half of `native_recovery.py` and `native_boot_trust.py`), `authorize` in
`native_boot_trust.py`, which is a list of comparisons, boot loader, CPU policies
and assembly are sequential and have no state that actors share.
`native/vendor` is third-party code.

Most of the repository's Python (`runtime/native_*.py`, `tools/`) consists of
tables of expected values, encoders, checks of JSON evidence against them, and
scripts that build and start the kernel. A call reads files, compares and writes
a report; nothing is kept between two calls and nothing runs concurrently, so
there is no state machine to model and the modules here stand for a small share
of those lines. The two Python files with a durable state machine are modelled.
`NeutralSchedulerOracle`, `DeferredReclaimModel`, `MultiApLifecycleModel` and
`HpetClock` are small oracles against which the Rust components are tested; the
first restates part of PKSCHED1, which `Scheduler` models from the Rust code.

The kernel parts marked "no" in the inventory do have state that actors share.
Their hazards are listed with a note.

## 7. Plan

Order of the next modules, each with its hazards in `PROJECT.json`:

1. `BspPreemption` and `SmpPreemption`: timer ticks and due events over
   `Scheduler` and `SmpScheduler` (INSTANCE), with the rollback of a whole tick;
   property: a tick that failed does not fail for ever.
2. `DeferredWork`, `ApWorkers`: claims, cancellation against completion, flush
   watermarks, reclaim order over two APs; abstract specification: each accepted
   item runs at most once and retires exactly once.
3. `SleepMutex` with `Notification`, and `SequenceLock`, refining an atomic
   register.
4. `Shootdown` with `AddressSpace`: request, time-out, late answer, reclaim;
   property: no frame is free while a CPU may have its translation. With it
   `ApResources` and retention.
5. `LedgerGrowth`: growth and retirement of the metadata ledgers with a failure
   at each step.
6. `BootExit` retries and the single transfer.

New questions are first asked of the existing runs' modules; runs of finished
questions are merged where one instance serves both.

Each new module gets its inductive invariant and its proof before the next is
begun.
