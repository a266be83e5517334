----------------------------- MODULE Scheduler -----------------------------
(***************************************************************************)
(* PKSCHED1, the bounded scheduler core of native/kernel/src/scheduler.rs: *)
(* generation-checked task slots, one run queue per CPU with bounded       *)
(* bypass, waits and wakes, one sleeping mutex with priority inheritance   *)
(* and one external priority donation per task.                            *)
(*                                                                         *)
(* Every operation takes &mut self, so an operation is one action.  Most   *)
(* operations mutate first and call validate() last, and return its error  *)
(* without undoing anything: an action is therefore the mutation alone,    *)
(* and the clauses of validate() are properties.  Statistics (dispatch,    *)
(* runtime, wake and sequence counters) are left out.                      *)
(***************************************************************************)
EXTENDS Integers, FiniteSets, Sequences, FiniteSetsExt

CONSTANTS
    Slot,           \* task slots (0..MAX_TASKS-1 in the code)
    Cpu,            \* online CPUs, cpu_online_mask
    Priority,       \* priorities the callers use
    Donation,       \* priorities the callers donate
    Affinity,       \* affinity masks the callers use, as sets of CPUs
    MaxGeneration,  \* bound on the generations handed out for a slot
    Reason,         \* wake reasons the callers deliver
    NoTask, NoCpu   \* Option::None

ASSUME SlotAssumption == IsFiniteSet(Slot) /\ Slot # {}
ASSUME CpuAssumption == Cpu \subseteq Nat /\ NoCpu \notin Cpu
MIN_PRIORITY == 1
MAX_PRIORITY == 31
ASSUME PriorityAssumption == Priority \cup Donation \subseteq MIN_PRIORITY..MAX_PRIORITY
ASSUME AffinityAssumption == Affinity \subseteq (SUBSET Cpu) \ {{}}
ASSUME MaxGenerationAssumption == MaxGeneration \in Nat \ {0}
MAX_BYPASS == Cardinality(Slot) - 1

EventReason == {"Cancelled", "TimedOut", "Signalled"}
LockReason == {"LockGranted", "OwnerGone", "Cancelled", "TimedOut"}

TaskId == [slot : Slot, generation : Nat]
ASSUME NoTaskAssumption == NoTask \notin TaskId

VARIABLES
    tasks,          \* the task table
    queues,         \* run queue of each CPU
    current,        \* running task of each CPU
    mutex_owner,    \* owner of the sleeping mutex
    mutex_waiters,  \* its waiters, in arrival order
    donation        \* external_priority_donation, 0 when there is none

vars == <<tasks, queues, current, mutex_owner, mutex_waiters, donation>>
mutexVars == <<mutex_owner, mutex_waiters>>

-----------------------------------------------------------------------------
EmptyTask ==
    [generation |-> 0, state |-> "Dormant", base_priority |-> MIN_PRIORITY,
     effective_priority |-> MIN_PRIORITY, affinity |-> {}, assigned_cpu |-> NoCpu,
     queued_cpu |-> NoCpu, wake_reason |-> "None", wait_kind |-> "None",
     bypass_count |-> 0]

Id(s) == [slot |-> s, generation |-> tasks[s].generation]

\* task_index: the caller's TaskId names the current generation of its slot.
\* Operations range over slots, since a TaskId of any other generation is
\* refused before anything is changed.
Known(s) == tasks[s].generation # 0

\* RunQueue::remove_at and RunQueue::remove; remove_mutex_waiter does the same.
RemoveAt(q, i) == SubSeq(q, 1, i - 1) \o SubSeq(q, i + 1, Len(q))

Remove(q, id) ==
    LET at == {i \in 1..Len(q) : q[i] = id}
    IN  IF at = {} THEN q ELSE RemoveAt(q, Min(at))

SelectAllowedCpu(a) == CHOOSE c \in a : \A d \in a : c <= d

\* Mutant: the bypass count does not break priority ties.
BeforeIgnoresBypass(a, b) == a.effective_priority > b.effective_priority

\* The scan of pick_queue_index: the first of the entries that are maximal by
\* effective priority and then by bypass count.
Before(a, b) ==
    \/ a.effective_priority > b.effective_priority
    \/ a.effective_priority = b.effective_priority /\ a.bypass_count > b.bypass_count

IsPick(q, i) ==
    LET T(j) == tasks[q[j].slot]
    IN  \A j \in DOMAIN q \ {i} :
           /\ ~Before(T(j), T(i))
           /\ j < i => Before(T(i), T(j))

\* recompute_effective_priorities, for a task table ts, mutex owner o, waiters
\* ws and donations d.
Recompute(ts, o, ws, d) ==
    LET Inherited(s) == IF o # NoTask /\ o.slot = s
                        THEN {ts[ws[i].slot].base_priority : i \in DOMAIN ws}
                        ELSE {}
    IN  [s \in Slot |->
           IF ts[s].generation = 0 THEN ts[s]
           ELSE [ts[s] EXCEPT !.effective_priority =
                   Max({ts[s].base_priority, d[s]} \cup Inherited(s))]]

\* The elements of sequence ws at the positions in I, in order.
Pick(ws, I) ==
    [k \in 1..Cardinality(I) |->
       ws[CHOOSE i \in I : Cardinality({j \in I : j <= i}) = k]]

\* The fields a task has after a wake has put it on the queue of CPU c.
Woken(t, c, reason) ==
    [t EXCEPT !.state = "Runnable", !.wait_kind = "None", !.wake_reason = reason,
              !.assigned_cpu = c, !.queued_cpu = c]

\* Mutant: a task that blocks has its bypass count decremented, not reset.
WaitingDecrements(t, c, kind) ==
    [t EXCEPT !.state = "Blocked", !.assigned_cpu = c, !.wait_kind = kind,
              !.wake_reason = "None", !.bypass_count = @ - 1]

\* The fields a task has after it has left CPU c to wait for kind.
Waiting(t, c, kind) ==
    [t EXCEPT !.state = "Blocked", !.assigned_cpu = c, !.wait_kind = kind,
              !.wake_reason = "None", !.bypass_count = 0]

Init ==
    /\ tasks = [s \in Slot |-> EmptyTask]
    /\ queues = [c \in Cpu |-> <<>>]
    /\ current = [c \in Cpu |-> NoTask]
    /\ mutex_owner = NoTask
    /\ mutex_waiters = <<>>
    /\ donation = [s \in Slot |-> 0]

-----------------------------------------------------------------------------
\* Mutant: a slot is reused as soon as the generation is newer.
CreateTaskOverLive(s, g, p, a) ==
    /\ Known(s) => g > tasks[s].generation
    /\ tasks' = [tasks EXCEPT ![s] =
                   [EmptyTask EXCEPT !.generation = g, !.base_priority = p,
                                     !.effective_priority = p, !.affinity = a]]
    /\ UNCHANGED <<queues, current, mutexVars, donation>>

CreateTask(s, g, p, a) ==
    /\ Known(s) => tasks[s].state = "Dead" /\ g > tasks[s].generation
    /\ tasks' = [tasks EXCEPT ![s] =
                   [EmptyTask EXCEPT !.generation = g, !.base_priority = p,
                                     !.effective_priority = p, !.affinity = a]]
    /\ UNCHANGED <<queues, current, mutexVars, donation>>

Activate(s, c) ==
    /\ Known(s) /\ tasks[s].state = "Dormant" /\ c \in tasks[s].affinity
    /\ tasks' = [tasks EXCEPT ![s].state = "Runnable", ![s].assigned_cpu = c,
                              ![s].queued_cpu = c]
    /\ queues' = [queues EXCEPT ![c] = Append(@, Id(s))]
    /\ UNCHANGED <<current, mutexVars, donation>>

\* Mutant: the queue is served from its newest entry.
DispatchNewest(c) ==
    /\ current[c] = NoTask /\ queues[c] # <<>>
    /\ LET x == queues[c][Len(queues[c])].slot
       IN  tasks' = [tasks EXCEPT ![x].state = "Running", ![x].queued_cpu = NoCpu,
                                  ![x].assigned_cpu = c]
    /\ queues' = [queues EXCEPT ![c] = RemoveAt(@, Len(@))]
    /\ current' = [current EXCEPT ![c] = queues[c][Len(queues[c])]]
    /\ UNCHANGED <<mutexVars, donation>>

\* The tasks left in the queue at the selected priority are bypassed once more.
\* The BypassOverflow return inside the loop is not an alternative here: the
\* count is allowed to pass MAX_BYPASS, and BypassBound says it never does.
Dispatch(c) ==
    /\ current[c] = NoTask
    /\ \E i \in DOMAIN queues[c] :
         LET q == queues[c]
             x == q[i].slot
             bypassed == {s \in Slot :
                            /\ tasks[s].effective_priority = tasks[x].effective_priority
                            /\ \E j \in DOMAIN q \ {i} : q[j].slot = s}
         IN  /\ IsPick(q, i)
             /\ queues' = [queues EXCEPT ![c] = RemoveAt(q, i)]
             /\ current' = [current EXCEPT ![c] = q[i]]
             /\ tasks' = [s \in Slot |->
                   IF s = x
                   THEN [tasks[s] EXCEPT !.state = "Running", !.queued_cpu = NoCpu,
                                         !.assigned_cpu = c, !.bypass_count = 0]
                   ELSE IF s \in bypassed
                   THEN [tasks[s] EXCEPT !.bypass_count = @ + 1]
                   ELSE tasks[s]]
    /\ UNCHANGED <<mutexVars, donation>>

YieldCurrent(c) ==
    /\ current[c] # NoTask
    /\ LET s == current[c].slot
       IN  tasks' = [tasks EXCEPT ![s].state = "Runnable", ![s].assigned_cpu = c,
                                  ![s].queued_cpu = c]
    /\ queues' = [queues EXCEPT ![c] = Append(@, current[c])]
    /\ current' = [current EXCEPT ![c] = NoTask]
    /\ UNCHANGED <<mutexVars, donation>>

\* block_current (kind Event) and block_current_for_lock (kind ExternalLock)
BlockCurrent(c, kind) ==
    /\ current[c] # NoTask
    /\ tasks' = [tasks EXCEPT ![current[c].slot] = Waiting(@, c, kind)]
    /\ current' = [current EXCEPT ![c] = NoTask]
    /\ UNCHANGED <<queues, mutexVars, donation>>

\* Mutant: a wake does not ask what the task waits for.
WakeKindAnyWait(s, c, reason, kind) ==
    /\ Known(s) /\ tasks[s].state = "Blocked" /\ c \in tasks[s].affinity
    /\ tasks' = [tasks EXCEPT ![s] = Woken(@, c, reason)]
    /\ queues' = [queues EXCEPT ![c] = Append(@, Id(s))]
    /\ UNCHANGED <<current, mutexVars, donation>>

\* Mutant: a wake is delivered to a task that has already been woken.
WakeKindTwice(s, c, reason, kind) ==
    /\ Known(s) /\ c \in tasks[s].affinity
    /\ \/ tasks[s].state = "Blocked" /\ tasks[s].wait_kind = kind
       \/ tasks[s].state = "Runnable"
    /\ tasks' = [tasks EXCEPT ![s].wake_reason = reason]
    /\ UNCHANGED <<queues, current, mutexVars, donation>>

WakeKind(s, c, reason, kind) ==
    /\ Known(s) /\ tasks[s].state = "Blocked" /\ tasks[s].wait_kind = kind
    /\ tasks[s].wake_reason = "None" /\ c \in tasks[s].affinity
    /\ tasks' = [tasks EXCEPT ![s] = Woken(@, c, reason)]
    /\ queues' = [queues EXCEPT ![c] = Append(@, Id(s))]
    /\ UNCHANGED <<current, mutexVars, donation>>

\* cancel_wait, timeout_wait and signal_wait
Wake(s, c, reason) == reason \in EventReason /\ WakeKind(s, c, reason, "Event")

WakeLockWaiter(s, c, reason) ==
    reason \in LockReason /\ WakeKind(s, c, reason, "ExternalLock")

ConsumeWake(c) ==
    /\ current[c] # NoTask
    /\ tasks[current[c].slot].wake_reason # "None"
    /\ tasks' = [tasks EXCEPT ![current[c].slot].wake_reason = "None"]
    /\ UNCHANGED <<queues, current, mutexVars, donation>>

\* Mutant: migration leaves the entry in the source queue.
MigrateKeepsSource(s, target) ==
    /\ Known(s) /\ tasks[s].state = "Runnable" /\ target \in tasks[s].affinity
    /\ tasks[s].queued_cpu # target
    /\ tasks' = [tasks EXCEPT ![s].assigned_cpu = target, ![s].queued_cpu = target]
    /\ queues' = [queues EXCEPT ![target] = Append(@, Id(s))]
    /\ UNCHANGED <<current, mutexVars, donation>>

Migrate(s, target) ==
    /\ Known(s) /\ tasks[s].state = "Runnable" /\ target \in tasks[s].affinity
    /\ LET source == tasks[s].queued_cpu
       IN  /\ source # NoCpu /\ source # target
           /\ tasks' = [tasks EXCEPT ![s].assigned_cpu = target, ![s].queued_cpu = target]
           /\ queues' = [queues EXCEPT ![source] = Remove(@, Id(s)),
                                       ![target] = Append(@, Id(s))]
    /\ UNCHANGED <<current, mutexVars, donation>>

\* Mutant: the effective priorities are not recomputed.
SetPriorityBaseOnly(s, p) ==
    /\ Known(s)
    /\ tasks' = [tasks EXCEPT ![s].base_priority = p]
    /\ UNCHANGED <<queues, current, mutexVars, donation>>

SetPriority(s, p) ==
    /\ Known(s)
    /\ tasks' = Recompute([tasks EXCEPT ![s].base_priority = p],
                          mutex_owner, mutex_waiters, donation)
    /\ UNCHANGED <<queues, current, mutexVars, donation>>

DonatePriority(s, p) ==
    /\ Known(s) /\ tasks[s].state \in {"Runnable", "Running"}
    /\ donation' = [donation EXCEPT ![s] = IF p > @ THEN p ELSE @]
    /\ tasks' = Recompute(tasks, mutex_owner, mutex_waiters, donation')
    /\ UNCHANGED <<queues, current, mutexVars>>

\* Mutant: the boost outlives the donation.
RevokeKeepsBoost(s) ==
    /\ Known(s)
    /\ donation' = [donation EXCEPT ![s] = 0]
    /\ UNCHANGED <<tasks, queues, current, mutexVars>>

RevokePriorityDonation(s) ==
    /\ Known(s)
    /\ donation' = [donation EXCEPT ![s] = 0]
    /\ tasks' = Recompute(tasks, mutex_owner, mutex_waiters, donation')
    /\ UNCHANGED <<queues, current, mutexVars>>

\* lock_mutex on a free mutex
LockMutexFree(c) ==
    /\ current[c] # NoTask /\ mutex_owner = NoTask
    /\ mutex_owner' = current[c]
    /\ UNCHANGED <<tasks, queues, current, mutex_waiters, donation>>

\* lock_mutex on an owned mutex: the caller blocks and the owner inherits
LockMutexBlock(c) ==
    /\ current[c] # NoTask /\ mutex_owner \notin {NoTask, current[c]}
    /\ Len(mutex_waiters) < Cardinality(Slot)
    /\ mutex_waiters' = Append(mutex_waiters, current[c])
    /\ tasks' = Recompute([tasks EXCEPT ![current[c].slot] = Waiting(@, c, "Mutex")],
                          mutex_owner, mutex_waiters', donation)
    /\ current' = [current EXCEPT ![c] = NoTask]
    /\ UNCHANGED <<queues, mutex_owner, donation>>

\* highest_mutex_waiter: the first waiter of the highest base priority
IsHighestWaiter(i) ==
    LET P(j) == tasks[mutex_waiters[j].slot].base_priority
    IN  \A j \in DOMAIN mutex_waiters : P(j) <= P(i) /\ (j < i => P(j) < P(i))

\* unlock_mutex with nobody waiting
UnlockMutexFree(c) ==
    /\ current[c] # NoTask /\ mutex_owner = current[c] /\ mutex_waiters = <<>>
    /\ mutex_owner' = NoTask
    /\ tasks' = Recompute(tasks, NoTask, mutex_waiters, donation)
    /\ UNCHANGED <<queues, current, mutex_waiters, donation>>

\* unlock_mutex handing the mutex to a waiter, which becomes runnable
UnlockMutexHandoff(c) ==
    /\ current[c] # NoTask /\ mutex_owner = current[c]
    /\ \E i \in DOMAIN mutex_waiters :
         LET w == mutex_waiters[i]
             target == SelectAllowedCpu(tasks[w.slot].affinity)
         IN  /\ IsHighestWaiter(i)
             /\ mutex_owner' = w
             /\ mutex_waiters' = RemoveAt(mutex_waiters, i)
             /\ tasks' = Recompute(
                   [tasks EXCEPT ![w.slot] = Woken(@, target, "LockGranted")],
                   w, mutex_waiters', donation)
             /\ queues' = [queues EXCEPT ![target] = Append(@, w)]
    /\ UNCHANGED <<current, donation>>

DeadTask(t) ==
    [t EXCEPT !.state = "Dead", !.assigned_cpu = NoCpu, !.queued_cpu = NoCpu,
              !.wake_reason = "None", !.wait_kind = "None", !.bypass_count = 0,
              !.effective_priority = t.base_priority]

\* teardown of a runnable, running or blocked task.  If it owned the mutex the
\* mutex becomes free and every waiter is woken, in arrival order.
Teardown(s) ==
    /\ Known(s) /\ tasks[s].state \in {"Runnable", "Running", "Blocked"}
    /\ LET t == tasks[s]
           ws == IF t.state = "Blocked" /\ t.wait_kind = "Mutex"
                 THEN Remove(mutex_waiters, Id(s)) ELSE mutex_waiters
           owned == mutex_owner = Id(s)
           released == IF owned THEN ws ELSE <<>>
           Target(w) == SelectAllowedCpu(tasks[w.slot].affinity)
           To(c) == Pick(released, {i \in DOMAIN released : Target(released[i]) = c})
           Left(c) == IF t.state = "Runnable" /\ t.queued_cpu = c
                      THEN Remove(queues[c], Id(s)) ELSE queues[c]
           woken == {released[i].slot : i \in DOMAIN released}
       IN  /\ t.state = "Running" => current[t.assigned_cpu] = Id(s)
           /\ queues' = [c \in Cpu |-> Left(c) \o To(c)]
           /\ current' = [c \in Cpu |-> IF t.state = "Running" /\ t.assigned_cpu = c
                                        THEN NoTask ELSE current[c]]
           /\ mutex_owner' = IF owned THEN NoTask ELSE mutex_owner
           /\ mutex_waiters' = IF owned THEN <<>> ELSE ws
           /\ donation' = [donation EXCEPT ![s] = 0]
           /\ tasks' = Recompute(
                 [r \in Slot |->
                    IF r = s THEN DeadTask(tasks[r])
                    ELSE IF r \in woken
                    THEN Woken(tasks[r], SelectAllowedCpu(tasks[r].affinity), "OwnerGone")
                    ELSE tasks[r]],
                 mutex_owner', mutex_waiters', donation')

-----------------------------------------------------------------------------
TaskStep(s) ==
    \/ \E g \in 1..MaxGeneration, p \in Priority, a \in Affinity : CreateTask(s, g, p, a)
    \/ \E c \in Cpu : Activate(s, c)
    \/ \E c \in Cpu, r \in Reason : Wake(s, c, r)
    \/ \E c \in Cpu, r \in Reason : WakeLockWaiter(s, c, r)
    \/ \E c \in Cpu : Migrate(s, c)
    \/ \E p \in Priority : SetPriority(s, p)
    \/ \E p \in Donation : DonatePriority(s, p)
    \/ RevokePriorityDonation(s)
    \/ Teardown(s)

CpuStep(c) ==
    \/ Dispatch(c)
    \/ YieldCurrent(c)
    \/ \E kind \in {"Event", "ExternalLock"} : BlockCurrent(c, kind)
    \/ ConsumeWake(c)
    \/ LockMutexFree(c)
    \/ LockMutexBlock(c)
    \/ UnlockMutexFree(c)
    \/ UnlockMutexHandoff(c)

Next == (\E s \in Slot : TaskStep(s)) \/ (\E c \in Cpu : CpuStep(c))

Spec == Init /\ [][Next]_vars

-----------------------------------------------------------------------------
TaskType ==
    [generation : Nat, base_priority : MIN_PRIORITY..MAX_PRIORITY,
     effective_priority : MIN_PRIORITY..MAX_PRIORITY,
     state : {"Dormant", "Runnable", "Running", "Blocked", "Dead"},
     affinity : SUBSET Cpu, assigned_cpu : Cpu \cup {NoCpu},
     queued_cpu : Cpu \cup {NoCpu}, bypass_count : Nat,
     wake_reason : EventReason \cup LockReason \cup {"None"},
     wait_kind : {"None", "Event", "ExternalLock", "Mutex"}]

\* Ids of slots that have been created: they have a CPU to run on.
PlacedId == {id \in TaskId : tasks[id.slot].affinity # {}}

\* The types of the scheduler's fields; every id that create_task did not give
\* a CPU set stays out of the queues, the CPUs and the wait list.
TypeOK ==
    /\ tasks \in [Slot -> TaskType]
    /\ queues \in [Cpu -> Seq(PlacedId)]
    /\ current \in [Cpu -> PlacedId \cup {NoTask}]
    /\ mutex_owner \in TaskId \cup {NoTask}
    /\ mutex_waiters \in Seq(PlacedId)
    /\ donation \in [Slot -> 0..MAX_PRIORITY]

\* An id the scheduler holds names the live generation of its slot.
Names(id, state) == id = Id(id.slot) /\ Known(id.slot) /\ tasks[id.slot].state = state

QueuedOk ==
    \A c \in Cpu :
      /\ \A i \in DOMAIN queues[c] :
           LET id == queues[c][i] IN
             /\ Names(id, "Runnable")
             /\ tasks[id.slot].queued_cpu = c /\ tasks[id.slot].assigned_cpu = c
             /\ c \in tasks[id.slot].affinity
             /\ \A j \in DOMAIN queues[c] : queues[c][j] = id => j = i
      /\ current[c] # NoTask =>
           LET id == current[c] IN
             /\ Names(id, "Running")
             /\ tasks[id.slot].assigned_cpu = c /\ c \in tasks[id.slot].affinity

TasksOk ==
    \A s \in Slot :
      LET t == tasks[s] IN
        /\ t.state = "Runnable" =>
             t.queued_cpu # NoCpu /\ \E i \in DOMAIN queues[t.queued_cpu] :
                                       queues[t.queued_cpu][i] = Id(s)
        /\ t.state = "Running" => t.assigned_cpu # NoCpu /\ current[t.assigned_cpu] = Id(s)
        /\ t.state # "Runnable" => t.queued_cpu = NoCpu /\ t.bypass_count = 0
        /\ t.state \in {"Dormant", "Dead"} =>
             t.assigned_cpu = NoCpu /\ t.wait_kind = "None" /\ donation[s] = 0
        /\ t.wake_reason # "None" => t.state \in {"Runnable", "Running"}
        /\ (t.state = "Blocked") = (t.wait_kind # "None")
        /\ Known(s) => t.affinity # {}

\* The queue and CPU part of validate(): a runnable task is in exactly one
\* queue, once, that of a CPU it may run on; a running task is current on
\* exactly one CPU; every other task is in no queue and on no CPU; and no
\* queue or CPU still names a slot's earlier generation, whatever sequence of
\* migrations, wakes, handoffs and teardowns came before.
PlacementOk == QueuedOk /\ TasksOk

\* The waiter part of validate(), and what is left of its owner test when the
\* owner is free to block: the wait list holds exactly the tasks blocked on the
\* mutex, each once; nobody waits for a mutex that has no owner; and the owner
\* is a live task that may run, or that waits for something other than the
\* mutex, so that no handoff, wake or teardown leaves the mutex with a task that
\* cannot give it back.
WaitersOk ==
    /\ \A i \in DOMAIN mutex_waiters :
         /\ Names(mutex_waiters[i], "Blocked")
         /\ tasks[mutex_waiters[i].slot].wait_kind = "Mutex"
         /\ \A j \in DOMAIN mutex_waiters : mutex_waiters[j] = mutex_waiters[i] => j = i
    /\ \A s \in Slot : tasks[s].wait_kind = "Mutex" =>
         \E i \in DOMAIN mutex_waiters : mutex_waiters[i] = Id(s)
    /\ mutex_owner = NoTask => mutex_waiters = <<>>
    /\ mutex_owner # NoTask =>
         /\ mutex_owner = Id(mutex_owner.slot)
         /\ \/ tasks[mutex_owner.slot].state \in {"Runnable", "Running"}
            \/ tasks[mutex_owner.slot].wait_kind \in {"Event", "ExternalLock"}

\* The owner test of validate() as it stands (LockOwner): the mutex owner is
\* runnable or running.
OwnerRunnable ==
    mutex_owner # NoTask => tasks[mutex_owner.slot].state \in {"Runnable", "Running"}

\* Effective priorities are exact in every state: a boost starts with the wait
\* that causes it and ends with the handoff, cancellation, priority change or
\* teardown that removes its cause.
PriorityExact == tasks = Recompute(tasks, mutex_owner, mutex_waiters, donation)

\* dispatch never returns BypassOverflow: no queued task is passed over by more
\* than MAX_BYPASS equal-priority dispatches, although a CPU's queue can be
\* refilled for ever and tasks migrate between queues with their counts.
BypassBound == \A s \in Slot : tasks[s].bypass_count <= MAX_BYPASS

BypassedAtLeast(k) == {s \in Slot : tasks[s].bypass_count >= k}

\* Why dispatch never overflows a count: the tasks that have been passed over k
\* times or more are at most MAX_TASKS - k.
BypassRank ==
    \A k \in 1..Cardinality(Slot) :
        Cardinality(BypassedAtLeast(k)) <= Cardinality(Slot) - k

\* A wake reason that has been delivered is not replaced by another one: it
\* stays until the task consumes it, blocks again or is torn down.
WakeOnce ==
    [][\A s \in Slot :
         tasks[s].wake_reason # "None" /\ tasks'[s].wake_reason # tasks[s].wake_reason
           => tasks'[s].wake_reason = "None" /\ tasks[s].generation = tasks'[s].generation]_vars

\* The last test of validate(): the owner's effective priority is the maximum
\* of its base priority and its waiters' base priorities.
OwnerPriority ==
    mutex_owner # NoTask =>
      tasks[mutex_owner.slot].effective_priority =
        Max({tasks[mutex_owner.slot].base_priority} \cup
            {tasks[mutex_waiters[i].slot].base_priority : i \in DOMAIN mutex_waiters})

-----------------------------------------------------------------------------
\* Fairness: an idle CPU with queued work dispatches (the scheduler loop), and
\* the quantum timer takes the CPU from a task that goes on running.
FairSpec ==
    /\ Spec
    /\ \A c \in Cpu : WF_vars(Dispatch(c)) /\ WF_vars(YieldCurrent(c))

\* A task that no other outranks does not wait on one CPU's queue for ever: over
\* and over it is dispatched, leaves the queue by migration, block or teardown,
\* or is outranked by a donation.
NoStarvation ==
    \A s \in Slot, c \in Cpu :
      []<>~ /\ tasks[s].state = "Runnable"
            /\ tasks[s].queued_cpu = c
            /\ \A r \in Slot : tasks[r].effective_priority <= tasks[s].effective_priority
=============================================================================
