---------------------------- MODULE SmpScheduler ----------------------------
(***************************************************************************)
(* PKSCHED4, the ownership protocol of native/kernel/src/scheduler_smp.rs: *)
(* one controller owns the run queues of all CPUs, and a wake, a           *)
(* migration, a dispatch or a preemption takes effect on another CPU only  *)
(* when that CPU's answer to the request of the one pending ticket comes   *)
(* back.  Answers may come late, or more than once.                        *)
(*                                                                         *)
(* Operations take &mut self and are single actions.  Those that fail      *)
(* leave the state as it was, and are left out; so are statistics.  The    *)
(* clauses of validate() are properties.  A request carries the attempt    *)
(* and sequence numbers that the caller gives it.  install_pending wants   *)
(* them nonzero, not new: the answer to an earlier request of the same CPU *)
(* with the same numbers is taken for the answer to a later one.           *)
(***************************************************************************)
EXTENDS Integers, FiniteSets, Sequences

CONSTANTS
    Slot,            \* task slots (0..TASK_CAPACITY-1 in the code)
    Cpu,             \* CPUs, of which 0 is the boot processor
    Priority,        \* priorities the callers use
    Affinity,        \* affinity masks the callers use, as sets of CPUs
    MaxGeneration,   \* bound on the generations handed out for a slot
    MaxTransaction,  \* bound on the tickets handed out
    Request,         \* attempt and sequence numbers the callers use
    NoTask, NoCpu, NoTicket

ASSUME SlotAssumption == IsFiniteSet(Slot) /\ Slot # {}
ASSUME CpuAssumption == Cpu \subseteq 0..3 /\ 0 \in Cpu /\ NoCpu \notin Cpu
ASSUME PriorityAssumption == Priority \subseteq 1..31
ASSUME AffinityAssumption == Affinity \subseteq (SUBSET Cpu) \ {{}}
ASSUME BoundAssumption == MaxGeneration \in Nat /\ MaxTransaction \in Nat

MAX_EQUAL_PRIORITY_BYPASS == Cardinality(Slot) - 1
OFFLINE_PROBE_CPU == 4

TaskId == [slot : Slot, generation : Nat]
TaskRecord ==
    [generation : Nat, priority : 1..31, owner_epoch : Nat,
     state : {"Dormant", "Runnable", "Blocked", "Transfer", "Running", "Dead"},
     affinity : SUBSET Cpu, owner_cpu : Cpu \cup {NoCpu},
     queued_cpu : Cpu \cup {NoCpu}, bypass_count : Nat]
Kind == {"Wake", "Migration", "Dispatch", "OfflineProbe", "Preempt"}
Ticket ==
    [transaction : Nat, kind : Kind, task : TaskId, source_cpu : Cpu,
     target_cpu : Cpu \cup {OFFLINE_PROBE_CPU}, owner_epoch : Nat, request : Request]

ASSUME AbsenceAssumption == NoTask \notin TaskId /\ NoTicket \notin Ticket

VARIABLES
    tasks,        \* the task table
    queues,       \* run queue of each CPU
    current,      \* running task of each CPU
    online,       \* online_mask
    pending,      \* the ticket that waits for its answer
    transaction,  \* number of tickets handed out
    answered      \* requests that CPUs have accepted: <<CPU, request>>

schedVars == <<tasks, queues, current, online, pending, transaction, answered>>
ticketVars == <<pending, transaction, answered>>

-----------------------------------------------------------------------------
EmptyTask ==
    [generation |-> 0, state |-> "Dormant", priority |-> 1, affinity |-> {},
     owner_cpu |-> NoCpu, owner_epoch |-> 0, queued_cpu |-> NoCpu, bypass_count |-> 0]

\* The scan of Queue::insert and Queue::remove: the id has an entry.
Contains(q, id) == \E i \in DOMAIN q : q[i] = id

\* Queue::remove_at: the entries behind the removed one move up.
RemoveAt(q, i) == [j \in 1..Len(q) - 1 |-> IF j < i THEN q[j] ELSE q[j + 1]]

\* Queue::remove, of an id that is in the queue
Remove(q, id) ==
    RemoveAt(q, CHOOSE i \in DOMAIN q : q[i] = id /\ \A j \in 1..i - 1 : q[j] # id)

Id(s) == [slot |-> s, generation |-> tasks[s].generation]

\* task_index: a TaskId of another generation is refused.
Known(id) == tasks[id.slot].generation # 0 /\ id = Id(id.slot)
Live(s) == tasks[s].generation # 0

NoPending == pending = NoTicket

Init ==
    /\ tasks = [s \in Slot |-> EmptyTask]
    /\ queues = [c \in Cpu |-> <<>>]
    /\ current = [c \in Cpu |-> NoTask]
    /\ online = Cpu
    /\ pending = NoTicket
    /\ transaction = 0
    /\ answered = {}

\* Mutant: a later entry of the same priority replaces the selected one.
IsPickNewest(ts, q, i) ==
    LET P(j) == ts[q[j].slot].priority
    IN  \A j \in DOMAIN q : P(j) <= P(i) /\ (j > i => P(j) < P(i))

\* pick: the first of the entries that are maximal by priority and then by
\* bypass count, for a task table ts.
IsPick(ts, q, i) ==
    LET T(j) == ts[q[j].slot]
        Before(a, b) == \/ a.priority > b.priority
                        \/ a.priority = b.priority /\ a.bypass_count > b.bypass_count
    IN  \A j \in DOMAIN q \ {i} :
           /\ ~Before(T(j), T(i))
           /\ j < i => Before(T(i), T(j))

\* The tasks left in queue q at the priority of the selected entry i have been
\* passed over once more.  The Counter errors inside the loops are no
\* alternative here: BypassBound says they are never returned.
Passed(ts, q, i) ==
    [s \in Slot |->
       IF /\ ts[s].priority = ts[q[i].slot].priority
          /\ \E j \in DOMAIN q \ {i} : q[j].slot = s
       THEN [ts[s] EXCEPT !.bypass_count = @ + 1]
       ELSE ts[s]]

Dead(t) == [t EXCEPT !.state = "Dead", !.owner_cpu = NoCpu, !.queued_cpu = NoCpu,
                     !.bypass_count = 0]

\* enqueue, for a task that is given to CPU c
Enqueued(t, c) == [t EXCEPT !.state = "Runnable", !.owner_cpu = c, !.queued_cpu = c]

\* A task whose wake or migration to CPU c is committed
Transferred(t, c) == [Enqueued(t, c) EXCEPT !.owner_epoch = t.owner_epoch + 1]

Running(t, c) ==
    [t EXCEPT !.state = "Running", !.owner_cpu = c, !.owner_epoch = @ + 1,
              !.queued_cpu = NoCpu, !.bypass_count = 0]

-----------------------------------------------------------------------------
CreateTask(s, g, p, a) ==
    /\ Live(s) => tasks[s].state = "Dead" /\ g > tasks[s].generation
    /\ tasks' = [tasks EXCEPT ![s] =
                   [EmptyTask EXCEPT !.generation = g, !.priority = p, !.affinity = a]]
    /\ UNCHANGED <<queues, current, online, ticketVars>>

Activate(s, c) ==
    /\ c \in online
    /\ Live(s) /\ tasks[s].state = "Dormant" /\ c \in tasks[s].affinity
    /\ tasks' = [tasks EXCEPT ![s] = [Enqueued(@, c) EXCEPT !.owner_epoch = 1]]
    /\ queues' = [queues EXCEPT ![c] = Append(@, Id(s))]
    /\ UNCHANGED <<current, online, ticketVars>>

\* Mutant: block_runnable does not wait for the pending transfer.
BlockDuringTransfer(s) ==
    /\ Live(s) /\ tasks[s].state = "Runnable" /\ Contains(queues[tasks[s].queued_cpu], Id(s))
    /\ tasks' = [tasks EXCEPT ![s].state = "Blocked", ![s].queued_cpu = NoCpu,
                              ![s].bypass_count = 0]
    /\ queues' = [queues EXCEPT ![tasks[s].queued_cpu] = Remove(@, Id(s))]
    /\ UNCHANGED <<current, online, ticketVars>>

BlockRunnable(s) ==
    /\ NoPending
    /\ Live(s) /\ tasks[s].state = "Runnable" /\ Contains(queues[tasks[s].queued_cpu], Id(s))
    /\ tasks' = [tasks EXCEPT ![s].state = "Blocked", ![s].queued_cpu = NoCpu,
                              ![s].bypass_count = 0]
    /\ queues' = [queues EXCEPT ![tasks[s].queued_cpu] = Remove(@, Id(s))]
    /\ UNCHANGED <<current, online, ticketVars>>

CancelTask(s) ==
    /\ NoPending
    /\ Live(s) /\ tasks[s].state \in {"Runnable", "Blocked"}
    /\ tasks[s].state = "Runnable" => Contains(queues[tasks[s].queued_cpu], Id(s))
    /\ tasks' = [tasks EXCEPT ![s] = Dead(@)]
    /\ queues' = IF tasks[s].state = "Runnable"
                 THEN [queues EXCEPT ![tasks[s].queued_cpu] = Remove(@, Id(s))]
                 ELSE queues
    /\ UNCHANGED <<current, online, ticketVars>>

\* install_pending: the commit it tries on a copy is CommitReady, a property.
Install(kind, id, source, target) ==
    /\ NoPending /\ transaction < MaxTransaction
    /\ transaction' = transaction + 1
    /\ \E r \in Request :
         pending' = [transaction |-> transaction', kind |-> kind, task |-> id,
                     source_cpu |-> source, target_cpu |-> target,
                     owner_epoch |-> tasks[id.slot].owner_epoch, request |-> r]
    /\ UNCHANGED answered

\* Mutant: the source of a wake is the queue the task is not in.
StageWakeFromQueue(s, target) ==
    /\ target \in online
    /\ Live(s) /\ tasks[s].state = "Blocked" /\ target \in tasks[s].affinity
    /\ Install("Wake", Id(s), tasks[s].queued_cpu, target)
    /\ UNCHANGED <<tasks, queues, current, online>>

StageWake(s, target) ==
    /\ target \in online
    /\ Live(s) /\ tasks[s].state = "Blocked" /\ target \in tasks[s].affinity
    /\ Install("Wake", Id(s), tasks[s].owner_cpu, target)
    /\ UNCHANGED <<tasks, queues, current, online>>

StageMigration(s, target) ==
    /\ target \in online
    /\ Live(s) /\ tasks[s].state = "Runnable" /\ target \in tasks[s].affinity
    /\ tasks[s].queued_cpu # target
    /\ Install("Migration", Id(s), tasks[s].queued_cpu, target)
    /\ UNCHANGED <<tasks, queues, current, online>>

StageOfflineProbe(s) ==
    /\ Live(s) /\ tasks[s].state = "Runnable"
    /\ Install("OfflineProbe", Id(s), tasks[s].queued_cpu, OFFLINE_PROBE_CPU)
    /\ UNCHANGED <<tasks, queues, current, online>>

\* The selected task leaves its queue, and keeps its bypass count until the
\* answer comes.
StageDispatch(c) ==
    /\ c \in online /\ current[c] = NoTask
    /\ \E i \in DOMAIN queues[c] :
         LET q == queues[c] IN
           /\ IsPick(tasks, q, i)
           /\ queues' = [queues EXCEPT ![c] = RemoveAt(q, i)]
           /\ tasks' = [Passed(tasks, q, i) EXCEPT ![q[i].slot].state = "Transfer",
                                                   ![q[i].slot].queued_cpu = NoCpu]
           /\ Install("Dispatch", q[i], c, c)
    /\ UNCHANGED <<current, online>>

StagePreempt(c) ==
    /\ c \in online /\ current[c] # NoTask /\ queues[c] # <<>>
    /\ Install("Preempt", current[c], c, c)
    /\ UNCHANGED <<tasks, queues, current, online>>

-----------------------------------------------------------------------------
\* commit_acknowledgement, by the kind of the ticket.  Fits is what a commit
\* requires of the state it finds.
Fits(k) ==
    /\ Known(k.task)
    /\ LET t == tasks[k.task.slot] IN
         /\ t.owner_epoch = k.owner_epoch
         /\ k.kind = "Wake" => t.state = "Blocked" /\ k.target_cpu \in t.affinity
         /\ k.kind = "Migration" =>
              /\ t.state = "Runnable" /\ k.target_cpu \in t.affinity
              /\ Contains(queues[k.source_cpu], k.task)
         /\ k.kind = "Dispatch" => t.state = "Transfer" /\ current[k.target_cpu] = NoTask
         /\ k.kind = "Preempt" => t.state = "Running" /\ current[k.target_cpu] = k.task

CommitWake(k) ==
    /\ k.kind = "Wake"
    /\ tasks' = [tasks EXCEPT ![k.task.slot] = Transferred(@, k.target_cpu)]
    /\ queues' = [queues EXCEPT ![k.target_cpu] = Append(@, k.task)]
    /\ UNCHANGED current

\* Mutant: the migrated task keeps the epoch of its former owner.
MigrationKeepsEpoch(k) ==
    /\ k.kind = "Migration"
    /\ tasks' = [tasks EXCEPT ![k.task.slot] = Enqueued(@, k.target_cpu)]
    /\ queues' = [queues EXCEPT ![k.source_cpu] = Remove(@, k.task),
                                ![k.target_cpu] = Append(@, k.task)]
    /\ UNCHANGED current

CommitMigration(k) ==
    /\ k.kind = "Migration"
    /\ tasks' = [tasks EXCEPT ![k.task.slot] = Transferred(@, k.target_cpu)]
    /\ queues' = [queues EXCEPT ![k.source_cpu] = Remove(@, k.task),
                                ![k.target_cpu] = Append(@, k.task)]
    /\ UNCHANGED current

CommitDispatch(k) ==
    /\ k.kind = "Dispatch"
    /\ tasks' = [tasks EXCEPT ![k.task.slot] = Running(@, k.target_cpu)]
    /\ current' = [current EXCEPT ![k.target_cpu] = k.task]
    /\ UNCHANGED queues

\* Mutant: the preempted task is not put back into the queue it leaves for.
PreemptLosesTask(k) ==
    /\ k.kind = "Preempt"
    /\ LET c == k.target_cpu
           ts == [tasks EXCEPT ![k.task.slot] = Enqueued(@, c)]
           q == queues[c]
       IN  \E i \in DOMAIN q :
             /\ IsPick(ts, q, i)
             /\ queues' = [queues EXCEPT ![c] = RemoveAt(q, i)]
             /\ tasks' = [Passed(ts, q, i) EXCEPT ![q[i].slot] = Running(@, c)]
             /\ current' = [current EXCEPT ![c] = q[i]]

\* The preempted task joins the queue before the next one is selected.
CommitPreempt(k) ==
    /\ k.kind = "Preempt"
    /\ LET c == k.target_cpu
           ts == [tasks EXCEPT ![k.task.slot] = Enqueued(@, c)]
           q == Append(queues[c], k.task)
       IN  \E i \in DOMAIN q :
             /\ IsPick(ts, q, i)
             /\ queues' = [queues EXCEPT ![c] = RemoveAt(q, i)]
             /\ tasks' = [Passed(ts, q, i) EXCEPT ![q[i].slot] = Running(@, c)]
             /\ current' = [current EXCEPT ![c] = q[i]]

\* The target CPU accepts the request and answers it.  It refuses numbers that it
\* has accepted before (validate_request of smp_ipi.rs).
Answer ==
    /\ ~NoPending
    /\ <<pending.target_cpu, pending.request>> \notin answered
    /\ answered' = answered \cup {<<pending.target_cpu, pending.request>>}
    /\ UNCHANGED <<tasks, queues, current, online, pending, transaction>>

Matches(k, ack) == ack[1] = k.target_cpu /\ ack[2] = k.request

\* acknowledge and acknowledge_reschedule: any answer that has been given may be
\* presented, early, late or again.  A ticket other than the pending one is
\* refused.
Acknowledge(ack) ==
    /\ ~NoPending /\ Matches(pending, ack) /\ Fits(pending)
    /\ \/ CommitWake(pending)
       \/ CommitMigration(pending)
       \/ CommitDispatch(pending)
       \/ CommitPreempt(pending)
    /\ pending' = NoTicket
    /\ UNCHANGED <<online, transaction, answered>>

ProbeFits(k) ==
    /\ Known(k.task) /\ tasks[k.task.slot].state = "Runnable"
    /\ tasks[k.task.slot].queued_cpu = k.source_cpu

Timeout ==
    /\ ~NoPending /\ pending.kind = "OfflineProbe" /\ ProbeFits(pending)
    /\ pending' = NoTicket
    /\ UNCHANGED <<tasks, queues, current, online, transaction, answered>>

CompleteCurrent(c) ==
    /\ NoPending /\ c \in online /\ current[c] # NoTask
    /\ tasks' = [tasks EXCEPT ![current[c].slot] = Dead(@)]
    /\ current' = [current EXCEPT ![c] = NoTask]
    /\ UNCHANGED <<queues, online, ticketVars>>

\* dispatch_local: the boot processor runs the selected task to completion.
\* The tasks it passes over are not counted.
DispatchLocal(i) ==
    /\ NoPending /\ 0 \in online /\ current[0] = NoTask
    /\ IsPick(tasks, queues[0], i)
    /\ queues' = [queues EXCEPT ![0] = RemoveAt(@, i)]
    /\ tasks' = [tasks EXCEPT ![queues[0][i].slot] = Dead(Running(@, 0))]
    /\ UNCHANGED <<current, online, ticketVars>>

OfflineIdleCpu(c) ==
    /\ NoPending /\ c \in online /\ c # 0 /\ current[c] = NoTask /\ queues[c] = <<>>
    /\ online' = online \ {c}
    /\ UNCHANGED <<tasks, queues, current, ticketVars>>

-----------------------------------------------------------------------------
TaskOp(s) ==
    \/ \E g \in 1..MaxGeneration, p \in Priority, a \in Affinity : CreateTask(s, g, p, a)
    \/ \E c \in Cpu : Activate(s, c)
    \/ BlockRunnable(s)
    \/ CancelTask(s)
    \/ \E c \in Cpu : StageWake(s, c)
    \/ \E c \in Cpu : StageMigration(s, c)
    \/ StageOfflineProbe(s)

CpuOp(c) ==
    \/ StageDispatch(c)
    \/ StagePreempt(c)
    \/ CompleteCurrent(c)
    \/ OfflineIdleCpu(c)

Next ==
    \/ \E s \in Slot : TaskOp(s)
    \/ \E c \in Cpu : CpuOp(c)
    \/ \E i \in DOMAIN queues[0] : DispatchLocal(i)
    \/ Answer
    \/ \E ack \in answered : Acknowledge(ack)
    \/ Timeout

Spec == Init /\ [][Next]_schedVars

-----------------------------------------------------------------------------
\* The types of the controller's fields.
TypeOK ==
    /\ tasks \in [Slot -> TaskRecord]
    /\ queues \in [Cpu -> Seq(TaskId)]
    /\ current \in [Cpu -> TaskId \cup {NoTask}]
    /\ online \in SUBSET Cpu
    /\ pending \in Ticket \cup {NoTicket}
    /\ transaction \in Nat
    /\ answered \in SUBSET ((Cpu \cup {OFFLINE_PROBE_CPU}) \X Request)

Owned(s, c) ==
    tasks[s].owner_cpu = c /\ c \in online /\ c \in tasks[s].affinity

QueuedOk ==
    \A c \in Cpu : \A i \in DOMAIN queues[c] :
      LET id == queues[c][i] IN
        /\ Known(id) /\ tasks[id.slot].state = "Runnable"
        /\ tasks[id.slot].queued_cpu = c /\ Owned(id.slot, c)
        /\ \A j \in DOMAIN queues[c] : queues[c][j] = id => j = i

RunningOk ==
    \A c \in Cpu : current[c] # NoTask =>
      /\ Known(current[c]) /\ tasks[current[c].slot].state = "Running"
      /\ Owned(current[c].slot, c)

TasksOk ==
    \A s \in Slot :
      LET t == tasks[s] IN
        /\ t.state = "Runnable" => t.queued_cpu # NoCpu /\ Contains(queues[t.queued_cpu], Id(s))
        /\ t.state = "Running" => t.owner_cpu # NoCpu /\ current[t.owner_cpu] = Id(s)
        /\ t.state = "Transfer" =>
             /\ pending # NoTicket /\ pending.kind = "Dispatch" /\ pending.task = Id(s)
             /\ Owned(s, pending.target_cpu) /\ current[pending.target_cpu] = NoTask
        /\ t.state # "Runnable" => t.queued_cpu = NoCpu
        /\ (t.owner_cpu = NoCpu) = (t.state \in {"Dormant", "Dead"})
        /\ t.state # "Dormant" => t.owner_epoch # 0

\* validate(): a task is where its state says, once, and nowhere else: in the
\* queue of the online CPU that owns it, on a CPU, in the one pending dispatch,
\* or nowhere.
PlacementOk == QueuedOk /\ RunningOk /\ TasksOk

\* The promise of install_pending ("Prove local commit capacity before issuing
\* work"): whatever create_task and activate do while a ticket is pending, its
\* answer can be committed when it comes, and a probe can be timed out.
CommitReady ==
    pending # NoTicket => IF pending.kind = "OfflineProbe" THEN ProbeFits(pending)
                                                           ELSE Fits(pending)

\* stage_dispatch and a preemption never return Counter because of a bypass
\* count, although a dispatched task keeps its count until the answer comes and
\* dispatch_local and migrations mix queues with different histories.
BypassBound == \A s \in Slot : tasks[s].bypass_count <= MAX_EQUAL_PRIORITY_BYPASS

\* The owner epoch fences owners: while a slot keeps its generation its epoch
\* never decreases, and it grows whenever the task passes from one CPU to
\* another, so a ticket or snapshot of an earlier owner cannot be mistaken.
EpochFences ==
    [][\A s \in Slot :
         tasks'[s].generation = tasks[s].generation =>
           /\ tasks'[s].owner_epoch >= tasks[s].owner_epoch
           /\ {tasks[s].owner_cpu, tasks'[s].owner_cpu} \subseteq Cpu
              /\ tasks'[s].owner_cpu # tasks[s].owner_cpu
                => tasks'[s].owner_epoch > tasks[s].owner_epoch]_schedVars
=============================================================================
