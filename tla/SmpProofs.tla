----------------------------- MODULE SmpProofs -----------------------------
(* The guarantees of the SMP scheduler, alone and under the task lifetimes,   *)
(* from the invariants of SmpSteps and LifetimeSteps, for every set of slots, *)
(* CPUs, priorities, affinities and readers.                                  *)
EXTENDS LifetimeSteps

\* A leaf is tried with SMT, then with Zenon, then with SMT for longer.
USE SMT, Zenon, SMTT(40)

\* The inductive invariant of the ownership protocol holds in every behaviour.
THEOREM SmpInvariant == Spec => []SmpInv
<1>1. SmpInv /\ [Next]_schedVars => SmpInv'
  BY SmpStep
<1> QED BY <1>1, SmpInit, PTL DEF Spec

\* validate() never fails: whatever the interleaving of operations, answers and
\* timeouts, every task is where its record says, once, and nowhere else.
THEOREM SmpPlacement == Spec => []PlacementOk
BY SmpInvariant, InvPlaces, PTL

\* What create_task and activate do while a ticket is pending never takes away
\* what its commit, or the timeout of a probe, will need.
THEOREM SmpCommitReady == Spec => []CommitReady
BY SmpInvariant, InvCommits, PTL

\* No operation, answer or timeout lets a task change its CPU under one epoch.
THEOREM SmpEpochFences == Spec => EpochFences
<1>1. SmpInv /\ [Next]_schedVars => Fenced
  BY SmpStep
<1>2. Fenced =>
        \A s \in Slot :
          tasks'[s].generation = tasks[s].generation =>
            /\ tasks'[s].owner_epoch >= tasks[s].owner_epoch
            /\ {tasks[s].owner_cpu, tasks'[s].owner_cpu} \subseteq Cpu
               /\ tasks'[s].owner_cpu # tasks[s].owner_cpu
                 => tasks'[s].owner_epoch > tasks[s].owner_epoch
  BY DEF Fenced, Fence
<1> QED BY <1>1, <1>2, SmpInvariant, PTL DEF Spec, EpochFences

-----------------------------------------------------------------------------
(* Bypass counts.  At most N - k of the N tasks that are not in transfer have *)
(* been passed over k times: whenever tasks rise to level k, the selected one, *)
(* which has been passed over at least as often as any of them, leaves        *)
(* level k - 1.                                                               *)

N == Cardinality(Slot)

Over(ts, k) == {s \in Slot : ts[s].state # "Transfer" /\ ts[s].bypass_count >= k}

Levels(ts) ==
    /\ \A k \in 0..N : Cardinality(Over(ts, k)) <= N - k
    /\ \A s \in Slot : ts[s].bypass_count <= N - 1

\* There is at least one slot.
LEMMA NType == N \in Nat /\ N >= 1 /\ IsFiniteSet(Slot)
<1>1. IsFiniteSet(Slot) /\ N \in Nat
  BY SlotAssumption, FS_CardinalityType DEF N
<1>2. N # 0
  BY <1>1, SlotAssumption, FS_EmptySet DEF N
<1> QED BY <1>1, <1>2

\* A level is a finite set of slots.
LEMMA LevelType ==
  ASSUME NEW ts, NEW k
  PROVE  /\ IsFiniteSet(Over(ts, k)) /\ Cardinality(Over(ts, k)) \in Nat
         /\ Cardinality(Over(ts, k)) <= N
<1>1. Over(ts, k) \subseteq Slot
  BY DEF Over
<1> QED BY <1>1, NType, FS_Subset, FS_CardinalityType DEF N

\* Clearing counts, and moving tasks without counting, keeps the levels.
LEMMA LevelsKept ==
  ASSUME NEW ts \in [Slot -> TaskRecord], NEW us \in [Slot -> TaskRecord], Levels(ts),
         \A x \in Slot :
           \/ us[x].bypass_count = 0
           \/ /\ us[x].bypass_count = ts[x].bypass_count
              /\ ts[x].state = "Transfer" => us[x].state = "Transfer"
  PROVE  Levels(us)
<1>1. ASSUME NEW k \in 0..N PROVE Cardinality(Over(us, k)) <= N - k
  <2>1. CASE k = 0
    BY <2>1, LevelType, NType
  <2>2. CASE k # 0
    <3>1. Over(us, k) \subseteq Over(ts, k)
      BY <2>2, NType DEF Over
    <3>2. Cardinality(Over(us, k)) <= Cardinality(Over(ts, k))
      BY <3>1, LevelType, FS_Subset
    <3>3. Cardinality(Over(ts, k)) <= N - k
      BY DEF Levels
    <3> HIDE DEF Over
    <3> QED BY <3>2, <3>3, LevelType, NType
  <2> QED BY <2>1, <2>2
<1>2. ASSUME NEW s \in Slot PROVE us[s].bypass_count <= N - 1
  BY NType DEF Levels
<1> QED BY <1>1, <1>2 DEF Levels

\* Selecting entry i of queue q and counting the others keeps them, too.
LEMMA LevelsPassed ==
  ASSUME NEW ts \in [Slot -> TaskRecord], NEW fs \in [Slot -> TaskRecord], Levels(ts),
         NEW q, NEW i \in DOMAIN q, NEW p \in Slot, p = q[i].slot,
         \A j \in DOMAIN q : q[j].slot \in Slot /\ ts[q[j].slot].state = "Runnable",
         \A j \in DOMAIN q \ {i} : q[j].slot # p,
         IsPick(ts, q, i),
         \A x \in Slot : x # p => fs[x] = Passed(ts, q, i)[x],
         \/ fs[p].bypass_count = 0
         \/ fs[p].bypass_count = ts[p].bypass_count /\ fs[p].state = "Transfer"
  PROVE  Levels(fs)
<1> DEFINE Up(x) == /\ ts[x].priority = ts[p].priority
                    /\ \E j \in DOMAIN q \ {i} : q[j].slot = x
<1>1. ASSUME NEW x \in Slot
      PROVE  ts[x] \in TaskRecord /\ ts[x].bypass_count \in Nat /\ fs[x].bypass_count \in Nat
  BY DEF TaskRecord
<1>2. ASSUME NEW x \in Slot, x # p
      PROVE  /\ fs[x].state = ts[x].state
             /\ Up(x) => fs[x].bypass_count = ts[x].bypass_count + 1
             /\ ~Up(x) => fs[x].bypass_count = ts[x].bypass_count
  <2>1. fs[x] = IF Up(x) THEN [ts[x] EXCEPT !.bypass_count = @ + 1] ELSE ts[x]
    BY <1>2 DEF Passed
  <2> HIDE DEF Up
  <2>2. ts[x] \in TaskRecord
    OBVIOUS
  <2> QED BY <2>1, <2>2 DEF TaskRecord
<1>3. ASSUME NEW x \in Slot, Up(x)
      PROVE  ts[x].bypass_count <= ts[p].bypass_count /\ ts[x].state = "Runnable"
  <2>1. PICK j \in DOMAIN q \ {i} : q[j].slot = x
    BY <1>3
  <2>2. ~(ts[x].bypass_count > ts[p].bypass_count)
    BY <1>3, <2>1 DEF IsPick
  <2> QED BY <1>1, <2>1, <2>2
<1>4. ts[p].state # "Transfer"
  OBVIOUS
<1> HIDE DEF Up
<1>5. ASSUME NEW k \in 0..N PROVE Cardinality(Over(fs, k)) <= N - k
  <2>1. CASE k = 0
    BY <2>1, LevelType, NType
  <2>2. CASE k # 0
    <3>0. k \in Nat /\ k >= 1 /\ k - 1 \in 0..N
      BY <2>2, NType
    <3>1. p \notin Over(fs, k)
      BY <3>0 DEF Over
    <3>2. CASE \E x \in Slot : x # p /\ Up(x) /\ ts[x].bypass_count >= k - 1
      <4>1. p \in Over(ts, k - 1)
        BY <1>1, <1>3, <1>4, <3>0, <3>2 DEF Over
      <4>2. Over(fs, k) \subseteq Over(ts, k - 1) \ {p}
        <5> SUFFICES ASSUME NEW x \in Over(fs, k) PROVE x \in Over(ts, k - 1) /\ x # p
          OBVIOUS
        <5>1. x \in Slot /\ x # p /\ fs[x].state # "Transfer" /\ fs[x].bypass_count >= k
          BY <3>1 DEF Over
        <5>2. ts[x].state # "Transfer" /\ ts[x].bypass_count >= k - 1
          BY <1>1, <1>2, <3>0, <5>1
        <5> QED BY <5>1, <5>2 DEF Over
      <4>3. /\ Cardinality(Over(ts, k - 1) \ {p}) = Cardinality(Over(ts, k - 1)) - 1
            /\ IsFiniteSet(Over(ts, k - 1) \ {p})
        BY <4>1, LevelType, FS_RemoveElement, Zenon
      <4>4. Cardinality(Over(fs, k)) <= Cardinality(Over(ts, k - 1) \ {p})
        BY <4>2, <4>3, FS_Subset
      <4>5. Cardinality(Over(ts, k - 1)) <= N - (k - 1)
        BY <3>0 DEF Levels
      <4>6. Cardinality(Over(ts, k - 1)) \in Nat /\ Cardinality(Over(fs, k)) \in Nat
        BY LevelType
      <4> QED BY <3>0, <4>3, <4>4, <4>5, <4>6, NType
    <3>3. CASE ~ \E x \in Slot : x # p /\ Up(x) /\ ts[x].bypass_count >= k - 1
      <4>1. Over(fs, k) \subseteq Over(ts, k)
        <5> SUFFICES ASSUME NEW x \in Over(fs, k) PROVE x \in Over(ts, k)
          OBVIOUS
        <5>1. x \in Slot /\ x # p /\ fs[x].state # "Transfer" /\ fs[x].bypass_count >= k
          BY <3>1 DEF Over
        <5>2. ~Up(x)
          BY <1>1, <1>2, <3>0, <3>3, <5>1
        <5>3. ts[x].state # "Transfer" /\ ts[x].bypass_count >= k
          BY <1>2, <5>1, <5>2
        <5> QED BY <5>1, <5>3 DEF Over
      <4>2. Cardinality(Over(fs, k)) <= Cardinality(Over(ts, k))
        BY <4>1, LevelType, FS_Subset
      <4>3. Cardinality(Over(ts, k)) <= N - k
        BY DEF Levels
      <4>4. Cardinality(Over(ts, k)) \in Nat /\ Cardinality(Over(fs, k)) \in Nat
        BY LevelType
      <4> QED BY <3>0, <4>2, <4>3, <4>4, NType
    <3> QED BY <3>2, <3>3
  <2> QED BY <2>1, <2>2
<1>6. ASSUME NEW s \in Slot PROVE fs[s].bypass_count <= N - 1
  <2>0. ts[s].bypass_count <= N - 1
    BY DEF Levels
  <2>1. CASE s = p
    BY <2>0, <2>1, NType
  <2>2. CASE s # p /\ fs[s].state = "Transfer"
    BY <1>2, <1>3, <2>0, <2>2
  <2>3. CASE fs[s].state # "Transfer"
    <3>1. Cardinality(Over(fs, N)) <= 0
      BY <1>5, NType
    <3>2. Over(fs, N) = {}
      BY <3>1, LevelType, FS_EmptySet
    <3>3. ~(fs[s].bypass_count >= N)
      BY <2>3, <3>2 DEF Over
    <3> QED BY <1>1, <3>3, NType
  <2> QED BY <2>1, <2>2, <2>3
<1> QED BY <1>5, <1>6 DEF Levels

\* Selecting a task keeps the levels.
LEMMA LevelsSelects ==
  ASSUME NEW ts \in [Slot -> TaskRecord], NEW fs \in [Slot -> TaskRecord], Levels(ts),
         Selects(ts, fs)
  PROVE  Levels(fs)
<1>1. PICK q : \E i \in DOMAIN q :
        LET p == q[i].slot IN
        /\ \A j \in DOMAIN q : q[j].slot \in Slot /\ ts[q[j].slot].state = "Runnable"
        /\ \A j \in DOMAIN q \ {i} : q[j].slot # p
        /\ IsPick(ts, q, i)
        /\ \A x \in Slot : x # p => fs[x] = Passed(ts, q, i)[x]
        /\ \/ fs[p].bypass_count = 0
           \/ fs[p].bypass_count = ts[p].bypass_count /\ fs[p].state = "Transfer"
  BY DEF Selects
<1>2. PICK i \in DOMAIN q, p \in Slot :
        /\ p = q[i].slot
        /\ \A j \in DOMAIN q : q[j].slot \in Slot /\ ts[q[j].slot].state = "Runnable"
        /\ \A j \in DOMAIN q \ {i} : q[j].slot # p
        /\ IsPick(ts, q, i)
        /\ \A x \in Slot : x # p => fs[x] = Passed(ts, q, i)[x]
        /\ \/ fs[p].bypass_count = 0
           \/ fs[p].bypass_count = ts[p].bypass_count /\ fs[p].state = "Transfer"
  BY <1>1
<1> QED BY <1>2, LevelsPassed

\* An operation that changes one record, and clears its count or keeps it.
LEMMA LevelsOne ==
  ASSUME SmpInv, SmpInv', Levels(tasks), NEW s \in Slot, NEW u,
         tasks' = [tasks EXCEPT ![s] = u],
         \/ u.bypass_count = 0
         \/ u.bypass_count = tasks[s].bypass_count /\ tasks[s].state # "Transfer"
  PROVE  Levels(tasks')
<1>1. tasks \in [Slot -> TaskRecord]
  BY DEF SmpInv, TypeOK
<1>2. tasks' \in [Slot -> TaskRecord]
  BY DEF SmpInv, TypeOK
<1>3. tasks'[s] = u /\ \A x \in Slot : x # s => tasks'[x] = tasks[x]
  BY <1>1
<1> QED BY <1>1, <1>2, <1>3, LevelsKept, Zenon

\* The levels are inductive, given where the tasks are.
LEMMA LevelsStep ==
  ASSUME SmpInv, Levels(tasks), [Next]_schedVars
  PROVE  Levels(tasks')
<1>0. SmpInv' /\ tasks \in [Slot -> TaskRecord] /\ tasks' \in [Slot -> TaskRecord]
  BY SmpStep DEF TypeOK, SmpInv
<1>k. \A s \in Slot, c \in Cpu :
         /\ Enqueued(tasks[s], c).bypass_count = tasks[s].bypass_count
         /\ [Enqueued(tasks[s], c) EXCEPT !.owner_epoch = 1].bypass_count = tasks[s].bypass_count
         /\ Transferred(tasks[s], c).bypass_count = tasks[s].bypass_count
         /\ Running(tasks[s], c).bypass_count = 0
         /\ Dead(tasks[s]).bypass_count = 0
         /\ Dead(Running(tasks[s], c)).bypass_count = 0
  BY <1>0 DEF Enqueued, Transferred, Running, Dead, TaskRecord
<1>1. ASSUME NEW s \in Slot, TaskOp(s) PROVE Levels(tasks')
  <2>1. CASE \E g \in 1..MaxGeneration, p \in Priority, a \in Affinity : CreateTask(s, g, p, a)
    <3>1. PICK g \in 1..MaxGeneration, p \in Priority, a \in Affinity : CreateTask(s, g, p, a)
      BY <2>1
    <3> DEFINE u == [EmptyTask EXCEPT !.generation = g, !.priority = p, !.affinity = a]
    <3>2. tasks' = [tasks EXCEPT ![s] = u] /\ u.bypass_count = 0
      BY <3>1 DEF CreateTask, EmptyTask
    <3> HIDE DEF u
    <3> QED BY <1>0, <3>2, LevelsOne, Zenon
  <2>2. CASE \E c \in Cpu : Activate(s, c)
    <3>1. PICK c \in Cpu : Activate(s, c)
      BY <2>2
    <3> DEFINE u == [Enqueued(tasks[s], c) EXCEPT !.owner_epoch = 1]
    <3>2. tasks' = [tasks EXCEPT ![s] = u] /\ tasks[s].state # "Transfer"
      BY <3>1 DEF Activate
    <3>3. u.bypass_count = tasks[s].bypass_count
      BY <1>k
    <3> HIDE DEF u
    <3> QED BY <1>0, <3>2, <3>3, LevelsOne, Zenon
  <2>3. CASE BlockRunnable(s)
    <3> DEFINE u == [tasks[s] EXCEPT !.state = "Blocked", !.queued_cpu = NoCpu, !.bypass_count = 0]
    <3>1. tasks' = [tasks EXCEPT ![s] = u]
      BY <1>0, <2>3, Zenon DEF BlockRunnable
    <3>2. u.bypass_count = 0
      BY <1>0 DEF TaskRecord
    <3> HIDE DEF u
    <3> QED BY <1>0, <3>1, <3>2, LevelsOne, Zenon
  <2>4. CASE CancelTask(s)
    <3>1. tasks' = [tasks EXCEPT ![s] = Dead(tasks[s])]
      BY <2>4 DEF CancelTask
    <3> QED BY <1>0, <1>k, <3>1, CpuAssumption, LevelsOne, Zenon
  <2>5. CASE \/ \E c \in Cpu : StageWake(s, c)
             \/ \E c \in Cpu : StageMigration(s, c)
             \/ StageOfflineProbe(s)
    BY <2>5 DEF StageWake, StageMigration, StageOfflineProbe
  <2> QED BY <1>1, <2>1, <2>2, <2>3, <2>4, <2>5 DEF TaskOp
<1>2. ASSUME NEW c \in Cpu, CpuOp(c) PROVE Levels(tasks')
  <2>1. CASE StageDispatch(c)
    BY <1>0, <2>1, StageDispatchStep, LevelsSelects
  <2>2. CASE CompleteCurrent(c)
    <3> DEFINE s == current[c].slot
    <3>1. current[c] \in TaskId /\ s \in Slot
      BY <2>2 DEF TypeOK, SmpInv, CompleteCurrent, TaskId
    <3>2. tasks' = [tasks EXCEPT ![s] = Dead(tasks[s])]
      BY <2>2 DEF CompleteCurrent
    <3> HIDE DEF s
    <3> QED BY <1>0, <1>k, <3>1, <3>2, LevelsOne, Zenon
  <2>3. CASE StagePreempt(c) \/ OfflineIdleCpu(c)
    BY <2>3 DEF StagePreempt, OfflineIdleCpu
  <2> QED BY <1>2, <2>1, <2>2, <2>3 DEF CpuOp
<1>3. ASSUME NEW i \in DOMAIN queues[0], DispatchLocal(i) PROVE Levels(tasks')
  <2> DEFINE s == queues[0][i].slot
  <2>1. 0 \in Cpu /\ s \in Slot
    BY CpuAssumption, QueueEntries DEF TypeOK, SmpInv
  <2>2. tasks' = [tasks EXCEPT ![s] = Dead(Running(tasks[s], 0))]
    BY <1>3 DEF DispatchLocal
  <2> HIDE DEF s
  <2> QED BY <1>0, <1>k, <2>1, <2>2, LevelsOne, Zenon
<1>4. ASSUME NEW ack \in answered, Acknowledge(ack) PROVE Levels(tasks')
  <2> DEFINE s == pending.task.slot
             c == pending.target_cpu
  <2>1. /\ s \in Slot
        /\ pending.kind # "OfflineProbe" => c \in Cpu
        /\ TicketOk(pending, tasks, current, online)
    BY <1>4, CommitFacts
  <2>2. CASE CommitWake(pending) \/ CommitMigration(pending)
    <3>1. tasks[s].state # "Transfer" /\ c \in Cpu /\ s \in Slot
      BY <2>1, <2>2 DEF TicketOk, CommitWake, CommitMigration
    <3>2. tasks' = [tasks EXCEPT ![s] = Transferred(tasks[s], c)]
      BY <2>2 DEF CommitWake, CommitMigration
    <3> HIDE DEF s, c
    <3> QED BY <1>0, <1>k, <3>1, <3>2, LevelsOne, Zenon
  <2>3. CASE CommitDispatch(pending)
    <3>1. c \in Cpu /\ s \in Slot
      BY <2>1, <2>3 DEF CommitDispatch
    <3>2. tasks' = [tasks EXCEPT ![s] = Running(tasks[s], c)]
      BY <2>3 DEF CommitDispatch
    <3> HIDE DEF s, c
    <3> QED BY <1>0, <1>k, <3>1, <3>2, LevelsOne, Zenon
  <2>4. CASE CommitPreempt(pending)
    <3>1. PICK ts \in [Slot -> TaskRecord] : CountsKept(tasks, ts) /\ Selects(ts, tasks')
      BY <1>4, <2>4, PreemptStep
    <3>2. Levels(ts)
      BY <1>0, <3>1, LevelsKept DEF CountsKept
    <3> QED BY <1>0, <3>1, <3>2, LevelsSelects
  <2> QED BY <1>4, <2>2, <2>3, <2>4 DEF Acknowledge
<1>5. CASE Answer \/ Timeout \/ UNCHANGED schedVars
  BY <1>5 DEF Answer, Timeout, schedVars
<1> QED BY <1>1, <1>2, <1>3, <1>4, <1>5 DEF Next

\* A bypass count stays below the number of slots, however queues with different
\* histories are mixed by migrations, wakes and preemptions.
THEOREM SmpBypassBound == Spec => []BypassBound
<1>1. Init => Levels(tasks)
  <2> SUFFICES ASSUME Init PROVE Levels(tasks)
    OBVIOUS
  <2>1. \A s \in Slot : tasks[s].bypass_count = 0
    BY DEF Init, EmptyTask
  <2>2. ASSUME NEW k \in 0..N PROVE Cardinality(Over(tasks, k)) <= N - k
    <3>1. CASE k = 0
      BY <3>1, LevelType, NType
    <3>2. CASE k # 0
      <4>1. Over(tasks, k) = {}
        BY <2>1, <3>2, NType DEF Over
      <4> QED BY <4>1, NType, FS_EmptySet
    <3> QED BY <3>1, <3>2
  <2> QED BY <2>1, <2>2, NType DEF Levels
<1>2. SmpInv /\ Levels(tasks) /\ [Next]_schedVars => Levels(tasks)'
  BY LevelsStep
<1>3. Levels(tasks) => BypassBound
  BY DEF Levels, BypassBound, MAX_EQUAL_PRIORITY_BYPASS, N
<1> QED BY <1>1, <1>2, <1>3, SmpInvariant, PTL DEF Spec

-----------------------------------------------------------------------------
(* Dispatches *)

\* A dispatch that goes on to another state is still the only one of its ticket,
\* and counts where it did.
LEMMA LifeBecomes ==
  ASSUME LifeInv, NEW h \in holds, NEW st \in {"exposed", "quiet", "dropped"},
         Becomes(h, st), UNCHANGED <<schedVars, entries, pins, bindings, generations, phase, readers>>,
         \A s \in Slot : Executes(tasks[s]) /\ h.ticket.task = Id(s) => st # "quiet"
  PROVE  LifeInv'
<1> DEFINE g == [h EXCEPT !.state = st]
           H == holds \ {h}
<1>1. holds \subseteq Hold /\ h \in Hold /\ IsFiniteSet(holds)
  BY DEF LifeInv, HoldsOk
<1>2. g \in Hold /\ g.handle = h.handle /\ g.ticket = h.ticket /\ g.state = st
  BY <1>1 DEF Hold
<1>3. holds' = H \cup {g} /\ holds = H \cup {h} /\ h \notin H
  BY DEF Becomes
<1> HIDE DEF g
<1>4. g \notin H
  BY <1>2 DEF LifeInv, HoldsOk
<1>5. IsFiniteSet(H) /\ IsFiniteSet(holds')
  BY <1>1, <1>3, FS_Subset, FS_AddElement
<1>6. tasks' = tasks /\ transaction' = transaction
  BY DEF schedVars
<1> HIDE DEF H
<1>7. HoldsOk'
  <2>1. holds' \subseteq Hold
    BY <1>1, <1>2, <1>3
  <2>2. \A f \in holds' : f.ticket.transaction <= transaction
    BY <1>2, <1>3 DEF LifeInv, HoldsOk
  <2>3. \A f \in H : f.ticket # h.ticket
    BY <1>3 DEF LifeInv, HoldsOk
  <2>4. \A f, k \in H : f.ticket = k.ticket => f = k
    BY <1>3 DEF LifeInv, HoldsOk
  <2>5. \A f, k \in holds' : f.ticket = k.ticket => f = k
    BY <1>2, <1>3, <2>3, <2>4
  <2> QED BY <1>5, <1>6, <2>1, <2>2, <2>5 DEF HoldsOk
<1>8. HeldAlive'
  BY <1>2, <1>3, Zenon DEF LifeInv, HeldAlive, Valid, Pinned
<1>9. PinsExact'
  <2>1. Counts(pins, readers, holds)
    BY PinsCounted, Zenon DEF LifeInv
  <2>2. ASSUME NEW i \in PoolSlot PROVE Cardinality(At(holds', i)) = Cardinality(At(holds, i))
    <3>1. Cardinality(At(holds, i)) = Cardinality(At(H, i)) + One(h.handle.slot, i)
      BY <1>3, <1>5, HoldAdded
    <3>2. Cardinality(At(holds', i)) = Cardinality(At(H, i)) + One(g.handle.slot, i)
      BY <1>3, <1>4, <1>5, HoldAdded
    <3> QED BY <1>2, <3>1, <3>2, Zenon
  <2> QED BY <2>1, <2>2, PinsCounted, Zenon DEF Counts
<1>10. RunsHeld'
  <2> SUFFICES ASSUME NEW s \in Slot, Executes(tasks[s])
               PROVE  \E f \in holds' : /\ f.ticket.task = Id(s) /\ f.state # "quiet"
                                        /\ f.handle = bindings[s].handle
    BY <1>6 DEF RunsHeld, Executes, Id
  <2>1. PICK f \in holds : /\ f.ticket.task = Id(s) /\ f.state # "quiet"
                           /\ f.handle = bindings[s].handle
    BY DEF LifeInv, RunsHeld, Executes
  <2>2. CASE f = h
    BY <1>2, <1>3, <2>1, <2>2
  <2>3. CASE f # h
    BY <1>3, <2>1, <2>3
  <2> QED BY <2>2, <2>3
<1>11. /\ pins' \in [PoolSlot -> Nat] /\ readers' \in [Reader -> Handle \cup {NoHandle}]
       /\ phase' \in {"open", "draining", "dropped"}
  BY DEF LifeInv, PoolTypes
<1> QED BY <1>7, <1>8, <1>9, <1>10, <1>11, HeldStep

\* A CPU leaves a context, or a dispatch is dropped.
LEMMA LifeQuiesce ==
  ASSUME LifeInv, NEW h \in holds, Quiesce(h) \/ DropDispatch(h)
  PROVE  LifeInv'
<1>1. CASE Quiesce(h)
  <2>1. ASSUME NEW s \in Slot, Executes(tasks[s]), h.ticket.task = Id(s) PROVE FALSE
    <3>1. RecordOk(tasks[s], online)
      BY DEF LifeInv, SmpInv, RecordsOk
    <3>2. tasks[s].generation # 0
      BY <2>1, <3>1 DEF RecordOk, Executes
    <3>3. Id(s).slot = s
      BY DEF Id
    <3> QED BY <1>1, <2>1, <3>2, <3>3 DEF Quiesce, Known, Executes
  <2> QED BY <1>1, <2>1, LifeBecomes DEF Quiesce
<1>2. CASE DropDispatch(h)
  BY <1>2, LifeBecomes DEF DropDispatch
<1> QED BY <1>1, <1>2

\* A confirmed dispatch gives up its pin; no task executes under it.
LEMMA LifeConfirm ==
  ASSUME LifeInv, NEW h \in holds, ConfirmQuiescent(h)
  PROVE  LifeInv'
<1> DEFINE j == h.handle.slot
<1>1. /\ h.state = "quiet" /\ holds' = holds \ {h} /\ pins' = [pins EXCEPT ![j] = @ - 1]
      /\ UNCHANGED <<schedVars, entries, bindings, generations, phase, readers>>
  BY DEF ConfirmQuiescent
<1>2. /\ pins \in [PoolSlot -> Nat] /\ readers \in [Reader -> Handle \cup {NoHandle}]
      /\ phase' \in {"open", "draining", "dropped"} /\ IsFiniteSet(holds)
  BY <1>1 DEF LifeInv, PoolTypes, HoldsOk
<1>3. h \in Hold
  BY DEF LifeInv, HoldsOk
<1>4. j \in PoolSlot
  BY <1>3 DEF Hold, Handle
<1> HIDE DEF j
<1>5. IsFiniteSet(holds') /\ h \notin holds' /\ holds = holds' \cup {h}
  BY <1>1, <1>2, FS_Subset
<1>6. tasks' = tasks /\ transaction' = transaction
  BY <1>1 DEF schedVars
<1>7. ASSUME NEW i \in PoolSlot
      PROVE  /\ pins'[i] = Cardinality(By(readers', i)) + Cardinality(At(holds', i))
             /\ pins'[i] \in Nat
  <2>1. Counts(pins, readers, holds)
    BY PinsCounted, Zenon DEF LifeInv
  <2>2. pins'[i] = pins[i] - One(j, i)
    BY <1>1, <1>2, <1>4 DEF One
  <2>3. /\ Cardinality(At(holds', i)) \in Nat
        /\ Cardinality(At(holds, i)) = Cardinality(At(holds', i)) + One(j, i)
    BY <1>5, HoldAdded DEF j
  <2>4. pins[i] = Cardinality(By(readers, i)) + Cardinality(At(holds, i)) /\ pins[i] \in Nat
    BY <1>2, <2>1 DEF Counts
  <2>5. One(j, i) \in Nat
    BY DEF One
  <2>6. Cardinality(By(readers, i)) \in Nat
    <3>1. IsFiniteSet(By(readers, i))
      BY ReaderAssumption, FS_Subset DEF By
    <3> QED BY <3>1, FS_CardinalityType
  <2> QED BY <1>1, <2>2, <2>3, <2>4, <2>5, <2>6
<1>8. PinsExact' /\ pins' \in [PoolSlot -> Nat]
  <2>1. PinsExact'
    BY <1>7, PinsCounted, Zenon DEF Counts
  <2>2. pins' \in [PoolSlot -> Nat]
    BY <1>1, <1>2, <1>7, Zenon
  <2> QED BY <2>1, <2>2
<1>9. HoldsOk' /\ HeldAlive'
  BY <1>1, <1>5, <1>6 DEF LifeInv, HoldsOk, HeldAlive, Valid, Pinned
<1>10. RunsHeld'
  BY <1>1, <1>6 DEF LifeInv, RunsHeld, Id
<1> QED BY <1>1, <1>2, <1>8, <1>9, <1>10, HeldStep

\* The hold of a new dispatch is counted.
LEMMA LifeStage ==
  ASSUME LifeInv, NEW c \in Cpu, Stage(c)
  PROVE  LifeInv'
<1>1. PICK e \in Hold :
        /\ e \notin holds /\ holds' = holds \cup {e} /\ readers' = readers
        /\ pins' = [pins EXCEPT ![e.handle.slot] = @ + 1]
        /\ IsFiniteSet(holds') /\ PinsExact' => LifeInv'
  BY StageAdds
<1>2. pins \in [PoolSlot -> Nat] /\ IsFiniteSet(holds)
  BY DEF LifeInv, PoolTypes, HoldsOk
<1>3. e.handle.slot \in PoolSlot
  BY DEF Hold, Handle
<1>4. IsFiniteSet(holds')
  BY <1>1, <1>2, FS_AddElement
<1>5. PinsExact'
  <2>1. Counts(pins, readers, holds)
    BY PinsCounted, Zenon DEF LifeInv
  <2> SUFFICES ASSUME NEW i \in PoolSlot
               PROVE  pins'[i] = Cardinality(By(readers', i)) + Cardinality(At(holds', i))
    BY PinsCounted, Zenon DEF Counts
  <2>2. pins'[i] = pins[i] + One(e.handle.slot, i)
    BY <1>1, <1>2, <1>3 DEF One
  <2>3. /\ Cardinality(At(holds, i)) \in Nat
        /\ Cardinality(At(holds', i)) = Cardinality(At(holds, i)) + One(e.handle.slot, i)
    BY <1>1, <1>2, HoldAdded
  <2>4. pins[i] = Cardinality(By(readers, i)) + Cardinality(At(holds, i)) /\ pins[i] \in Nat
    BY <1>2, <2>1 DEF Counts
  <2>5. One(e.handle.slot, i) \in Nat
    BY DEF One
  <2>6. Cardinality(By(readers, i)) \in Nat
    <3>1. IsFiniteSet(By(readers, i))
      BY ReaderAssumption, FS_Subset DEF By
    <3> QED BY <3>1, FS_CardinalityType
  <2> QED BY <1>1, <2>2, <2>3, <2>4, <2>5, <2>6
<1> QED BY <1>1, <1>4, <1>5

\* A retired object without pins has no reader and no hold.
LEMMA LifeReclaim ==
  ASSUME LifeInv, NEW s \in Slot, Reclaim(s)
  PROVE  LifeInv'
<1> DEFINE i == bindings[s].handle.slot
<1>1. i \in PoolSlot /\ pins[i] = 0
  BY DEF Reclaim, PoolReclaim, LifeInv, PoolTypes, Bound, Handle
<1> HIDE DEF i
<1>2. /\ \A r \in Reader : readers[r] # NoHandle => readers[r].slot # i
      /\ \A g \in holds : g.handle.slot # i
  BY <1>1, Unpinned
<1> QED BY <1>2, ReclaimStep DEF i

-----------------------------------------------------------------------------
(* The invariant of the lifetimes, and what follows from it *)

\* The storage starts empty.
LEMMA LifeInitial == LifeInit => LifeInv
<1> SUFFICES ASSUME LifeInit PROVE LifeInv
  OBVIOUS
<1>1. /\ entries = [i \in PoolSlot |-> EMPTY] /\ pins = [i \in PoolSlot |-> 0]
      /\ bindings = [s \in Slot |-> NoBinding] /\ generations = [s \in Slot |-> 0]
      /\ phase = "open" /\ readers = [r \in Reader |-> NoHandle] /\ holds = {}
  BY DEF LifeInit
<1>2. SmpInv /\ tasks = [s \in Slot |-> EmptyTask] /\ pending = NoTicket /\ transaction = 0
  BY SmpInit DEF LifeInit, Init
<1>3. PoolTypes
  BY <1>1 DEF PoolTypes, EMPTY
<1>4. HoldsOk /\ TicketKinds
  BY <1>1, <1>2, FS_EmptySet DEF HoldsOk, TicketKinds
<1>5. PinsExact
  <2>1. \A i : By(readers, i) = {} /\ At(holds, i) = {}
    BY <1>1 DEF By, At
  <2>a. Cardinality({}) = 0
    BY FS_EmptySet
  <2>2. Counts(pins, readers, holds)
    BY <1>1, <2>1, <2>a DEF Counts
  <2> QED BY <2>2, PinsCounted
<1>6. HeldAlive
  BY <1>1 DEF HeldAlive, Pinned
<1>7. \A s \in Slot : tasks[s].state = "Dormant" /\ tasks[s].generation = 0
  BY <1>2 DEF EmptyTask
<1>8. RunsHeld
  BY <1>7 DEF RunsHeld
<1>9. \A s \in Slot : BindingOk(s)
  BY <1>1, <1>7 DEF BindingOk, Bound, Live
<1>10. OwnersOk
  BY <1>1 DEF OwnersOk, Bound, EMPTY
<1> QED BY <1>2, <1>3, <1>4, <1>5, <1>6, <1>8, <1>9, <1>10 DEF LifeInv

\* Every step of the controller, of a CPU, of a reader and of a dispatch keeps
\* the invariant.
LEMMA LifeInductive == LifeInv /\ [LifeNext]_vars => LifeInv'
<1> SUFFICES ASSUME LifeInv, [LifeNext]_vars PROVE LifeInv'
  OBVIOUS
<1>1. ASSUME NEW s \in Slot, LifeTaskOp(s) PROVE LifeInv'
  BY <1>1, LifeCreate, LifeActivate, LifeBlock, LifeCancel, LifeCancelDormant, LifeProbe,
     LifeReclaim DEF LifeTaskOp
<1>2. ASSUME NEW c \in Cpu, Stage(c) \/ Complete(c) PROVE LifeInv'
  BY <1>2, LifeStage, LifeComplete
<1>3. ASSUME NEW r \in Reader, ReaderOp(r) PROVE LifeInv'
  BY <1>3, LifePin, LifeDrop DEF ReaderOp
<1>4. ASSUME NEW h \in holds, HoldOp(h) PROVE LifeInv'
  BY <1>4, LifeQuiesce, LifeConfirm DEF HoldOp
<1>5. CASE RunLocal
  BY <1>5, LifeRunLocal
<1>6. CASE Settle
  BY <1>6, LifeSettle
<1>7. CASE BeginShutdown \/ DropController
  BY <1>7, LifePhase
<1>8. CASE Answer /\ UNCHANGED lifeVars
  BY <1>8, LifeAnswer
<1>9. CASE UNCHANGED vars
  <2>1. UNCHANGED <<tasks, queues, current, online, pending, transaction, answered>>
    BY <1>9 DEF vars, schedVars
  <2>2. UNCHANGED lifeVars
    BY <1>9 DEF vars
  <2>3. SmpInv' /\ TicketKinds' /\ (\A s \in Slot : Keeps(s)) /\ transaction' >= transaction
    BY <2>1 DEF LifeInv, SmpInv, TypeOK, RecordsOk, PendingOk, TicketKinds, Keeps
  <2> QED BY <2>2, <2>3, QuietStep
<1> QED BY <1>1, <1>2, <1>3, <1>4, <1>5, <1>6, <1>7, <1>8, <1>9 DEF LifeNext

\* The inductive invariant holds in every state of every run.
LEMMA LifeAlways == LifeSpec => []LifeInv
<1>1. LifeInit => LifeInv
  BY LifeInitial
<1>2. LifeInv /\ [LifeNext]_vars => LifeInv'
  BY LifeInductive
<1> QED BY <1>1, <1>2, PTL DEF LifeSpec

\* The composed controller keeps the invariant of the scheduler it drives;
\* cancelling a task that was never activated is a step that the scheduler alone
\* has not.
THEOREM LifeScheduler == LifeSpec => []SmpInv
<1>1. LifeInv => SmpInv
  BY DEF LifeInv
<1> QED BY <1>1, LifeAlways, PTL

\* validate() never fails under the lifetime layer either: cancelling a task that
\* was never activated and running one locally leave every task where it says.
THEOREM LifePlacement == LifeSpec => []PlacementOk
BY LifeScheduler, InvPlaces, PTL

\* No operation of the lifetime layer, shutdown included, takes from a staged
\* dispatch what its commit needs.
THEOREM LifeCommitReady == LifeSpec => []CommitReady
BY LifeScheduler, InvCommits, PTL

\* The lifetime layer moves the scheduler only by the scheduler's operations and
\* by cancel_dormant.
THEOREM LifeSchedules == LifeSpec => [][Next \/ \E s \in Slot : CancelDormant(s)]_schedVars
BY LifeAlways, LifeMoves, PTL DEF LifeSpec

\* The owner epochs fence owners under the lifetime layer too: a cancelled
\* dormant task goes through its first epoch without an owner to show for it.
THEOREM LifeFences == LifeSpec => EpochFences
<1> DEFINE A == \A s \in Slot :
                  tasks'[s].generation = tasks[s].generation =>
                    /\ tasks'[s].owner_epoch >= tasks[s].owner_epoch
                    /\ {tasks[s].owner_cpu, tasks'[s].owner_cpu} \subseteq Cpu
                       /\ tasks'[s].owner_cpu # tasks[s].owner_cpu
                         => tasks'[s].owner_epoch > tasks[s].owner_epoch
<1>1. LifeInv /\ [Next]_schedVars => A
  <2>1. LifeInv /\ [Next]_schedVars => Fenced
    BY SmpStep DEF LifeInv
  <2> QED BY <2>1 DEF Fenced, Fence
<1>2. ASSUME LifeInv, NEW x \in Slot, CancelDormant(x) PROVE A
  <2>1. tasks \in [Slot -> TaskRecord] /\ RecordOk(tasks[x], online)
    BY <1>2 DEF LifeInv, SmpInv, TypeOK, RecordsOk
  <2>2. tasks' = [tasks EXCEPT ![x] = [Dead(tasks[x]) EXCEPT !.owner_epoch = 1]]
    BY <1>2 DEF CancelDormant
  <2>3. /\ tasks'[x].owner_epoch = 1 /\ tasks'[x].owner_cpu = NoCpu
        /\ tasks[x].owner_epoch \in Nat /\ tasks[x].owner_epoch <= 1
    BY <1>2, <2>1, <2>2 DEF CancelDormant, Dead, TaskRecord, RecordOk
  <2>4. \A s \in Slot : tasks[s].owner_epoch \in Nat
    BY <2>1 DEF TaskRecord
  <2>5. \A s \in Slot : s # x => tasks'[s] = tasks[s]
    BY <2>1, <2>2
  <2> QED BY <2>3, <2>4, <2>5, CpuAssumption
<1>3. LifeInv /\ [Next \/ \E s \in Slot : CancelDormant(s)]_schedVars => [A]_schedVars
  BY <1>1, <1>2
<1> QED BY <1>3, LifeAlways, LifeSchedules, PTL DEF EpochFences

\* The fields of the pool and of the controller keep their types; a pin count
\* never goes below zero.
THEOREM LifeTypes == LifeSpec => []LifeTypeOK
<1>1. LifeInv => LifeTypeOK
  BY DEF LifeInv, LifeTypeOK, SmpInv, PoolTypes, HoldsOk, Hold
<1> QED BY <1>1, LifeAlways, PTL

\* The pin counts are exact, with any number of readers and dispatches.
THEOREM LifePins == LifeSpec => []PinsExact
<1>1. LifeInv => PinsExact
  BY DEF LifeInv
<1> QED BY <1>1, LifeAlways, PTL

\* No reader and no dispatch outlives the object it has pinned.
THEOREM LifeHeld == LifeSpec => []HeldAlive
<1>1. LifeInv => HeldAlive
  BY DEF LifeInv
<1> QED BY <1>1, LifeAlways, PTL

\* Every task that executes, or is about to, has an execution hold on its own
\* object.
THEOREM LifeRuns == LifeSpec => []RunsHeld
<1>1. LifeInv => RunsHeld
  BY DEF LifeInv
<1> QED BY <1>1, LifeAlways, PTL

\* Task slots, bindings and pool slots agree.
THEOREM LifeBindings == LifeSpec => []BindingsOk
<1>1. LifeInv => BindingsOk
  <2> SUFFICES ASSUME LifeInv PROVE BindingsOk
    OBVIOUS
  <2>1. ASSUME NEW i \in PoolSlot, entries[i].phase # "Free"
        PROVE  Cardinality({s \in Slot : Bound(s) /\ bindings[s].handle.slot = i}) = 1
    <3>1. PICK x \in Slot : Bound(x) /\ bindings[x].handle.slot = i
      BY <2>1 DEF LifeInv, OwnersOk
    <3>2. {s \in Slot : Bound(s) /\ bindings[s].handle.slot = i} = {x}
      BY <3>1 DEF LifeInv, OwnersOk
    <3>3. Cardinality({x}) = 1
      BY FS_Singleton
    <3> QED BY <3>2, <3>3, Zenon
  <2>2. \A s \in Slot : BindingOk(s)
    BY DEF LifeInv
  <2> QED BY <2>1, <2>2, Zenon DEF BindingsOk, BindingOk
<1> QED BY <1>1, LifeAlways, PTL
=============================================================================
