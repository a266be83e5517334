-------------------------- MODULE SchedulerProofs --------------------------
(* Proofs about Scheduler, for every number of slots and CPUs. *)
EXTENDS SchedulerSteps

\* A leaf is tried with SMT, then with Zenon, then with SMT for longer.
USE SMT, Zenon, SMTT(40)

-----------------------------------------------------------------------------
(* Minima, maxima and sequences *)

\* What the operations need of sets of numbers and of positions. Both are proved
\* further down, after the library's theorems on finite sets are brought in: a
\* proof is the slower the more theorems are in scope.
Minima == \A S \in SUBSET Nat : S # {} => Min(S) \in S /\ \A y \in S : Min(S) <= y
Picking ==
  /\ \A S : \A ws \in Seq(S) : \A I \in SUBSET DOMAIN ws : Pick(ws, I) \in Seq(S)
  /\ \A ws \in Seq(TaskId) : \A I \in SUBSET (1..Len(ws)) :
       Once(ws) => Lists(Pick(ws, I), {ws[i] : i \in I})

\* A non-empty set of naturals has the minimum Min chooses.
LEMMA MinExists ==
  ASSUME Minima, NEW S \in SUBSET Nat, S # {}
  PROVE  Min(S) \in S /\ \A y \in S : Min(S) <= y
BY Zenon DEF Minima

\* The entries of a sequence at a set of positions form such a sequence.
LEMMA PickType ==
  ASSUME Picking, NEW S, NEW ws \in Seq(S), NEW I \in SUBSET DOMAIN ws
  PROVE  Pick(ws, I) \in Seq(S)
BY Zenon DEF Picking

\* Pick keeps the entries at the positions it is given, each once.
LEMMA PickLists ==
  ASSUME Picking, NEW ws \in Seq(TaskId), Once(ws), NEW I \in SUBSET (1..Len(ws))
  PROVE  Lists(Pick(ws, I), {ws[i] : i \in I})
BY Zenon DEF Picking

\* A non-empty bounded set of naturals has the maximum Max chooses.
LEMMA MaxExists ==
  ASSUME Minima, NEW S \in SUBSET Nat, S # {}, NEW b \in Nat, \A x \in S : x <= b
  PROVE  Max(S) \in S /\ \A y \in S : y <= Max(S)
<1> DEFINE D == {b - x : x \in S}
<1>1. D \in SUBSET Nat
  OBVIOUS
<1>2. D # {}
  BY ZenonT(40)
<1>3. Min(D) \in D /\ \A y \in D : Min(D) <= y
  BY <1>1, <1>2, MinExists, ZenonT(40)
<1>4. PICK x \in S : Min(D) = b - x
  BY <1>3, ZenonT(40)
<1>5. \A y \in S : x >= y
  <2> TAKE y \in S
  <2>1. b - x <= b - y
    BY <1>3, <1>4, ZenonT(40)
  <2> HIDE DEF D
  <2>2. x \in Nat /\ y \in Nat
    OBVIOUS
  <2> QED BY <2>1, <2>2
<1> QED BY <1>5, ZenonT(40) DEF Max

\* Removing a queue entry leaves a queue of the same kind of entry.
LEMMA RemoveAtType ==
  ASSUME NEW S, NEW s \in Seq(S), NEW i \in 1..Len(s)
  PROVE  RemoveAt(s, i) \in Seq(S)
<1>1. SubSeq(s, 1, i - 1) \in Seq(S) /\ SubSeq(s, i + 1, Len(s)) \in Seq(S)
  OBVIOUS
<1> QED BY <1>1 DEF RemoveAt

\* So does removing the first entry of an id, present or not.
LEMMA RemoveType ==
  ASSUME Minima, NEW S, NEW s \in Seq(S), NEW e
  PROVE  Remove(s, e) \in Seq(S)
<1> DEFINE I == {i \in 1..Len(s) : s[i] = e}
<1>1. CASE I = {}
  BY <1>1 DEF Remove
<1>2. CASE I # {}
  <2>1. I \in SUBSET Nat
    OBVIOUS
  <2>2. Min(I) \in I
    BY <1>2, <2>1, MinExists, Zenon
  <2>3. Remove(s, e) = RemoveAt(s, Min(I))
    BY <1>2 DEF Remove
  <2> QED BY <2>2, <2>3, RemoveAtType
<1> QED BY <1>1, <1>2

-----------------------------------------------------------------------------
(* Types *)

\* The maximum of a set of priorities is a priority.
LEMMA MaxInRange ==
  ASSUME Minima, NEW p \in 1..31, NEW q \in 0..31, NEW I \in SUBSET (0..31)
  PROVE  Max({p, q} \cup I) \in 1..31
<1> DEFINE A == {p, q} \cup I
<1>1. A \in SUBSET (0..31) /\ p \in A
  OBVIOUS
<1> HIDE DEF A
<1>2. A \in SUBSET Nat /\ \A x \in A : x <= 31
  BY <1>1
<1>3. Max(A) \in A /\ p <= Max(A)
  BY <1>1, <1>2, MaxExists
<1>4. \A m \in A : p <= m => m \in 1..31
  BY <1>1
<1>5. Max(A) \in 1..31
  BY <1>3, <1>4
<1> QED BY <1>5 DEF A

\* recompute_effective_priorities changes effective priorities only, and keeps
\* them within the priority range.
LEMMA RecomputeType ==
  ASSUME Minima, NEW ts \in [Slot -> TaskType], NEW o \in TaskId \cup {NoTask},
         NEW ws \in Seq(TaskId), NEW d \in [Slot -> 0..MAX_PRIORITY]
  PROVE  /\ Recompute(ts, o, ws, d) \in [Slot -> TaskType]
         /\ \A s \in Slot : Recompute(ts, o, ws, d)[s].bypass_count = ts[s].bypass_count
         /\ \A s \in Slot : Recompute(ts, o, ws, d)[s].affinity = ts[s].affinity
<1> DEFINE Inherited(s) == IF o # NoTask /\ o.slot = s
                           THEN {ts[ws[i].slot].base_priority : i \in DOMAIN ws} ELSE {}
           All(s) == {ts[s].base_priority, d[s]} \cup Inherited(s)
           New(s) == [ts[s] EXCEPT !.effective_priority = Max(All(s))]
<1>1. ASSUME NEW s \in Slot PROVE Max(All(s)) \in MIN_PRIORITY..MAX_PRIORITY
  <2>1. ts[s].base_priority \in 1..31 /\ d[s] \in 0..31
    BY DEF TaskType, MIN_PRIORITY, MAX_PRIORITY
  <2>2. Inherited(s) \in SUBSET (0..31)
    <3>1. ASSUME NEW i \in DOMAIN ws PROVE ts[ws[i].slot].base_priority \in 0..31
      <4>1. ws[i] \in TaskId
        OBVIOUS
      <4> QED BY <4>1 DEF TaskId, TaskType, MIN_PRIORITY, MAX_PRIORITY
    <3> QED BY <3>1, ZenonT(40)
  <2> HIDE DEF Inherited
  <2> QED BY <2>1, <2>2, MaxInRange, ZenonT(40) DEF MIN_PRIORITY, MAX_PRIORITY
<1> HIDE DEF All
<1>2. ASSUME NEW s \in Slot
      PROVE  /\ New(s) \in TaskType
             /\ New(s).bypass_count = ts[s].bypass_count /\ New(s).affinity = ts[s].affinity
  BY <1>1, ZenonT(40) DEF TaskType
<1> HIDE DEF New
<1>3. Recompute(ts, o, ws, d) =
        [s \in Slot |-> IF ts[s].generation = 0 THEN ts[s] ELSE New(s)]
  BY DEF Recompute, New, All
<1> QED BY <1>2, <1>3

\* The records a wake, a wait and a teardown leave are tasks.
LEMMA WokenRecord ==
  ASSUME NEW t \in TaskType, NEW c \in Cpu, NEW r \in EventReason \cup LockReason
  PROVE  /\ Woken(t, c, r) \in TaskType
         /\ Woken(t, c, r).bypass_count = t.bypass_count /\ Woken(t, c, r).affinity = t.affinity
BY ZenonT(40) DEF Woken, TaskType

\* A blocked task has its bypass count cleared and keeps its affinity.
LEMMA WaitingRecord ==
  ASSUME NEW t \in TaskType, NEW c \in Cpu, NEW k \in {"Event", "ExternalLock", "Mutex"}
  PROVE  /\ Waiting(t, c, k) \in TaskType
         /\ Waiting(t, c, k).bypass_count = 0 /\ Waiting(t, c, k).affinity = t.affinity
BY ZenonT(40) DEF Waiting, TaskType

\* A dead task has its bypass count cleared and keeps its affinity.
LEMMA DeadTaskRecord ==
  ASSUME NEW t \in TaskType
  PROVE  /\ DeadTask(t) \in TaskType
         /\ DeadTask(t).bypass_count = 0 /\ DeadTask(t).affinity = t.affinity
BY ZenonT(40) DEF DeadTask, TaskType

\* The CPU chosen for a task is one its affinity allows.
LEMMA AllowedCpu ==
  ASSUME Minima, NEW a \in SUBSET Cpu, a # {}
  PROVE  SelectAllowedCpu(a) \in a
<1>1. a \in SUBSET Nat
  BY CpuAssumption
<1>2. \E c \in a : \A d \in a : c <= d
  BY <1>1, MinExists, ZenonT(40)
<1> QED BY <1>2 DEF SelectAllowedCpu

\* unlock_mutex with waiters: the waiter it picks becomes the owner and runnable.
LEMMA HandoffInv ==
  ASSUME Minima, SchedulerInv, TypeOK', NEW c \in Cpu, UnlockMutexHandoff(c)
  PROVE  SchedulerInv' /\ Progress
<1>1. PICK i \in DOMAIN mutex_waiters :
        LET w == mutex_waiters[i]
            target == SelectAllowedCpu(tasks[w.slot].affinity)
        IN  /\ mutex_owner' = w
            /\ mutex_waiters' = RemoveAt(mutex_waiters, i)
            /\ tasks' = Recompute([tasks EXCEPT ![w.slot] = Woken(@, target, "LockGranted")],
                                  w, mutex_waiters', donation)
            /\ queues' = [queues EXCEPT ![target] = Append(@, w)]
  BY Zenon DEF UnlockMutexHandoff
<1> DEFINE e == mutex_waiters[i]
           s == e.slot
           target == SelectAllowedCpu(tasks[s].affinity)
           ts == [tasks EXCEPT ![s] = Woken(tasks[s], target, "LockGranted")]
           ws == RemoveAt(mutex_waiters, i)
<1>2. UNCHANGED <<current, donation>>
  BY DEF UnlockMutexHandoff
<1>3. /\ e \in TaskId /\ s \in Slot /\ e = IdOf(tasks, s) /\ tasks[s].wait_kind = "Mutex"
      /\ e \in BlockedOnMutex(tasks)
  BY WaiterTask, Zenon
<1>4. /\ tasks \in [Slot -> TaskType] /\ tasks[s] \in TaskType /\ mutex_waiters \in Seq(TaskId)
      /\ queues \in [Cpu -> Seq(TaskId)] /\ TypeOK
  BY <1>3, Types DEF SchedulerInv
<1>5. RecordOk(tasks[s], donation[s])
  BY <1>3 DEF SchedulerInv, RecordsOk
<1>6. /\ tasks[s].state = "Blocked" /\ tasks[s].affinity # {} /\ tasks[s].wake_reason = "None"
  BY <1>3, <1>5 DEF RecordOk
<1>7. target \in tasks[s].affinity /\ target \in Cpu
  <2>1. tasks[s].affinity \in SUBSET Cpu
    BY <1>4, Zenon DEF TaskType
  <2> QED BY <1>6, <2>1, AllowedCpu, Zenon
<1>8. /\ ts = [tasks EXCEPT ![s] = Woken(@, target, "LockGranted")]
  BY <1>3, <1>4, Zenon
<1>9. /\ ts[s] = Woken(tasks[s], target, "LockGranted")
      /\ \A r \in Slot : r # s => ts[r] = tasks[r]
  BY <1>3, <1>4
<1>10. ts \in [Slot -> TaskType]
  <2>1. Woken(tasks[s], target, "LockGranted") \in TaskType
    <3>1. "LockGranted" \in EventReason \cup LockReason
      BY DEF LockReason
    <3> QED BY <1>4, <1>7, <3>1, WokenRecord, Zenon
  <2> QED BY <1>3, <1>4, <2>1, Zenon
<1>11. /\ tasks' = Recompute(ts, e, ws, donation) /\ mutex_owner' = e /\ mutex_waiters' = ws
       /\ queues' = [queues EXCEPT ![target] = Append(queues[target], e)]
  <2>1. queues' = [queues EXCEPT ![target] = Append(@, e)]
    BY <1>1, Zenon
  <2> QED BY <1>1, <1>4, <1>7, <1>8, <2>1, Zenon
<1> HIDE DEF ts, target, s
<1>12. /\ ts[s].state = "Runnable" /\ ts[s].wait_kind = "None" /\ ts[s].queued_cpu = target
       /\ ts[s].assigned_cpu = target /\ ts[s].generation = tasks[s].generation
       /\ ts[s].affinity = tasks[s].affinity
  BY <1>4, <1>9, WokenFields
<1>13. i \in 1..Len(mutex_waiters) /\ Lists(mutex_waiters, BlockedOnMutex(tasks))
  BY <1>4 DEF SchedulerInv
<1> HIDE DEF ws
<1>14. ws \in Seq(TaskId) /\ Lists(ws, BlockedOnMutex(tasks) \ {e})
  <2>1. ws \in Seq(TaskId)
    BY <1>4, <1>13, RemoveAtOut, Zenon DEF ws, Lists
  <2>2. Lists(ws, BlockedOnMutex(tasks) \ {e})
    BY <1>4, <1>13, ListsLoseAt, Zenon DEF ws
  <2> QED BY <2>1, <2>2
<1> HIDE DEF e
<1>15. /\ AlikeBut(tasks, tasks', s)
       /\ \A r \in Slot : r # s => tasks'[r].bypass_count = tasks[r].bypass_count
       /\ Alike(ts[s], tasks'[s])
       /\ Exact(tasks', e, ws, donation)
  BY <1>3, <1>4, <1>9, <1>10, <1>11, <1>14, RecomputedMove, Zenon
<1>16. /\ tasks'[s].state = "Runnable" /\ tasks'[s].wait_kind = "None"
       /\ tasks'[s].generation = tasks[s].generation /\ tasks'[s].queued_cpu = target
       /\ tasks'[s].assigned_cpu = target /\ tasks'[s].affinity = tasks[s].affinity
  BY <1>12, <1>15 DEF Alike
<1>17. RecordOk(tasks'[s], donation'[s]) /\ Reasoned(tasks[s], tasks'[s])
  BY <1>2, <1>5, <1>6, <1>7, <1>16 DEF RecordOk, Reasoned
<1>18. QueuesOk(tasks', queues')
  <2>1. queues' = [queues EXCEPT ![target] = Append(queues[target], IdOf(tasks, s))]
    BY <1>3, <1>11, Zenon
  <2>2. tasks[s].state # "Runnable"
    BY <1>6
  <2> QED BY <1>3, <1>7, <1>15, <1>16, <2>1, <2>2, Enqueued, Zenon
<1>19. CpusOk(tasks', current')
  <2>1. tasks[s].state # "Running" /\ tasks'[s].state # "Running"
    BY <1>6, <1>16
  <2> QED BY <1>2, <1>3, <1>4, <1>15, <1>16, <2>1, CpusKept, Zenon DEF SchedulerInv
<1>20. Lists(mutex_waiters', BlockedOnMutex(tasks'))
  <2>1. /\ tasks \in [Slot -> TaskType] /\ s \in Slot /\ AlikeBut(tasks, tasks', s)
        /\ tasks'[s].generation = tasks[s].generation /\ tasks'[s].wait_kind # "Mutex"
        /\ e = IdOf(tasks, s)
    BY <1>3, <1>4, <1>15, <1>16
  <2>2. BlockedOnMutex(tasks') = BlockedOnMutex(tasks) \ {e}
    BY <2>1, WaitingMoves
  <2> QED BY <1>11, <1>14, <2>2, Zenon
<1>21. OwnerOk(tasks', mutex_owner', mutex_waiters')
  <2>1. e # NoTask /\ e.slot = s /\ e = IdOf(tasks', s)
    BY <1>3, <1>16, NoTaskAssumption DEF IdOf
  <2> QED BY <1>11, <1>16, <2>1 DEF OwnerOk
<1>22. Exact(tasks', mutex_owner', mutex_waiters', donation')
  BY <1>2, <1>11, <1>15, Zenon
<1>23. \A r \in Slot : r # s => /\ tasks'[r].bypass_count = tasks[r].bypass_count
                                /\ donation'[r] = donation[r]
  BY <1>2, <1>15, Zenon
<1> QED BY <1>3, <1>15, <1>17, <1>18, <1>19, <1>20, <1>21, <1>22, <1>23, Moved, Zenon

\* One list followed by another that has nothing in common with it.
LEMMA ListsJoin ==
  ASSUME NEW a \in Seq(TaskId), NEW b \in Seq(TaskId), NEW S, NEW T,
         Lists(a, S), Lists(b, T), S \cap T = {}
  PROVE  Lists(a \o b, S \cup T)
<1> DEFINE q == a \o b
           m == Len(a)
           n == Len(b)
<1>1. /\ m \in Nat /\ n \in Nat /\ Len(q) = m + n
      /\ \A k \in 1..m : q[k] = a[k]
      /\ \A k \in 1..n : q[m + k] = b[k]
  OBVIOUS
<1> HIDE DEF q, m, n
<1>2. \A k \in 1..(m + n) : k \in 1..m \/ \E j \in 1..n : k = m + j
  <2> TAKE k \in 1..(m + n)
  <2>1. CASE k <= m
    BY <1>1, <2>1
  <2>2. CASE k > m
    <3>1. k - m \in 1..n /\ k = m + (k - m)
      BY <1>1, <2>2
    <3> QED BY <3>1
  <2> QED BY <1>1, <2>1, <2>2
<1>3. \A k \in 1..m : k \in 1..(m + n)
  BY <1>1
<1>4. \A k \in 1..n : m + k \in 1..(m + n)
  BY <1>1
<1>5. /\ \A x : x \in S <=> \E k \in 1..m : a[k] = x
      /\ \A x : x \in T <=> \E k \in 1..n : b[k] = x
      /\ \A k, l \in 1..m : a[k] = a[l] => k = l
      /\ \A k, l \in 1..n : b[k] = b[l] => k = l
  BY Zenon DEF Lists, In, Once, m, n
<1>6. ASSUME NEW x PROVE (\E k \in 1..(m + n) : q[k] = x) <=> x \in S \cup T
  <2>1. ASSUME NEW k \in 1..(m + n), q[k] = x PROVE x \in S \cup T
    <3>1. CASE k \in 1..m
      BY <1>1, <1>5, <2>1, <3>1, Zenon
    <3>2. CASE \E j \in 1..n : k = m + j
      <4>1. PICK j \in 1..n : k = m + j
        BY <3>2
      <4>2. q[k] = b[j]
        BY <1>1, <4>1
      <4>3. b[j] \in T
        BY <1>5, Zenon
      <4> QED BY <2>1, <4>2, <4>3
    <3> QED BY <1>2, <3>1, <3>2, Zenon
  <2>2. ASSUME x \in S PROVE \E k \in 1..(m + n) : q[k] = x
    BY <1>1, <1>3, <1>5, <2>2, Zenon
  <2>3. ASSUME x \in T PROVE \E k \in 1..(m + n) : q[k] = x
    <3>1. PICK j \in 1..n : b[j] = x
      BY <1>5, <2>3, Zenon
    <3>2. q[m + j] = x
      BY <1>1, <3>1
    <3> QED BY <1>4, <3>2
  <2> QED BY <2>1, <2>2, <2>3, Zenon
<1>7. ASSUME NEW k \in 1..(m + n), NEW l \in 1..(m + n), q[k] = q[l] PROVE k = l
  <2>1. CASE k \in 1..m /\ l \in 1..m
    BY <1>1, <1>5, <1>7, <2>1, Zenon
  <2>2. CASE k \in 1..m /\ \E j \in 1..n : l = m + j
    <3>1. PICK j \in 1..n : l = m + j
      BY <2>2
    <3>2. a[k] \in S /\ b[j] \in T
      BY <1>5, <2>2, Zenon
    <3>3. a[k] = b[j]
      BY <1>1, <1>7, <2>2, <3>1, Zenon
    <3> QED BY <3>2, <3>3
  <2>3. CASE l \in 1..m /\ \E j \in 1..n : k = m + j
    <3>1. PICK j \in 1..n : k = m + j
      BY <2>3
    <3>2. a[l] \in S /\ b[j] \in T
      BY <1>5, <2>3, Zenon
    <3>3. a[l] = b[j]
      BY <1>1, <1>7, <2>3, <3>1
    <3> QED BY <3>2, <3>3
  <2>4. CASE (\E j \in 1..n : k = m + j) /\ (\E j \in 1..n : l = m + j)
    <3>1. PICK i \in 1..n, j \in 1..n : k = m + i /\ l = m + j
      BY <2>4
    <3>2. b[i] = b[j]
      BY <1>1, <1>7, <3>1
    <3>3. i = j
      BY <1>5, <3>2, Zenon
    <3> QED BY <3>1, <3>3
  <2> QED BY <1>2, <2>1, <2>2, <2>3, <2>4, Zenon
<1>8. Lists(q, S \cup T)
  BY <1>1, <1>6, <1>7, Zenon DEF Lists, In, Once
<1> QED BY <1>8 DEF q

\* The record a teardown leaves.
LEMMA DeadFields ==
  ASSUME NEW t \in TaskType, NEW u, u = DeadTask(t)
  PROVE  /\ u.generation = t.generation /\ u.affinity = t.affinity /\ u.bypass_count = 0
         /\ u.state = "Dead" /\ u.wait_kind = "None" /\ u.wake_reason = "None"
         /\ u.assigned_cpu = NoCpu /\ u.queued_cpu = NoCpu
BY DEF DeadTask, TaskType

\* teardown: the task leaves every list, and if it owned the mutex each waiter
\* joins the queue of a CPU its affinity allows.
LEMMA TeardownInv ==
  ASSUME Minima, Picking, SchedulerInv, TypeOK', NEW s \in Slot, Teardown(s)
  PROVE  SchedulerInv' /\ Progress
<1> DEFINE t == tasks[s]
           e == IdOf(tasks, s)
           ws == IF t.state = "Blocked" /\ t.wait_kind = "Mutex"
                 THEN Remove(mutex_waiters, e) ELSE mutex_waiters
           owned == mutex_owner = e
           released == IF owned THEN ws ELSE <<>>
           Target(w) == SelectAllowedCpu(tasks[w.slot].affinity)
           I(c) == {i \in DOMAIN released : Target(released[i]) = c}
           To(c) == Pick(released, I(c))
           Left(c) == IF t.state = "Runnable" /\ t.queued_cpu = c
                      THEN Remove(queues[c], e) ELSE queues[c]
           woken == {released[i].slot : i \in DOMAIN released}
           ts == [r \in Slot |->
                    IF r = s THEN DeadTask(tasks[r])
                    ELSE IF r \in woken
                    THEN Woken(tasks[r], SelectAllowedCpu(tasks[r].affinity), "OwnerGone")
                    ELSE tasks[r]]
<1>1. /\ t.generation # 0 /\ t.state \in {"Runnable", "Running", "Blocked"}
      /\ t.state = "Running" => current[t.assigned_cpu] = e
  BY Zenon DEF Teardown, Known, Id, IdOf
<1>2. /\ queues' = [c \in Cpu |-> Left(c) \o To(c)]
      /\ current' = [c \in Cpu |-> IF t.state = "Running" /\ t.assigned_cpu = c
                                   THEN NoTask ELSE current[c]]
      /\ mutex_owner' = IF owned THEN NoTask ELSE mutex_owner
      /\ mutex_waiters' = IF owned THEN <<>> ELSE ws
      /\ donation' = [donation EXCEPT ![s] = 0]
      /\ tasks' = Recompute(ts, mutex_owner', mutex_waiters', donation')
  BY Zenon DEF Teardown, Id, IdOf
<1>3. /\ tasks \in [Slot -> TaskType] /\ queues \in [Cpu -> Seq(TaskId)]
      /\ current \in [Cpu -> TaskId \cup {NoTask}] /\ mutex_owner \in TaskId \cup {NoTask}
      /\ mutex_waiters \in Seq(TaskId) /\ donation \in [Slot -> 0..MAX_PRIORITY]
  BY Types DEF SchedulerInv
<1>4. \A r \in Slot : tasks[r] \in TaskType /\ RecordOk(tasks[r], donation[r])
  BY <1>3 DEF SchedulerInv, RecordsOk
<1>5. e \in TaskId /\ e.slot = s /\ e.generation = tasks[s].generation /\ e # NoTask
  BY <1>3, IdFacts, NoTaskAssumption DEF IdOf
<1>6. Lists(mutex_waiters, BlockedOnMutex(tasks)) /\ OwnerOk(tasks, mutex_owner, mutex_waiters)
  BY DEF SchedulerInv
<1>7. \A id \in TaskId : id.slot = s /\ id.generation = tasks[s].generation => id = e
  BY DEF TaskId, IdOf
<1>8. e \in BlockedOnMutex(tasks) <=> t.wait_kind = "Mutex"
  BY <1>5 DEF BlockedOnMutex
<1>9. t.wait_kind = "Mutex" <=> t.state = "Blocked" /\ t.wait_kind = "Mutex"
  BY <1>4 DEF RecordOk
<1>10. owned => t.wait_kind # "Mutex" /\ mutex_owner # NoTask
  BY <1>5, <1>6 DEF OwnerOk
<1>11. ws \in Seq(TaskId) /\ Lists(ws, BlockedOnMutex(tasks) \ {e})
  <2>1. CASE t.wait_kind = "Mutex"
    <3>1. ws = Remove(mutex_waiters, e)
      BY <1>9, <2>1
    <3>2. e \in BlockedOnMutex(tasks)
      BY <1>8, <2>1
    <3> HIDE DEF e, ws
    <3>3. Lists(ws, BlockedOnMutex(tasks) \ {e})
      BY <1>3, <1>6, <3>1, <3>2, ListsLose
    <3>4. ws \in Seq(TaskId)
      BY <1>3, <3>1, RemoveType
    <3> QED BY <3>3, <3>4
  <2>2. CASE t.wait_kind # "Mutex"
    <3>1. ws = mutex_waiters /\ e \notin BlockedOnMutex(tasks)
      BY <1>8, <2>2
    <3>2. BlockedOnMutex(tasks) \ {e} = BlockedOnMutex(tasks)
      BY <3>1
    <3> HIDE DEF e, ws
    <3> QED BY <1>3, <1>6, <3>1, <3>2, Zenon
  <2> QED BY <2>1, <2>2
<1>12. owned => ws = mutex_waiters /\ released = mutex_waiters
  BY <1>10
<1>13. ~owned => released = <<>>
  OBVIOUS
<1>14. released \in Seq(TaskId)
  BY <1>3, <1>12, <1>13
<1> HIDE DEF ws, released
<1> DEFINE R == IF owned THEN BlockedOnMutex(tasks) ELSE {}
<1>15. Lists(released, R)
  <2>1. CASE owned
    BY <1>6, <1>12, <2>1
  <2>2. CASE ~owned
    <3>1. Len(released) = 0
      BY <1>13, <2>2
    <3> QED BY <2>2, <3>1 DEF Lists, In, Once
  <2> QED BY <2>1, <2>2
<1>16. /\ DOMAIN released = 1..Len(released)
       /\ \A x : x \in R <=> \E i \in DOMAIN released : released[i] = x
  <2>1. DOMAIN released = 1..Len(released)
    BY <1>14
  <2> HIDE DEF R
  <2> QED BY <1>15, <2>1, Zenon DEF Lists, In
<1>17. \A id \in R : /\ id \in TaskId /\ id.slot \in Slot /\ id.slot # s
                     /\ id.generation = tasks[id.slot].generation
                     /\ tasks[id.slot].wait_kind = "Mutex" /\ tasks[id.slot].state = "Blocked"
  <2> TAKE id \in R
  <2>1. owned /\ id \in BlockedOnMutex(tasks)
    OBVIOUS
  <2>2. /\ id \in TaskId /\ id.slot \in Slot /\ id.generation = tasks[id.slot].generation
        /\ tasks[id.slot].wait_kind = "Mutex"
    BY <2>1 DEF BlockedOnMutex, TaskId
  <2>3. id.slot # s
    BY <1>10, <2>1, <2>2
  <2> QED BY <1>4, <2>2, <2>3 DEF RecordOk
<1>18. \A id \in TaskId : id.generation = tasks[id.slot].generation => (id \in R <=> id.slot \in woken)
  <2> TAKE id \in TaskId
  <2> HAVE id.generation = tasks[id.slot].generation
  <2>1. ASSUME id \in R PROVE id.slot \in woken
    BY <1>16, <2>1, Zenon
  <2>2. ASSUME id.slot \in woken PROVE id \in R
    <3>1. PICK i \in DOMAIN released : released[i].slot = id.slot
      BY <2>2, Zenon
    <3>2. released[i] \in R
      BY <1>16, Zenon
    <3>3. released[i] \in TaskId /\ released[i].generation = tasks[id.slot].generation
      BY <1>17, <3>1, <3>2
    <3>4. released[i] = id
      BY <3>1, <3>3 DEF TaskId
    <3> QED BY <3>2, <3>4
  <2> QED BY <2>1, <2>2
<1>19. \A r \in woken : r \in Slot /\ r # s /\ tasks[r].state = "Blocked" /\ tasks[r].wait_kind = "Mutex"
  <2> TAKE r \in woken
  <2>1. PICK i \in DOMAIN released : released[i].slot = r
    BY Zenon
  <2>2. released[i] \in R
    BY <1>16, Zenon
  <2> QED BY <1>17, <2>1, <2>2, Zenon
<1>20. \A r \in woken : owned
  BY <1>13 DEF released
<1> HIDE DEF woken
<1>21. ASSUME NEW r \in woken
       PROVE  /\ SelectAllowedCpu(tasks[r].affinity) \in tasks[r].affinity
              /\ SelectAllowedCpu(tasks[r].affinity) \in Cpu
  <2>1. r \in Slot /\ tasks[r].state = "Blocked"
    BY <1>19
  <2>2. tasks[r].affinity \in SUBSET Cpu /\ tasks[r].affinity # {}
    BY <1>4, <2>1 DEF TaskType, RecordOk
  <2> QED BY <2>2, AllowedCpu, Zenon
<1>22. /\ ts[s] = DeadTask(tasks[s])
       /\ \A r \in woken : ts[r] = Woken(tasks[r], SelectAllowedCpu(tasks[r].affinity), "OwnerGone")
       /\ \A r \in Slot : r # s /\ r \notin woken => ts[r] = tasks[r]
  BY <1>19
<1>23. ts \in [Slot -> TaskType]
  <2>1. ASSUME NEW r \in Slot PROVE ts[r] \in TaskType
    <3>1. CASE r = s
      BY <1>4, <1>22, <3>1, DeadTaskRecord, Zenon
    <3>2. CASE r \in woken
      <4>1. "OwnerGone" \in EventReason \cup LockReason
        BY DEF LockReason
      <4>2. Woken(tasks[r], SelectAllowedCpu(tasks[r].affinity), "OwnerGone") \in TaskType
        BY <1>4, <1>21, <3>2, <4>1, WokenRecord, Zenon
      <4> QED BY <1>22, <3>2, <4>2, Zenon
    <3>3. CASE r # s /\ r \notin woken
      BY <1>4, <1>22, <3>3, Zenon
    <3> QED BY <3>1, <3>2, <3>3
  <2>2. ts = [r \in Slot |-> ts[r]]
    OBVIOUS
  <2> HIDE DEF ts
  <2> QED BY <2>1, <2>2
<1> HIDE DEF ts
<1>24. /\ \A r \in Slot : Alike(ts[r], tasks'[r]) /\ tasks'[r].bypass_count = ts[r].bypass_count
       /\ Exact(tasks', mutex_owner', mutex_waiters', donation')
  <2>1. mutex_waiters' \in Seq(TaskId)
    BY <1>2, <1>11
  <2>2. tasks' = Recompute(ts, mutex_owner', mutex_waiters', donation')
    BY <1>2, Zenon
  <2> QED BY <1>23, <2>1, <2>2, RecomputedTable, Zenon
<1>25. /\ tasks'[s].generation = tasks[s].generation /\ tasks'[s].affinity = tasks[s].affinity
       /\ tasks'[s].bypass_count = 0 /\ tasks'[s].state = "Dead" /\ tasks'[s].wait_kind = "None"
       /\ tasks'[s].wake_reason = "None" /\ tasks'[s].assigned_cpu = NoCpu
       /\ tasks'[s].queued_cpu = NoCpu
  <2>1. /\ ts[s].generation = tasks[s].generation /\ ts[s].affinity = tasks[s].affinity
        /\ ts[s].bypass_count = 0 /\ ts[s].state = "Dead" /\ ts[s].wait_kind = "None"
        /\ ts[s].wake_reason = "None" /\ ts[s].assigned_cpu = NoCpu
        /\ ts[s].queued_cpu = NoCpu
    BY <1>4, <1>22, DeadFields
  <2> QED BY <1>24, <2>1 DEF Alike
<1>26. ASSUME NEW r \in woken
       PROVE  /\ r \in Slot /\ r # s /\ tasks[r].state = "Blocked" /\ tasks[r].wait_kind = "Mutex"
              /\ tasks'[r].generation = tasks[r].generation
              /\ tasks'[r].affinity = tasks[r].affinity
              /\ tasks'[r].bypass_count = tasks[r].bypass_count
              /\ tasks'[r].state = "Runnable" /\ tasks'[r].wait_kind = "None"
              /\ tasks'[r].assigned_cpu = SelectAllowedCpu(tasks[r].affinity)
              /\ tasks'[r].queued_cpu = SelectAllowedCpu(tasks[r].affinity)
  <2>1. r \in Slot /\ r # s /\ tasks[r].state = "Blocked" /\ tasks[r].wait_kind = "Mutex"
    BY <1>19
  <2> DEFINE a == SelectAllowedCpu(tasks[r].affinity)
  <2>2. ts[r] = Woken(tasks[r], a, "OwnerGone") /\ tasks[r] \in TaskType
    BY <1>4, <1>22, <2>1
  <2> HIDE DEF a
  <2>3. /\ ts[r].generation = tasks[r].generation /\ ts[r].affinity = tasks[r].affinity
        /\ ts[r].bypass_count = tasks[r].bypass_count
        /\ ts[r].state = "Runnable" /\ ts[r].wait_kind = "None"
        /\ ts[r].assigned_cpu = a /\ ts[r].queued_cpu = a
    BY <2>2, WokenFields
  <2>4. Alike(ts[r], tasks'[r]) /\ tasks'[r].bypass_count = ts[r].bypass_count
    BY <1>24, <2>1
  <2> QED BY <2>1, <2>3, <2>4 DEF Alike, a
<1>27. ASSUME NEW r \in Slot, r # s, r \notin woken
       PROVE  Alike(tasks[r], tasks'[r]) /\ tasks'[r].bypass_count = tasks[r].bypass_count
  BY <1>22, <1>24, <1>27
<1>28. donation'[s] = 0 /\ \A r \in Slot : r # s => donation'[r] = donation[r]
  BY <1>2, <1>3
<1>29. ASSUME NEW r \in Slot
       PROVE  RecordOk(tasks'[r], donation'[r]) /\ Reasoned(tasks[r], tasks'[r])
  <2>1. RecordOk(tasks[r], donation[r])
    BY <1>4
  <2>2. CASE r = s
    BY <1>1, <1>25, <1>28, <2>1, <2>2 DEF RecordOk, Reasoned
  <2>3. CASE r \in woken
    <3>1. /\ SelectAllowedCpu(tasks[r].affinity) \in tasks[r].affinity
      BY <1>21, <2>3
    <3>2. donation'[r] = donation[r]
      BY <1>26, <1>28, <2>3
    <3> QED BY <1>26, <2>1, <2>3, <3>1, <3>2 DEF RecordOk, Reasoned
  <2>4. CASE r # s /\ r \notin woken
    <3>1. /\ Alike(tasks[r], tasks'[r]) /\ tasks'[r].bypass_count = tasks[r].bypass_count
          /\ donation'[r] = donation[r]
      BY <1>27, <1>28, <2>4
    <3> QED BY <2>1, <3>1 DEF RecordOk, Reasoned, Alike
  <2> QED BY <2>2, <2>3, <2>4
<1>30. RecordsOk(tasks', donation') /\ Progress
  BY <1>29 DEF RecordsOk, Progress
<1>31. \A id \in TaskId : /\ id.slot \in Slot
                          /\ tasks'[id.slot].generation = tasks[id.slot].generation
  BY <1>25, <1>26, <1>27 DEF TaskId, Alike
<1>32. ASSUME NEW id \in TaskId, id.generation = tasks[id.slot].generation
       PROVE  /\ id = e <=> id.slot = s
              /\ id \in R <=> id.slot \in woken
              /\ id.slot \in Slot
  BY <1>5, <1>7, <1>18, <1>31, <1>32, Zenon
<1> HIDE DEF e, R
<1>33. ASSUME NEW c
       PROVE  ReadyOn(tasks', c) = (ReadyOn(tasks, c) \ {e}) \cup {id \in R : Target(id) = c}
  <2>1. ReadyOn(tasks', c) \subseteq TaskId /\ ReadyOn(tasks, c) \subseteq TaskId /\ R \subseteq TaskId
    BY <1>17 DEF ReadyOn
  <2>2. ASSUME NEW id \in TaskId, id.generation # tasks[id.slot].generation
        PROVE  id \notin ReadyOn(tasks', c) /\ id \notin ReadyOn(tasks, c) /\ id \notin R
    BY <1>17, <1>31, <2>2 DEF ReadyOn
  <2>3. ASSUME NEW id \in TaskId, id.generation = tasks[id.slot].generation
        PROVE  id \in ReadyOn(tasks', c) <=>
                 (id \in ReadyOn(tasks, c) /\ id # e) \/ (id \in R /\ Target(id) = c)
    <3>1. CASE id.slot = s
      BY <1>17, <1>25, <1>32, <2>3, <3>1 DEF ReadyOn
    <3>2. CASE id.slot \in woken
      BY <1>26, <1>31, <1>32, <2>3, <3>2 DEF ReadyOn
    <3>3. CASE id.slot # s /\ id.slot \notin woken
      BY <1>27, <1>31, <1>32, <2>3, <3>3 DEF ReadyOn, Alike
    <3> QED BY <3>1, <3>2, <3>3
  <2> QED BY <2>1, <2>2, <2>3
<1>34. ASSUME NEW c PROVE RunningOn(tasks', c) = RunningOn(tasks, c) \ {e}
  <2>1. RunningOn(tasks', c) \subseteq TaskId /\ RunningOn(tasks, c) \subseteq TaskId
    BY DEF RunningOn
  <2>2. ASSUME NEW id \in TaskId
        PROVE  id \in RunningOn(tasks', c) <=> id \in RunningOn(tasks, c) /\ id # e
    <3>1. CASE id.slot = s
      BY <1>25, <1>32, <3>1 DEF RunningOn
    <3>2. CASE id.slot \in woken
      BY <1>26, <3>2 DEF RunningOn
    <3>3. CASE id.slot # s /\ id.slot \notin woken
      BY <1>27, <1>31, <1>32, <3>3 DEF RunningOn, Alike
    <3> QED BY <3>1, <3>2, <3>3
  <2> QED BY <2>1, <2>2
<1>35. BlockedOnMutex(tasks') = IF owned THEN {} ELSE BlockedOnMutex(tasks) \ {e}
  <2>1. BlockedOnMutex(tasks') \subseteq TaskId /\ BlockedOnMutex(tasks) \subseteq TaskId
    BY DEF BlockedOnMutex
  <2>2. ASSUME NEW id \in TaskId
        PROVE  id \in BlockedOnMutex(tasks') <=> id \in BlockedOnMutex(tasks) /\ id # e /\ ~owned
    <3>1. CASE id.slot = s
      BY <1>25, <1>32, <3>1 DEF BlockedOnMutex
    <3>2. CASE id.slot \in woken
      BY <1>20, <1>26, <3>2 DEF BlockedOnMutex
    <3>3. CASE id.slot # s /\ id.slot \notin woken
      <4>1. id \in BlockedOnMutex(tasks) => ~owned /\ id # e
        BY <1>32, <3>3 DEF BlockedOnMutex, R
      <4>2. id \in BlockedOnMutex(tasks') <=> id \in BlockedOnMutex(tasks)
        BY <1>27, <1>31, <3>3 DEF BlockedOnMutex, Alike
      <4> QED BY <4>1, <4>2
    <3> QED BY <3>1, <3>2, <3>3
  <2> QED BY <2>1, <2>2
<1>36. QueuesOk(tasks', queues')
  <2>1. ASSUME NEW c \in Cpu PROVE Lists(queues'[c], ReadyOn(tasks', c))
    <3> DEFINE S == ReadyOn(tasks, c) \ {e}
               T == {id \in R : Target(id) = c}
    <3>1. queues[c] \in Seq(TaskId) /\ Lists(queues[c], ReadyOn(tasks, c))
      BY <1>3 DEF SchedulerInv, QueuesOk
    <3>2. Left(c) \in Seq(TaskId) /\ Lists(Left(c), S)
      <4>1. e \in ReadyOn(tasks, c) <=> t.state = "Runnable" /\ t.queued_cpu = c
        BY <1>5 DEF ReadyOn
      <4>2. CASE t.state = "Runnable" /\ t.queued_cpu = c
        <5>1. Left(c) = Remove(queues[c], e) /\ e \in ReadyOn(tasks, c)
          BY <4>1, <4>2
        <5> HIDE DEF Left
        <5> QED BY <3>1, <5>1, ListsLose, RemoveType
      <4>3. CASE ~(t.state = "Runnable" /\ t.queued_cpu = c)
        <5>1. Left(c) = queues[c] /\ S = ReadyOn(tasks, c)
          BY <4>1, <4>3
        <5> HIDE DEF Left, S
        <5> QED BY <3>1, <5>1
      <4> QED BY <4>2, <4>3
    <3>3. I(c) \in SUBSET (1..Len(released)) /\ I(c) \in SUBSET DOMAIN released
      BY <1>16
    <3>4. {released[i] : i \in I(c)} = T
      BY <1>16, Zenon
    <3> HIDE DEF I, Left
    <3>5. Lists(To(c), T)
      <4>1. Once(released)
        BY <1>15 DEF Lists
      <4>2. Lists(Pick(released, I(c)), {released[i] : i \in I(c)})
        BY <1>14, <3>3, <4>1, PickLists, Zenon
      <4> QED BY <3>4, <4>2, Zenon
    <3>6. To(c) \in Seq(TaskId)
      BY <1>14, <3>3, PickType, Zenon
    <3>7. S \cap T = {}
      BY <1>17 DEF ReadyOn
    <3>8. ReadyOn(tasks', c) = S \cup T
      BY <1>33, Zenon
    <3>9. queues'[c] = Left(c) \o To(c)
      BY <1>2, Zenon
    <3> HIDE DEF S, T, To
    <3>10. Lists(Left(c) \o To(c), S \cup T)
      BY <3>2, <3>5, <3>6, <3>7, ListsJoin, Zenon
    <3> QED BY <3>8, <3>9, <3>10
  <2> QED BY <2>1 DEF QueuesOk
<1>37. CpusOk(tasks', current')
  <2>1. ASSUME NEW c \in Cpu PROVE RunningOn(tasks', c) = {current'[c]} \ {NoTask}
    <3>1. RunningOn(tasks, c) = {current[c]} \ {NoTask}
      BY DEF SchedulerInv, CpusOk
    <3>2. e \in RunningOn(tasks, c) <=> t.state = "Running" /\ t.assigned_cpu = c
      BY <1>5 DEF RunningOn
    <3>3. current'[c] = IF t.state = "Running" /\ t.assigned_cpu = c THEN NoTask ELSE current[c]
      BY <1>2
    <3>4. CASE t.state = "Running" /\ t.assigned_cpu = c
      BY <1>1, <1>34, <3>1, <3>3, <3>4
    <3>5. CASE ~(t.state = "Running" /\ t.assigned_cpu = c)
      BY <1>34, <3>1, <3>2, <3>3, <3>5
    <3> QED BY <3>4, <3>5
  <2> QED BY <2>1 DEF CpusOk
<1>38. Lists(mutex_waiters', BlockedOnMutex(tasks'))
  <2>1. CASE owned
    <3>1. mutex_waiters' = <<>> /\ BlockedOnMutex(tasks') = {}
      BY <1>2, <1>35, <2>1, Zenon
    <3> QED BY <3>1 DEF Lists, In, Once
  <2>2. CASE ~owned
    <3>1. mutex_waiters' = ws /\ BlockedOnMutex(tasks') = BlockedOnMutex(tasks) \ {e}
      BY <1>2, <1>35, <2>2, Zenon
    <3> QED BY <1>11, <3>1
  <2> QED BY <2>1, <2>2
<1>39. OwnerOk(tasks', mutex_owner', mutex_waiters')
  <2>1. CASE owned
    BY <1>2, <2>1 DEF OwnerOk
  <2>2. CASE ~owned /\ mutex_owner = NoTask
    <3>1. mutex_waiters = <<>>
      BY <1>6, <2>2 DEF OwnerOk
    <3>2. t.wait_kind # "Mutex"
      BY <1>6, <1>8, <3>1 DEF Lists, In
    <3>3. ws = <<>>
      BY <3>1, <3>2 DEF ws
    <3> QED BY <1>2, <2>2, <3>3 DEF OwnerOk
  <2>3. CASE ~owned /\ mutex_owner # NoTask
    <3> DEFINE o == mutex_owner
    <3>1. /\ o \in TaskId /\ o = IdOf(tasks, o.slot) /\ tasks[o.slot].state \notin {"Dormant", "Dead"}
          /\ tasks[o.slot].wait_kind # "Mutex"
      BY <1>3, <1>6, <2>3 DEF OwnerOk
    <3>2. o.slot \in Slot /\ o.slot # s /\ o.slot \notin woken
      BY <1>20, <1>31, <2>3, <3>1 DEF e
    <3>3. Alike(tasks[o.slot], tasks'[o.slot])
      BY <1>27, <3>2
    <3>4. mutex_owner' = o
      BY <1>2, <2>3
    <3> QED BY <2>3, <3>1, <3>3, <3>4 DEF OwnerOk, Alike, IdOf
  <2> QED BY <2>1, <2>2, <2>3
<1> QED BY <1>24, <1>30, <1>36, <1>37, <1>38, <1>39 DEF SchedulerInv

\* A task table a step may leave behind: its slots keep their CPUs, and no slot
\* has been passed over more often than before.
Calm(ts) ==
  /\ ts \in [Slot -> TaskType]
  /\ \A s \in Slot : /\ tasks[s].affinity # {} => ts[s].affinity # {}
                     /\ ts[s].bypass_count <= tasks[s].bypass_count

\* Changing one task so leaves such a table.
LEMMA UpdateCalm ==
  ASSUME tasks \in [Slot -> TaskType], NEW s \in Slot, NEW r \in TaskType,
         r.affinity # {} \/ r.affinity = tasks[s].affinity,
         r.bypass_count = 0 \/ r.bypass_count = tasks[s].bypass_count
  PROVE  Calm([tasks EXCEPT ![s] = r])
<1>1. ASSUME NEW x \in Slot PROVE tasks[x].bypass_count \in Nat
  BY DEF TaskType
<1>2. [tasks EXCEPT ![s] = r] \in [Slot -> TaskType]
  OBVIOUS
<1>3. ASSUME NEW x \in Slot
      PROVE  /\ tasks[x].affinity # {} => [tasks EXCEPT ![s] = r][x].affinity # {}
             /\ [tasks EXCEPT ![s] = r][x].bypass_count <= tasks[x].bypass_count
  <2>1. CASE x = s
    BY <1>1, <2>1
  <2>2. CASE x # s
    BY <1>1, <2>2
  <2> QED BY <2>1, <2>2
<1> QED BY <1>2, <1>3 DEF Calm

\* So does recomputing the effective priorities.
LEMMA RecomputeCalm ==
  ASSUME Minima, NEW ts, Calm(ts), NEW o \in TaskId \cup {NoTask},
         NEW ws \in Seq(PlacedId), NEW d \in [Slot -> 0..MAX_PRIORITY]
  PROVE  Calm(Recompute(ts, o, ws, d))
<1>1. PlacedId \subseteq TaskId
  BY DEF PlacedId
<1>2. ws \in Seq(TaskId)
  BY <1>1
<1>3. ts \in [Slot -> TaskType]
  BY DEF Calm
<1> DEFINE R == Recompute(ts, o, ws, d)
<1>4. /\ R \in [Slot -> TaskType]
      /\ \A s \in Slot : R[s].bypass_count = ts[s].bypass_count
      /\ \A s \in Slot : R[s].affinity = ts[s].affinity
  BY <1>2, <1>3, RecomputeType, ZenonT(40)
<1> HIDE DEF R
<1>5. Calm(R)
  BY <1>4 DEF Calm
<1> QED BY <1>5 DEF R

\* The other variables a step leaves, with ids of slots that already have CPUs.
Rest ==
  /\ queues' \in [Cpu -> Seq(PlacedId)]
  /\ current' \in [Cpu -> PlacedId \cup {NoTask}]
  /\ mutex_owner' \in TaskId \cup {NoTask}
  /\ mutex_waiters' \in Seq(PlacedId)
  /\ donation' \in [Slot -> 0..MAX_PRIORITY]

\* A well-typed task table and well-typed queues make a well-typed state.
LEMMA RestType ==
  ASSUME tasks' \in [Slot -> TaskType], Rest,
         \A s \in Slot : tasks[s].affinity # {} => tasks'[s].affinity # {}
  PROVE  TypeOK'
<1>1. PlacedId \subseteq PlacedId'
  BY DEF PlacedId, TaskId
<1>2. Seq(PlacedId) \subseteq Seq(PlacedId')
  BY <1>1
<1> QED BY <1>1, <1>2 DEF Rest, TypeOK

\* The ids queued or running name slots that have a CPU.
LEMMA PlacedIds ==
  ASSUME TypeOK
  PROVE  /\ \A id \in PlacedId : id \in TaskId /\ id.slot \in Slot /\ tasks[id.slot].affinity # {}
         /\ \A s \in Slot : Id(s) \in TaskId /\ (tasks[s].affinity # {} => Id(s) \in PlacedId)
         /\ \A c \in Cpu : current[c] # NoTask => current[c] \in PlacedId
<1>1. \A s \in Slot : Id(s) \in TaskId /\ Id(s).slot = s
  BY DEF TypeOK, TaskType, Id, TaskId
<1>2. \A s \in Slot : tasks[s].affinity # {} => Id(s) \in PlacedId
  BY <1>1 DEF PlacedId
<1>3. \A id \in PlacedId : id \in TaskId /\ id.slot \in Slot /\ tasks[id.slot].affinity # {}
  BY DEF PlacedId, TaskId
<1>4. \A c \in Cpu : current[c] # NoTask => current[c] \in PlacedId
  BY DEF TypeOK
<1> QED BY <1>1, <1>2, <1>3, <1>4

-----------------------------------------------------------------------------
(* Every operation but dispatch leaves a well-typed state in which no bypass  *)
(* count has risen.                                                           *)

\* The operations on the task a CPU is running.
LEMMA CpuCalm ==
  ASSUME Minima, TypeOK, NEW c \in Cpu,
         \/ YieldCurrent(c)
         \/ \E kind \in {"Event", "ExternalLock"} : BlockCurrent(c, kind)
         \/ ConsumeWake(c) \/ LockMutexFree(c) \/ LockMutexBlock(c)
         \/ UnlockMutexFree(c) \/ UnlockMutexHandoff(c)
  PROVE  Calm(tasks') /\ Rest
<1> DEFINE x == current[c].slot
<1>1. /\ tasks \in [Slot -> TaskType] /\ queues \in [Cpu -> Seq(PlacedId)]
      /\ current \in [Cpu -> PlacedId \cup {NoTask}] /\ mutex_owner \in TaskId \cup {NoTask}
      /\ mutex_waiters \in Seq(PlacedId) /\ donation \in [Slot -> 0..MAX_PRIORITY]
  BY DEF TypeOK
<1>2. current[c] # NoTask
  BY ZenonT(40) DEF YieldCurrent, BlockCurrent, ConsumeWake, LockMutexFree, LockMutexBlock,
         UnlockMutexFree, UnlockMutexHandoff
<1>3. current[c] \in PlacedId /\ current[c] \in TaskId /\ x \in Slot /\ tasks[x].affinity # {}
  BY <1>2, PlacedIds, Zenon
<1>4. tasks[x] \in TaskType
  BY <1>1, <1>3
<1>5. [current EXCEPT ![c] = NoTask] \in [Cpu -> PlacedId \cup {NoTask}]
  BY <1>1
<1>6. Append(queues[c], current[c]) \in Seq(PlacedId)
  BY <1>1, <1>3
<1>7. Calm(tasks)
  BY <1>1 DEF Calm, TaskType
<1> DEFINE Y == [tasks[x] EXCEPT !.state = "Runnable", !.assigned_cpu = c, !.queued_cpu = c]
           W == [tasks[x] EXCEPT !.wake_reason = "None"]
<1>8. /\ Y \in TaskType /\ Y.affinity = tasks[x].affinity
      /\ Y.bypass_count = tasks[x].bypass_count
  BY <1>4, ZenonT(40) DEF TaskType
<1>9. /\ W \in TaskType /\ W.affinity = tasks[x].affinity
      /\ W.bypass_count = tasks[x].bypass_count
  BY <1>4 DEF TaskType
<1>10. CASE YieldCurrent(c)
  <2>1. tasks' = [tasks EXCEPT ![x] = Y]
    BY <1>1, <1>3, <1>10, ZenonT(40) DEF YieldCurrent
  <2>2. Calm(tasks')
    BY <1>1, <1>3, <1>8, <2>1, UpdateCalm, ZenonT(40)
  <2>3. queues' \in [Cpu -> Seq(PlacedId)]
    BY <1>1, <1>6, <1>10 DEF YieldCurrent
  <2> QED BY <1>1, <1>5, <1>10, <2>2, <2>3 DEF YieldCurrent, Rest, mutexVars
<1>11. ASSUME NEW kind \in {"Event", "ExternalLock"}, BlockCurrent(c, kind)
       PROVE  Calm(tasks') /\ Rest
  <2>1. tasks' = [tasks EXCEPT ![x] = Waiting(tasks[x], c, kind)]
    BY <1>1, <1>3, <1>11 DEF BlockCurrent
  <2> DEFINE w == Waiting(tasks[x], c, kind)
  <2>2. w \in TaskType /\ w.affinity = tasks[x].affinity /\ w.bypass_count = 0
    BY <1>4, WaitingRecord
  <2> HIDE DEF w
  <2>3. Calm([tasks EXCEPT ![x] = w])
    BY <1>1, <1>3, <2>2, UpdateCalm, ZenonT(40)
  <2>4. Calm(tasks')
    BY <2>1, <2>3 DEF w
  <2> QED BY <1>1, <1>5, <1>11, <2>4 DEF BlockCurrent, Rest, mutexVars
<1>12. CASE ConsumeWake(c)
  <2>1. tasks' = [tasks EXCEPT ![x] = W]
    BY <1>1, <1>3, <1>12 DEF ConsumeWake
  <2>2. Calm(tasks')
    BY <1>1, <1>3, <1>9, <2>1, UpdateCalm, ZenonT(40)
  <2> QED BY <1>1, <1>12, <2>2 DEF ConsumeWake, Rest, mutexVars
<1>13. CASE LockMutexFree(c)
  BY <1>1, <1>3, <1>7, <1>13 DEF LockMutexFree, Rest
<1>14. CASE LockMutexBlock(c)
  <2> DEFINE ts == [tasks EXCEPT ![x] = Waiting(tasks[x], c, "Mutex")]
             ws == Append(mutex_waiters, current[c])
  <2>1. Calm(ts)
    <3> DEFINE w == Waiting(tasks[x], c, "Mutex")
    <3>1. w \in TaskType /\ w.affinity = tasks[x].affinity /\ w.bypass_count = 0
      BY <1>4, WaitingRecord, ZenonT(40)
    <3> HIDE DEF w
    <3>2. Calm([tasks EXCEPT ![x] = w])
      BY <1>1, <1>3, <3>1, UpdateCalm, ZenonT(40)
    <3> QED BY <3>2 DEF w
  <2>2. ws \in Seq(PlacedId)
    BY <1>1, <1>3
  <2>3. tasks' = Recompute(ts, mutex_owner, ws, donation)
    BY <1>1, <1>3, <1>14 DEF LockMutexBlock
  <2> HIDE DEF ts
  <2>4. Calm(tasks')
    BY <1>1, <2>1, <2>2, <2>3, RecomputeCalm, ZenonT(40)
  <2> QED BY <1>1, <1>5, <1>14, <2>2, <2>4 DEF LockMutexBlock, Rest
<1>15. CASE UnlockMutexFree(c)
  <2>1. tasks' = Recompute(tasks, NoTask, mutex_waiters, donation)
    BY <1>15 DEF UnlockMutexFree
  <2>2. Calm(tasks')
    BY <1>1, <1>7, <2>1, RecomputeCalm, ZenonT(40)
  <2> QED BY <1>1, <1>15, <2>2 DEF UnlockMutexFree, Rest
<1>16. CASE UnlockMutexHandoff(c)
  <2> DEFINE W2(i) == mutex_waiters[i]
             target(i) == SelectAllowedCpu(tasks[W2(i).slot].affinity)
             ts(i) == [tasks EXCEPT ![W2(i).slot] = Woken(@, target(i), "LockGranted")]
             ws(i) == RemoveAt(mutex_waiters, i)
  <2>1. PICK i \in DOMAIN mutex_waiters :
          /\ mutex_owner' = W2(i) /\ mutex_waiters' = ws(i)
          /\ tasks' = Recompute(ts(i), W2(i), ws(i), donation)
          /\ queues' = [queues EXCEPT ![target(i)] = Append(@, W2(i))]
    BY <1>16, ZenonT(40) DEF UnlockMutexHandoff
  <2>2. W2(i) \in PlacedId
    BY <1>1
  <2>3. W2(i) \in TaskId /\ W2(i).slot \in Slot /\ tasks[W2(i).slot].affinity # {}
    BY <2>2, PlacedIds
  <2>4. target(i) \in Cpu
    <3>1. tasks[W2(i).slot].affinity \in SUBSET Cpu
      BY <1>1, <2>3 DEF TaskType
    <3> HIDE DEF W2
    <3> QED BY <2>3, <3>1, AllowedCpu
  <2>5. Calm(ts(i))
    <3> DEFINE z == W2(i).slot
               r == Woken(tasks[z], target(i), "LockGranted")
    <3>1. z \in Slot /\ tasks[z] \in TaskType
      BY <1>1, <2>3
    <3>2. "LockGranted" \in EventReason \cup LockReason
      BY DEF LockReason
    <3>3. ts(i) = [tasks EXCEPT ![z] = r]
      BY <1>1, <3>1
    <3> HIDE DEF z
    <3>4. /\ r \in TaskType /\ r.affinity = tasks[z].affinity
          /\ r.bypass_count = tasks[z].bypass_count
      BY <2>4, <3>1, <3>2, WokenRecord
    <3> HIDE DEF r
    <3>5. Calm([tasks EXCEPT ![z] = r])
      BY <1>1, <3>1, <3>4, UpdateCalm, ZenonT(40)
    <3> QED BY <3>3, <3>5
  <2>6. ws(i) \in Seq(PlacedId)
    BY <1>1, RemoveAtType
  <2> HIDE DEF ts, ws, W2, target
  <2>7. Calm(tasks')
    BY <1>1, <2>1, <2>3, <2>5, <2>6, RecomputeCalm
  <2>8. Append(queues[target(i)], W2(i)) \in Seq(PlacedId)
    BY <1>1, <2>2, <2>4
  <2>9. queues' \in [Cpu -> Seq(PlacedId)]
    BY <1>1, <2>1, <2>4, <2>8
  <2> QED BY <1>1, <1>16, <2>1, <2>3, <2>6, <2>7, <2>9, ZenonT(40) DEF UnlockMutexHandoff, Rest
<1> QED BY <1>10, <1>11, <1>12, <1>13, <1>14, <1>15, <1>16

\* The operations that name a task.
LEMMA TaskCalm ==
  ASSUME Minima, TypeOK, NEW s \in Slot, TaskStep(s), ~Teardown(s)
  PROVE  Calm(tasks') /\ Rest
<1>1. /\ tasks \in [Slot -> TaskType] /\ queues \in [Cpu -> Seq(PlacedId)]
      /\ current \in [Cpu -> PlacedId \cup {NoTask}] /\ mutex_owner \in TaskId \cup {NoTask}
      /\ mutex_waiters \in Seq(PlacedId) /\ donation \in [Slot -> 0..MAX_PRIORITY]
  BY DEF TypeOK
<1>2. tasks[s] \in TaskType
  BY <1>1
<1>3. Calm(tasks)
  BY <1>1 DEF Calm, TaskType
<1>4. ASSUME NEW c \in Cpu, c \in tasks[s].affinity
      PROVE  /\ Id(s) \in PlacedId
             /\ \A q \in Seq(PlacedId) : Append(q, Id(s)) \in Seq(PlacedId)
  <2>1. Id(s) \in PlacedId
    BY <1>4, PlacedIds
  <2> QED BY <2>1
<1>5. ASSUME NEW g \in 1..MaxGeneration, NEW p \in Priority, NEW a \in Affinity,
             CreateTask(s, g, p, a)
      PROVE  Calm(tasks') /\ Rest
  <2> DEFINE r == [EmptyTask EXCEPT !.generation = g, !.base_priority = p,
                                    !.effective_priority = p, !.affinity = a]
  <2>1. p \in MIN_PRIORITY..MAX_PRIORITY /\ a \in SUBSET Cpu /\ a # {} /\ g \in Nat
    BY PriorityAssumption, AffinityAssumption, MaxGenerationAssumption
  <2>2. r \in TaskType /\ r.affinity # {} /\ r.bypass_count = 0
    BY <2>1, ZenonT(40) DEF EmptyTask, TaskType, MIN_PRIORITY, MAX_PRIORITY
  <2>3. tasks' = [tasks EXCEPT ![s] = r]
    BY <1>5 DEF CreateTask
  <2> HIDE DEF r
  <2>4. Calm(tasks')
    BY <1>1, <2>2, <2>3, UpdateCalm, ZenonT(40)
  <2> QED BY <1>1, <1>5, <2>4 DEF CreateTask, Rest, mutexVars
<1>6. ASSUME NEW c \in Cpu, Activate(s, c) PROVE Calm(tasks') /\ Rest
  <2> DEFINE r == [tasks[s] EXCEPT !.state = "Runnable", !.assigned_cpu = c, !.queued_cpu = c]
  <2>1. r \in TaskType /\ r.affinity = tasks[s].affinity /\ r.bypass_count = tasks[s].bypass_count
    BY <1>2, ZenonT(40) DEF TaskType
  <2>2. tasks' = [tasks EXCEPT ![s] = r]
    BY <1>1, <1>6, ZenonT(40) DEF Activate
  <2>3. Calm(tasks')
    BY <1>1, <2>1, <2>2, UpdateCalm, ZenonT(40)
  <2>4. queues' \in [Cpu -> Seq(PlacedId)]
    BY <1>1, <1>4, <1>6 DEF Activate
  <2> QED BY <1>1, <1>6, <2>3, <2>4 DEF Activate, Rest, mutexVars
<1>7. ASSUME NEW c \in Cpu, NEW r \in EventReason \cup LockReason, NEW k, WakeKind(s, c, r, k)
      PROVE  Calm(tasks') /\ Rest
  <2>1. tasks' = [tasks EXCEPT ![s] = Woken(tasks[s], c, r)]
    BY <1>1, <1>7 DEF WakeKind
  <2> DEFINE w == Woken(tasks[s], c, r)
  <2>2. w \in TaskType /\ w.affinity = tasks[s].affinity /\ w.bypass_count = tasks[s].bypass_count
    BY <1>2, WokenRecord
  <2> HIDE DEF w
  <2>3. Calm([tasks EXCEPT ![s] = w])
    BY <1>1, <2>2, UpdateCalm, ZenonT(40)
  <2>4. queues' \in [Cpu -> Seq(PlacedId)]
    BY <1>1, <1>4, <1>7 DEF WakeKind
  <2>5. Calm(tasks')
    BY <2>1, <2>3 DEF w
  <2> QED BY <1>1, <1>7, <2>4, <2>5 DEF WakeKind, Rest, mutexVars
<1>8. ASSUME NEW c \in Cpu, Migrate(s, c) PROVE Calm(tasks') /\ Rest
  <2> DEFINE r == [tasks[s] EXCEPT !.assigned_cpu = c, !.queued_cpu = c]
             source == tasks[s].queued_cpu
  <2>1. r \in TaskType /\ r.affinity = tasks[s].affinity /\ r.bypass_count = tasks[s].bypass_count
    BY <1>2, ZenonT(40) DEF TaskType
  <2>2. tasks' = [tasks EXCEPT ![s] = r]
    BY <1>1, <1>8, ZenonT(40) DEF Migrate
  <2>3. Calm(tasks')
    BY <1>1, <2>1, <2>2, UpdateCalm, ZenonT(40)
  <2>4. source \in Cpu /\ source # c /\ c \in tasks[s].affinity
    BY <1>2, <1>8 DEF Migrate, TaskType
  <2> HIDE DEF source
  <2> DEFINE q1 == Remove(queues[source], Id(s))
             q2 == Append(queues[c], Id(s))
  <2>5. q1 \in Seq(PlacedId) /\ q2 \in Seq(PlacedId)
    BY <1>1, <1>4, <2>4, RemoveType
  <2>6. queues' = [queues EXCEPT ![source] = q1, ![c] = q2]
    BY <1>1, <1>8, <2>4 DEF Migrate, source
  <2> HIDE DEF q1, q2
  <2>7. queues' \in [Cpu -> Seq(PlacedId)]
    BY <1>1, <2>5, <2>6, ZenonT(40)
  <2> QED BY <1>1, <1>8, <2>3, <2>7, ZenonT(40) DEF Migrate, Rest, mutexVars
<1>9. ASSUME NEW p \in Priority, SetPriority(s, p) PROVE Calm(tasks') /\ Rest
  <2> DEFINE r == [tasks[s] EXCEPT !.base_priority = p]
             ts == [tasks EXCEPT ![s].base_priority = p]
  <2>1. p \in MIN_PRIORITY..MAX_PRIORITY
    BY PriorityAssumption
  <2>2. r \in TaskType /\ r.affinity = tasks[s].affinity /\ r.bypass_count = tasks[s].bypass_count
    BY <1>2, <2>1 DEF TaskType
  <2>3. ts = [tasks EXCEPT ![s] = r]
    BY <1>1
  <2>4. Calm(ts)
    BY <1>1, <2>2, <2>3, UpdateCalm, ZenonT(40)
  <2>5. tasks' = Recompute(ts, mutex_owner, mutex_waiters, donation)
    BY <1>9 DEF SetPriority
  <2> HIDE DEF ts
  <2>6. Calm(tasks')
    BY <1>1, <2>4, <2>5, RecomputeCalm, Zenon
  <2> QED BY <1>1, <1>9, <2>6 DEF SetPriority, Rest, mutexVars
<1>10. ASSUME NEW p \in Donation, DonatePriority(s, p) PROVE Calm(tasks') /\ Rest
  <2>1. p \in 0..MAX_PRIORITY
    BY PriorityAssumption DEF MIN_PRIORITY, MAX_PRIORITY
  <2>2. donation' \in [Slot -> 0..MAX_PRIORITY]
    BY <1>1, <1>10, <2>1 DEF DonatePriority
  <2>3. tasks' = Recompute(tasks, mutex_owner, mutex_waiters, donation')
    BY <1>10 DEF DonatePriority
  <2>4. Calm(tasks')
    BY <1>1, <1>3, <2>2, <2>3, RecomputeCalm, ZenonT(40)
  <2> QED BY <1>1, <1>10, <2>2, <2>4 DEF DonatePriority, Rest, mutexVars
<1>11. CASE RevokePriorityDonation(s)
  <2>1. donation' \in [Slot -> 0..MAX_PRIORITY]
    BY <1>1, <1>11 DEF RevokePriorityDonation, MAX_PRIORITY
  <2>2. tasks' = Recompute(tasks, mutex_owner, mutex_waiters, donation')
    BY <1>11 DEF RevokePriorityDonation
  <2>3. Calm(tasks')
    BY <1>1, <1>3, <2>1, <2>2, RecomputeCalm, Zenon
  <2> QED BY <1>1, <1>11, <2>1, <2>3 DEF RevokePriorityDonation, Rest, mutexVars
<1> QED BY <1>5, <1>6, <1>7, <1>8, <1>9, <1>10, <1>11 DEF TaskStep, Wake, WakeLockWaiter

\* The teardown of a task: it leaves every queue and gives up the mutex.
LEMMA TeardownCalm ==
  ASSUME Minima, Picking, TypeOK, NEW s \in Slot, Teardown(s)
  PROVE  Calm(tasks') /\ Rest
<1>1. /\ tasks \in [Slot -> TaskType] /\ queues \in [Cpu -> Seq(PlacedId)]
      /\ current \in [Cpu -> PlacedId \cup {NoTask}] /\ mutex_owner \in TaskId \cup {NoTask}
      /\ mutex_waiters \in Seq(PlacedId) /\ donation \in [Slot -> 0..MAX_PRIORITY]
  BY DEF TypeOK
<1> DEFINE t == tasks[s]
           ws == IF t.state = "Blocked" /\ t.wait_kind = "Mutex"
                 THEN Remove(mutex_waiters, Id(s)) ELSE mutex_waiters
           owned == mutex_owner = Id(s)
           released == IF owned THEN ws ELSE <<>>
           Target(w) == SelectAllowedCpu(tasks[w.slot].affinity)
           To(c) == Pick(released, {i \in DOMAIN released : Target(released[i]) = c})
           Left(c) == IF t.state = "Runnable" /\ t.queued_cpu = c
                      THEN Remove(queues[c], Id(s)) ELSE queues[c]
           woken == {released[i].slot : i \in DOMAIN released}
           ts == [r \in Slot |->
                    IF r = s THEN DeadTask(tasks[r])
                    ELSE IF r \in woken
                    THEN Woken(tasks[r], SelectAllowedCpu(tasks[r].affinity), "OwnerGone")
                    ELSE tasks[r]]
<1>2. /\ queues' = [c \in Cpu |-> Left(c) \o To(c)]
      /\ current' = [c \in Cpu |-> IF t.state = "Running" /\ t.assigned_cpu = c
                                   THEN NoTask ELSE current[c]]
      /\ mutex_owner' = IF owned THEN NoTask ELSE mutex_owner
      /\ mutex_waiters' = IF owned THEN <<>> ELSE ws
      /\ donation' = [donation EXCEPT ![s] = 0]
      /\ tasks' = Recompute(ts, mutex_owner', mutex_waiters', donation')
  BY ZenonT(40) DEF Teardown
<1>3. ws \in Seq(PlacedId)
  BY <1>1, RemoveType
<1> HIDE DEF ws
<1>4. released \in Seq(PlacedId)
  BY <1>3
<1> HIDE DEF released
<1>5. ASSUME NEW r \in woken PROVE r \in Slot /\ tasks[r].affinity # {}
  <2>1. PICK i \in DOMAIN released : r = released[i].slot
    OBVIOUS
  <2>2. released[i] \in PlacedId
    BY <1>4
  <2> QED BY <2>1, <2>2, PlacedIds
<1> HIDE DEF woken
<1>6. ASSUME NEW c \in Cpu PROVE Left(c) \o To(c) \in Seq(PlacedId)
  <2>1. Left(c) \in Seq(PlacedId)
    BY <1>1, RemoveType
  <2> DEFINE I == {i \in DOMAIN released : Target(released[i]) = c}
  <2>2. I \in SUBSET DOMAIN released
    OBVIOUS
  <2> HIDE DEF I
  <2>3. Pick(released, I) \in Seq(PlacedId)
    BY <1>4, <2>2, PickType
  <2>4. To(c) \in Seq(PlacedId)
    BY <2>3, Zenon DEF I
  <2> HIDE DEF Left, To
  <2> QED BY <2>1, <2>4
<1> HIDE DEF Left, To
<1>7. ASSUME NEW r \in Slot
      PROVE  /\ ts[r] \in TaskType
             /\ tasks[r].affinity # {} => ts[r].affinity # {}
             /\ ts[r].bypass_count <= tasks[r].bypass_count
  <2>1. tasks[r] \in TaskType /\ tasks[r].bypass_count \in Nat
    BY <1>1 DEF TaskType
  <2>2. CASE r = s
    <3>1. ts[r] = DeadTask(tasks[r])
      BY <2>2
    <3> HIDE DEF ts
    <3> QED BY <2>1, <3>1, DeadTaskRecord
  <2>3. CASE r # s /\ r \in woken
    <3> DEFINE c == SelectAllowedCpu(tasks[r].affinity)
    <3>1. ts[r] = Woken(tasks[r], c, "OwnerGone")
      BY <2>3
    <3>2. tasks[r].affinity \in SUBSET Cpu /\ tasks[r].affinity # {}
      BY <1>5, <2>1, <2>3 DEF TaskType
    <3>3. c \in Cpu
      BY <3>2, AllowedCpu
    <3>4. "OwnerGone" \in EventReason \cup LockReason
      BY DEF LockReason
    <3> HIDE DEF ts, c
    <3> QED BY <2>1, <3>1, <3>3, <3>4, WokenRecord
  <2>4. CASE r # s /\ r \notin woken
    BY <2>1, <2>4
  <2> QED BY <2>2, <2>3, <2>4
<1>8. ts \in [Slot -> TaskType]
  <2>1. ts = [r \in Slot |-> ts[r]]
    OBVIOUS
  <2> HIDE DEF ts
  <2> QED BY <1>7, <2>1
<1> HIDE DEF ts
<1>9. Calm(ts)
  BY <1>7, <1>8 DEF Calm
<1>10. /\ mutex_owner' \in TaskId \cup {NoTask} /\ mutex_waiters' \in Seq(PlacedId)
       /\ donation' \in [Slot -> 0..MAX_PRIORITY]
  BY <1>1, <1>2, <1>3 DEF MAX_PRIORITY
<1>11. Calm(tasks')
  BY <1>2, <1>9, <1>10, RecomputeCalm, ZenonT(40)
<1>12. current' \in [Cpu -> PlacedId \cup {NoTask}]
  BY <1>1, <1>2
<1>13. queues' \in [Cpu -> Seq(PlacedId)]
  BY <1>2, <1>6
<1> QED BY <1>10, <1>11, <1>12, <1>13 DEF Rest

-----------------------------------------------------------------------------
\* dispatch: the selected task has never been passed over less than a task that
\* is now passed over once more.
LEMMA DispatchStep ==
  ASSUME TypeOK, NEW c \in Cpu, Dispatch(c)
  PROVE  /\ tasks' \in [Slot -> TaskType] /\ Rest
         /\ \A s \in Slot : tasks[s].affinity # {} => tasks'[s].affinity # {}
         /\ \E x \in Slot :
              /\ tasks'[x].bypass_count = 0
              /\ \A s \in Slot \ {x} :
                   \/ tasks'[s].bypass_count = tasks[s].bypass_count
                   \/ /\ tasks'[s].bypass_count = tasks[s].bypass_count + 1
                      /\ tasks[s].bypass_count <= tasks[x].bypass_count
<1>1. /\ tasks \in [Slot -> TaskType] /\ queues \in [Cpu -> Seq(PlacedId)]
      /\ current \in [Cpu -> PlacedId \cup {NoTask}] /\ mutex_owner \in TaskId \cup {NoTask}
      /\ mutex_waiters \in Seq(PlacedId) /\ donation \in [Slot -> 0..MAX_PRIORITY]
  BY DEF TypeOK
<1> DEFINE q == queues[c]
           Bypassed(i) == {s \in Slot :
              /\ tasks[s].effective_priority = tasks[q[i].slot].effective_priority
              /\ \E j \in DOMAIN q \ {i} : q[j].slot = s}
           Run(t) == [t EXCEPT !.state = "Running", !.queued_cpu = NoCpu,
                               !.assigned_cpu = c, !.bypass_count = 0]
           Pass(t) == [t EXCEPT !.bypass_count = @ + 1]
<1>2. PICK i \in DOMAIN q :
        /\ IsPick(q, i)
        /\ queues' = [queues EXCEPT ![c] = RemoveAt(q, i)]
        /\ current' = [current EXCEPT ![c] = q[i]]
        /\ tasks' = [s \in Slot |->
              IF s = q[i].slot THEN Run(tasks[s])
              ELSE IF s \in Bypassed(i) THEN Pass(tasks[s]) ELSE tasks[s]]
  BY ZenonT(40) DEF Dispatch
<1>3. q \in Seq(PlacedId) /\ DOMAIN q = 1..Len(q)
  BY <1>1
<1>4. \A j \in DOMAIN q : q[j] \in PlacedId /\ q[j].slot \in Slot
  <2>1. \A j \in DOMAIN q : q[j] \in PlacedId
    BY <1>3
  <2> HIDE DEF q
  <2> QED BY <2>1, PlacedIds
<1>5. RemoveAt(q, i) \in Seq(PlacedId)
  BY <1>3, RemoveAtType
<1> HIDE DEF q
<1> DEFINE x == q[i].slot
<1>6. x \in Slot /\ q[i] \in PlacedId
  BY <1>4
<1>7. \A t \in TaskType : /\ Run(t) \in TaskType /\ Run(t).affinity = t.affinity
                          /\ Run(t).bypass_count = 0
                          /\ Pass(t) \in TaskType /\ Pass(t).affinity = t.affinity
                          /\ Pass(t).bypass_count = t.bypass_count + 1
  <2> TAKE t \in TaskType
  <2>1. Run(t) \in TaskType /\ Run(t).affinity = t.affinity /\ Run(t).bypass_count = 0
    BY ZenonT(40) DEF TaskType
  <2>2. /\ Pass(t) \in TaskType /\ Pass(t).affinity = t.affinity
        /\ Pass(t).bypass_count = t.bypass_count + 1
    BY DEF TaskType
  <2> QED BY <2>1, <2>2
<1> HIDE DEF Run, Pass, Bypassed
<1>8. tasks' \in [Slot -> TaskType]
  BY <1>1, <1>2, <1>7
<1>9. \A s \in Slot : tasks'[s].affinity = tasks[s].affinity
  BY <1>1, <1>2, <1>7
<1>10. tasks'[x].bypass_count = 0
  BY <1>1, <1>2, <1>6, <1>7
<1>11. ASSUME NEW s \in Slot \ {x}
       PROVE  \/ tasks'[s].bypass_count = tasks[s].bypass_count
              \/ /\ tasks'[s].bypass_count = tasks[s].bypass_count + 1
                 /\ tasks[s].bypass_count <= tasks[x].bypass_count
  <2>1. CASE s \notin Bypassed(i)
    BY <1>2, <2>1
  <2>2. CASE s \in Bypassed(i)
    <3>1. PICK j \in DOMAIN q \ {i} : q[j].slot = s
      BY <2>2 DEF Bypassed
    <3>2. tasks[s].effective_priority = tasks[x].effective_priority
      BY <2>2 DEF Bypassed
    <3>3. ~Before(tasks[s], tasks[x])
      BY <1>2, <3>1 DEF IsPick
    <3>4. tasks[s].bypass_count \in Nat /\ tasks[x].bypass_count \in Nat
      BY <1>1, <1>6 DEF TaskType
    <3>5. tasks[s].bypass_count <= tasks[x].bypass_count
      BY <3>2, <3>3, <3>4 DEF Before
    <3>6. tasks'[s].bypass_count = tasks[s].bypass_count + 1
      BY <1>1, <1>2, <1>7, <2>2
    <3> QED BY <3>5, <3>6
  <2> QED BY <2>1, <2>2
<1>12. Rest
  <2>1. queues' \in [Cpu -> Seq(PlacedId)]
    BY <1>1, <1>2, <1>5
  <2>2. current' \in [Cpu -> PlacedId \cup {NoTask}]
    BY <1>1, <1>2, <1>6
  <2> QED BY <1>1, <2>1, <2>2, ZenonT(40) DEF Rest, Dispatch, mutexVars
<1> HIDE DEF x
<1> QED BY <1>6, <1>8, <1>9, <1>10, <1>11, <1>12

-----------------------------------------------------------------------------
(* The owner of the mutex *)

\* The owner of the mutex has no donation above its own base priority.
OwnerUndonated ==
    mutex_owner # NoTask =>
      donation[mutex_owner.slot] <= tasks[mutex_owner.slot].base_priority

\* Below the base priority a donation does not show in the maximum.
LEMMA MaxWithout ==
  ASSUME Minima, NEW p \in 1..31, NEW q \in 0..31, q <= p, NEW I \in SUBSET (0..31)
  PROVE  Max({p, q} \cup I) = Max({p} \cup I)
<1> DEFINE A == {p, q} \cup I
           B == {p} \cup I
<1>1. /\ A \in SUBSET Nat /\ p \in A /\ \A x \in A : x <= 31
      /\ B \in SUBSET Nat /\ p \in B /\ \A x \in B : x <= 31
  OBVIOUS
<1>2. \A x \in A : x \in B \/ x = q
  OBVIOUS
<1>3. B \subseteq A
  OBVIOUS
<1> HIDE DEF A, B
<1>4. Max(A) \in A /\ \A y \in A : y <= Max(A)
  BY <1>1, MaxExists, Zenon
<1>5. Max(B) \in B /\ \A y \in B : y <= Max(B)
  BY <1>1, MaxExists, Zenon
<1> DEFINE a == Max(A)
           b == Max(B)
<1>6. a \in Nat /\ b \in Nat /\ b <= a
  BY <1>1, <1>3, <1>4, <1>5, Zenon
<1>7. a <= b
  <2>1. CASE a \in B
    BY <1>5, <2>1
  <2>2. CASE a = q
    BY <1>1, <1>5, <1>6, <2>2
  <2> QED BY <1>2, <1>4, <2>1, <2>2
<1>8. a = b
  BY <1>6, <1>7
<1> QED BY <1>8 DEF A, B

\* Without such a donation the owner has the priority validate() asks for.
LEMMA InvOwner ==
  ASSUME Minima, SchedulerInv, OwnerUndonated
  PROVE  OwnerPriority
<1> SUFFICES ASSUME mutex_owner # NoTask
             PROVE  tasks[mutex_owner.slot].effective_priority =
                      Max({tasks[mutex_owner.slot].base_priority} \cup
                          {tasks[mutex_waiters[i].slot].base_priority : i \in DOMAIN mutex_waiters})
  BY DEF OwnerPriority
<1> DEFINE s == mutex_owner.slot
           I == {tasks[mutex_waiters[i].slot].base_priority : i \in DOMAIN mutex_waiters}
<1>1. /\ tasks \in [Slot -> TaskType] /\ mutex_waiters \in Seq(PlacedId)
      /\ mutex_owner \in TaskId \cup {NoTask} /\ donation \in [Slot -> 0..MAX_PRIORITY]
  BY Zenon DEF SchedulerInv, TypeOK
<1>2. s \in Slot /\ tasks[s].state \notin {"Dormant", "Dead"}
  BY <1>1 DEF SchedulerInv, OwnerOk, TaskId
<1>3. tasks[s].generation # 0
  BY <1>2 DEF SchedulerInv, RecordsOk, RecordOk
<1>4. tasks[s].base_priority \in 1..31 /\ donation[s] \in 0..31
  BY <1>1, <1>2 DEF TaskType, MIN_PRIORITY, MAX_PRIORITY
<1>5. I \in SUBSET (0..31)
  <2>1. ASSUME NEW i \in DOMAIN mutex_waiters
        PROVE  tasks[mutex_waiters[i].slot].base_priority \in 0..31
    <3>1. mutex_waiters[i] \in TaskId
      BY <1>1 DEF PlacedId
    <3>2. tasks[mutex_waiters[i].slot] \in TaskType
      BY <1>1, <3>1 DEF TaskId
    <3> QED BY <3>2 DEF TaskType, MIN_PRIORITY, MAX_PRIORITY
  <2> QED BY <2>1
<1>6. InheritedBy(tasks, mutex_owner, mutex_waiters, s) = I
  BY DEF InheritedBy
<1>7. donation[s] <= tasks[s].base_priority
  BY DEF OwnerUndonated
<1> HIDE DEF s, I
<1>8. tasks[s].effective_priority = Max({tasks[s].base_priority, donation[s]} \cup I)
  BY <1>2, <1>3, <1>6, Zenon DEF SchedulerInv, Exact
<1>9. tasks[s].effective_priority = Max({tasks[s].base_priority} \cup I)
  BY <1>4, <1>5, <1>7, <1>8, MaxWithout, Zenon
<1> QED BY <1>9, Zenon DEF s, I

-----------------------------------------------------------------------------
(* Minima and positions *)

INSTANCE FiniteSetTheorems

\* A non-empty set of naturals has the minimum Min chooses.
LEMMA LeastNat ==
  ASSUME NEW S \in SUBSET Nat, S # {}
  PROVE  Min(S) \in S /\ \A y \in S : Min(S) <= y
<1>1. PICK x \in S : \A y \in S : ~(<<y, x>> \in OpToRel(<, Nat))
  BY WFMin, NatLessThanWellFounded, ZenonT(40)
<1>2. \A y \in S : x <= y
  <2> TAKE y \in S
  <2>1. x \in Nat /\ y \in Nat
    OBVIOUS
  <2>2. ~(y < x)
    BY <1>1, <2>1, ZenonT(40) DEF OpToRel
  <2> QED BY <2>1, <2>2
<1> QED BY <1>2, ZenonT(40) DEF Min

\* Minima holds.
LEMMA MinimaHold == Minima
BY LeastNat, Zenon DEF Minima

\* The k-th element of a finite set of positions exists.
LEMMA RankExists ==
  ASSUME NEW n \in Nat, NEW I \in SUBSET (1..n), NEW k \in 1..Cardinality(I)
  PROVE  \E i \in I : Cardinality({j \in I : j <= i}) = k
<1> DEFINE Below(i) == {j \in I : j <= i}
           H == {i \in I : Cardinality(Below(i)) >= k}
<1>1. IsFiniteSet(I) /\ Cardinality(I) \in Nat
  <2>1. IsFiniteSet(1..n)
    BY FS_Interval
  <2> QED BY <2>1, FS_Subset, FS_CardinalityType, ZenonT(40)
<1>2. ASSUME NEW i PROVE IsFiniteSet(Below(i)) /\ Cardinality(Below(i)) \in Nat
  <2>1. Below(i) \in SUBSET I
    OBVIOUS
  <2> QED BY <1>1, <2>1, FS_Subset, FS_CardinalityType
<1>3. H # {}
  <2>1. I # {}
    BY <1>1, FS_EmptySet
  <2>2. I \in SUBSET Nat /\ \A x \in I : x <= n
    OBVIOUS
  <2>3. Max(I) \in I /\ \A y \in I : y <= Max(I)
    BY <2>1, <2>2, MinimaHold, MaxExists
  <2>4. Below(Max(I)) = I
    BY <2>3, ZenonT(40)
  <2>5. Cardinality(Below(Max(I))) >= k
    BY <1>1, <2>4
  <2> QED BY <2>3, <2>5
<1>4. H \in SUBSET I
  OBVIOUS
<1>5. I \in SUBSET Nat
  OBVIOUS
<1> HIDE DEF H
<1>6. Min(H) \in H /\ \A y \in H : Min(H) <= y
  BY <1>3, <1>4, <1>5, LeastNat
<1> DEFINE i == Min(H)
           L == Below(i) \ {i}
<1> HIDE DEF i
<1>7. i \in I /\ i \in Nat
  BY <1>4, <1>5, <1>6, ZenonT(40) DEF i
<1>8. i \in Below(i)
  BY <1>7
<1>9. Cardinality(Below(i)) >= k
  BY <1>6 DEF H, i
<1> HIDE DEF Below
<1>10. IsFiniteSet(L) /\ Cardinality(L) = Cardinality(Below(i)) - 1
  BY <1>2, <1>8, FS_RemoveElement
<1>11. SUFFICES ASSUME Cardinality(Below(i)) > k PROVE FALSE
  BY <1>2, <1>7, <1>9 DEF Below
<1>12. Cardinality(L) >= k
  BY <1>2, <1>10, <1>11
<1>13. L # {}
  BY <1>10, <1>12, FS_EmptySet
<1>14. L \in SUBSET Nat
  BY <1>5, ZenonT(40) DEF Below
<1>15. \A x \in L : x <= n
  BY DEF Below
<1>16. Max(L) \in L /\ \A y \in L : y <= Max(L)
  BY <1>13, <1>14, <1>15, MinimaHold, MaxExists, ZenonT(40)
<1> DEFINE m == Max(L)
<1> HIDE DEF m
<1>17. m \in I /\ m < i
  <2>1. m \in Below(i) /\ m # i
    BY <1>16 DEF m
  <2>2. m \in I /\ m <= i
    BY <2>1 DEF Below
  <2> QED BY <1>5, <1>7, <2>1, <2>2
<1>18. Below(m) = L
  <2>1. ASSUME NEW j \in Below(m) PROVE j \in L
    BY <1>5, <1>7, <1>17 DEF Below
  <2>2. ASSUME NEW j \in L PROVE j \in Below(m)
    BY <1>16 DEF Below, m
  <2> QED BY <2>1, <2>2
<1>19. m \in H
  BY <1>12, <1>17, <1>18 DEF H
<1>20. i <= m
  BY <1>6, <1>19 DEF i
<1> QED BY <1>5, <1>7, <1>17, <1>20

\* The entries of a sequence at a set of positions form such a sequence.
LEMMA PickedType ==
  ASSUME NEW S, NEW ws \in Seq(S), NEW I \in SUBSET DOMAIN ws
  PROVE  Pick(ws, I) \in Seq(S)
<1>1. DOMAIN ws = 1..Len(ws) /\ Len(ws) \in Nat
  OBVIOUS
<1>2. Cardinality(I) \in Nat
  <2>1. IsFiniteSet(1..Len(ws))
    BY <1>1, FS_Interval
  <2> QED BY <1>1, <2>1, FS_Subset, FS_CardinalityType
<1> DEFINE At(k) == CHOOSE i \in I : Cardinality({j \in I : j <= i}) = k
<1>3. ASSUME NEW k \in 1..Cardinality(I) PROVE ws[At(k)] \in S
  <2>1. \E i \in I : Cardinality({j \in I : j <= i}) = k
    BY <1>1, RankExists, ZenonT(40)
  <2>2. At(k) \in I
    BY <2>1, ZenonT(40)
  <2> QED BY <1>1, <2>2
<1>4. Pick(ws, I) = [k \in 1..Cardinality(I) |-> ws[At(k)]]
  BY DEF Pick
<1> HIDE DEF At
<1>5. Pick(ws, I) \in [1..Cardinality(I) -> S]
  BY <1>3, <1>4
<1> QED BY <1>2, <1>5

\* Pick keeps the entries at the positions it is given, each once.
LEMMA PickedOnce ==
  ASSUME NEW ws \in Seq(TaskId), Once(ws), NEW I \in SUBSET (1..Len(ws))
  PROVE  Lists(Pick(ws, I), {ws[i] : i \in I})
<1> DEFINE n == Len(ws)
           Below(i) == {j \in I : j <= i}
           Rank(i) == Cardinality(Below(i))
           At(k) == CHOOSE i \in I : Rank(i) = k
           N == Cardinality(I)
           p == Pick(ws, I)
<1>0. n \in Nat
  OBVIOUS
<1>1. IsFiniteSet(I) /\ N \in Nat
  <2>1. IsFiniteSet(1..n)
    BY <1>0, FS_Interval
  <2> QED BY <2>1, FS_Subset, FS_CardinalityType, Zenon
<1>2. ASSUME NEW i \in I PROVE /\ IsFiniteSet(Below(i)) /\ Rank(i) \in 1..N
  <2>1. Below(i) \in SUBSET I /\ i \in Below(i)
    OBVIOUS
  <2> HIDE DEF Below
  <2>2. IsFiniteSet(Below(i)) /\ Rank(i) <= N /\ Rank(i) \in Nat
    BY <1>1, <2>1, FS_Subset, FS_CardinalityType, Zenon
  <2>3. Rank(i) # 0
    BY <2>1, <2>2, FS_EmptySet
  <2> QED BY <1>1, <2>2, <2>3
<1>3. ASSUME NEW i \in I, NEW j \in I, i < j PROVE Rank(i) # Rank(j)
  <2>0. I \in SUBSET Nat /\ i \in Nat /\ j \in Nat
    OBVIOUS
  <2>1. Below(i) \in SUBSET Below(j) /\ j \in Below(j) /\ j \notin Below(i)
    <3>1. \A k \in I : k <= i => k <= j
      BY <1>3, <2>0
    <3>2. j <= j /\ ~(j <= i)
      BY <1>3, <2>0
    <3> QED BY <3>1, <3>2, Zenon
  <2>2. IsFiniteSet(Below(j)) /\ IsFiniteSet(Below(i))
    BY <1>2, Zenon
  <2> HIDE DEF Below
  <2> QED BY <2>1, <2>2, FS_Subset, Zenon
<1>4. ASSUME NEW i \in I, NEW j \in I, Rank(i) = Rank(j) PROVE i = j
  <2>1. i \in Nat /\ j \in Nat
    OBVIOUS
  <2>2. ~(i < j) /\ ~(j < i)
    BY <1>3, <1>4, Zenon
  <2> QED BY <2>1, <2>2
<1>5. ASSUME NEW k \in 1..N PROVE At(k) \in I /\ Rank(At(k)) = k
  <2>1. \E i \in I : Rank(i) = k
    BY <1>0, RankExists, Zenon
  <2> HIDE DEF Rank
  <2> QED BY <2>1, Zenon
<1>6. p = [k \in 1..N |-> ws[At(k)]]
  BY Zenon DEF Pick
<1> HIDE DEF At, Rank, N, p
<1>7. Len(p) = N /\ \A k \in 1..N : p[k] = ws[At(k)]
  BY <1>1, <1>6
<1>8. \A i, j \in I : ws[i] = ws[j] => i = j
  BY DEF Once
<1>9. ASSUME NEW k \in 1..N, NEW l \in 1..N, p[k] = p[l] PROVE k = l
  <2>1. ws[At(k)] = ws[At(l)]
    BY <1>7, <1>9, Zenon
  <2>2. At(k) = At(l)
    BY <1>5, <1>8, <2>1, Zenon
  <2> QED BY <1>5, <2>2, Zenon
<1>10. ASSUME NEW x PROVE (\E k \in 1..N : p[k] = x) <=> x \in {ws[i] : i \in I}
  <2>1. ASSUME NEW k \in 1..N, p[k] = x PROVE x \in {ws[i] : i \in I}
    BY <1>5, <1>7, <2>1, Zenon
  <2>2. ASSUME NEW i \in I, x = ws[i] PROVE \E k \in 1..N : p[k] = x
    <3>1. Rank(i) \in 1..N
      BY <1>2, Zenon
    <3>2. At(Rank(i)) = i
      BY <1>4, <1>5, <3>1, Zenon
    <3> QED BY <1>7, <2>2, <3>1, <3>2, Zenon
  <2> QED BY <2>1, <2>2, Zenon
<1>11. Lists(p, {ws[i] : i \in I})
  BY <1>7, <1>9, <1>10, Zenon DEF Lists, In, Once
<1> QED BY <1>11 DEF p

\* Picking holds.
LEMMA PickingHolds == Picking
BY PickedType, PickedOnce, Zenon DEF Picking

-----------------------------------------------------------------------------
(* Invariants *)

\* What a step does to the bypass counts: none of them rises, or one task is
\* selected and the tasks passed over had counts no greater than its own.
LEMMA StepShape ==
  ASSUME TypeOK, [Next]_vars
  PROVE  /\ TypeOK'
         /\ \/ \A s \in Slot : tasks'[s].bypass_count <= tasks[s].bypass_count
            \/ \E x \in Slot :
                 /\ tasks'[x].bypass_count = 0
                 /\ \A s \in Slot \ {x} :
                      \/ tasks'[s].bypass_count = tasks[s].bypass_count
                      \/ /\ tasks'[s].bypass_count = tasks[s].bypass_count + 1
                         /\ tasks[s].bypass_count <= tasks[x].bypass_count
<1>1. CASE Calm(tasks') /\ Rest
  <2>1. tasks' \in [Slot -> TaskType]
    BY <1>1 DEF Calm
  <2>2. \A s \in Slot : tasks[s].affinity # {} => tasks'[s].affinity # {}
    BY <1>1 DEF Calm
  <2>3. TypeOK'
    BY <1>1, <2>1, <2>2, RestType
  <2>4. \A s \in Slot : tasks'[s].bypass_count <= tasks[s].bypass_count
    BY <1>1 DEF Calm
  <2> QED BY <2>3, <2>4
<1>2. ASSUME NEW c \in Cpu, Dispatch(c)
      PROVE  /\ TypeOK'
             /\ \E x \in Slot :
                 /\ tasks'[x].bypass_count = 0
                 /\ \A s \in Slot \ {x} :
                      \/ tasks'[s].bypass_count = tasks[s].bypass_count
                      \/ /\ tasks'[s].bypass_count = tasks[s].bypass_count + 1
                         /\ tasks[s].bypass_count <= tasks[x].bypass_count
  BY <1>2, DispatchStep, RestType
<1>3. CASE UNCHANGED vars
  <2>1. Calm(tasks')
    BY <1>3 DEF TypeOK, TaskType, Calm, vars
  <2>2. Rest
    BY <1>3 DEF TypeOK, Rest, vars
  <2> QED BY <1>1, <2>1, <2>2
<1>4. ASSUME NEW s \in Slot, TaskStep(s) PROVE Calm(tasks') /\ Rest
  BY <1>4, MinimaHold, PickingHolds, TaskCalm, TeardownCalm
<1>5. ASSUME NEW c \in Cpu, CpuStep(c), ~Dispatch(c) PROVE Calm(tasks') /\ Rest
  BY <1>5, MinimaHold, CpuCalm DEF CpuStep
<1> QED BY <1>1, <1>2, <1>3, <1>4, <1>5 DEF Next

\* The number of tasks passed over k times or more never exceeds
\* MAX_TASKS - k: a step that raises a task to k leaves the selected task,
\* which had k - 1 or more, at zero.
LEMMA RankStep ==
  ASSUME TypeOK, BypassRank, [Next]_vars
  PROVE  BypassRank'
<1> DEFINE N == Cardinality(Slot)
           S(k) == {s \in Slot : tasks[s].bypass_count >= k}
           Z(k) == {s \in Slot : tasks'[s].bypass_count >= k}
<1>1. IsFiniteSet(Slot) /\ N \in Nat
  BY SlotAssumption, FS_CardinalityType
<1>2. ASSUME NEW k PROVE /\ IsFiniteSet(S(k)) /\ IsFiniteSet(Z(k))
                         /\ Cardinality(S(k)) \in Nat /\ Cardinality(Z(k)) \in Nat
  <2>1. S(k) \in SUBSET Slot /\ Z(k) \in SUBSET Slot
    OBVIOUS
  <2> HIDE DEF S, Z
  <2> QED BY <1>1, <2>1, FS_Subset, FS_CardinalityType
<1>3. \A k \in 1..N : Cardinality(S(k)) <= N - k
  BY DEF BypassRank, BypassedAtLeast
<1>4. TypeOK'
  BY StepShape
<1>5. /\ \A s \in Slot : tasks[s].bypass_count \in Nat
      /\ \A s \in Slot : tasks'[s].bypass_count \in Nat
  BY <1>4 DEF TypeOK, TaskType
<1>6. SUFFICES ASSUME NEW k \in 1..N PROVE Cardinality(Z(k)) <= N - k
  BY DEF BypassRank, BypassedAtLeast
<1>7. CASE Z(k) \subseteq S(k)
  <2>1. Cardinality(Z(k)) <= Cardinality(S(k))
    BY <1>2, <1>7, FS_Subset
  <2> HIDE DEF S, Z
  <2> QED BY <1>1, <1>2, <1>3, <2>1
<1>8. CASE \A s \in Slot : tasks'[s].bypass_count <= tasks[s].bypass_count
  <2>1. Z(k) \subseteq S(k)
    BY <1>5, <1>8
  <2> QED BY <1>7, <2>1
<1>9. ASSUME NEW x \in Slot, tasks'[x].bypass_count = 0,
             \A s \in Slot \ {x} :
               \/ tasks'[s].bypass_count = tasks[s].bypass_count
               \/ /\ tasks'[s].bypass_count = tasks[s].bypass_count + 1
                  /\ tasks[s].bypass_count <= tasks[x].bypass_count
      PROVE  Cardinality(Z(k)) <= N - k
  <2>1. x \notin Z(k)
    BY <1>9
  <2>2. CASE k = 1
    <3> DEFINE D == Slot \ {x}
    <3>1. IsFiniteSet(D) /\ Cardinality(D) = N - 1
      BY <1>1, FS_RemoveElement
    <3>2. Z(k) \in SUBSET D
      BY <2>1
    <3> HIDE DEF D, Z
    <3>3. Cardinality(Z(k)) <= Cardinality(D)
      BY <3>1, <3>2, FS_Subset
    <3> QED BY <1>1, <1>2, <2>2, <3>1, <3>3
  <2>3. CASE k # 1 /\ tasks[x].bypass_count >= k - 1
    <3> DEFINE D == S(k - 1) \ {x}
    <3>1. k - 1 \in 1..N
      BY <1>1, <2>3
    <3>2. Z(k) \in SUBSET D
      BY <1>5, <1>9, <2>1
    <3>3. x \in S(k - 1)
      BY <2>3
    <3> HIDE DEF S, Z
    <3>4. IsFiniteSet(D) /\ Cardinality(D) = Cardinality(S(k - 1)) - 1
      BY <1>2, <3>3, FS_RemoveElement
    <3> HIDE DEF D
    <3>5. Cardinality(Z(k)) <= Cardinality(D)
      BY <3>2, <3>4, FS_Subset
    <3>6. Cardinality(S(k - 1)) <= N - (k - 1) /\ Cardinality(S(k - 1)) \in Nat
      BY <1>2, <1>3, <3>1
    <3> HIDE DEF N
    <3> QED BY <1>1, <1>2, <3>4, <3>5, <3>6
  <2>4. CASE k # 1 /\ ~(tasks[x].bypass_count >= k - 1)
    <3>1. ASSUME NEW s \in Z(k) PROVE s \in S(k)
      BY <1>5, <1>9, <2>1, <2>4
    <3> QED BY <1>7, <3>1
  <2> QED BY <2>2, <2>3, <2>4
<1> QED BY <1>8, <1>9, StepShape

\* No task has been passed over initially.
LEMMA RankInit ==
  ASSUME Init
  PROVE  BypassRank
<1>1. \A k \in 1..Cardinality(Slot) : BypassedAtLeast(k) = {}
  BY DEF Init, EmptyTask, BypassedAtLeast
<1>2. Cardinality(Slot) \in Nat
  BY SlotAssumption, FS_CardinalityType
<1> QED BY <1>1, <1>2, FS_EmptySet DEF BypassRank

\* The initial state is well typed.
LEMMA TypeInit ==
  ASSUME Init
  PROVE  TypeOK
<1>1. EmptyTask \in TaskType
  BY DEF EmptyTask, TaskType, MIN_PRIORITY, MAX_PRIORITY
<1>2. tasks \in [Slot -> TaskType]
  BY <1>1 DEF Init
<1>3. queues \in [Cpu -> Seq(PlacedId)] /\ mutex_waiters \in Seq(PlacedId)
  BY DEF Init
<1> QED BY <1>2, <1>3 DEF Init, TypeOK, MAX_PRIORITY

\* Every operation of the scheduler keeps the task table, queues, running
\* tasks, mutex and donations within their types, and every id in a queue, on
\* a CPU or in the wait list names a slot that has a CPU to run on, so that
\* the CPU a handoff or a teardown selects always exists.
THEOREM SchedulerTypes == Spec => []TypeOK
<1>1. TypeOK /\ [Next]_vars => TypeOK'
  BY StepShape
<1> QED BY <1>1, TypeInit, PTL DEF Spec

\* In any number of steps of any number of CPUs, at most MAX_TASKS - k tasks
\* have been passed over k times or more.
THEOREM SchedulerRank == Spec => []BypassRank
<1>1. TypeOK /\ BypassRank /\ [Next]_vars => TypeOK' /\ BypassRank'
  BY StepShape, RankStep
<1> QED BY <1>1, TypeInit, RankInit, PTL DEF Spec

\* dispatch never returns BypassOverflow, for every number of tasks, CPUs and
\* priorities.
THEOREM SchedulerBypass == Spec => []BypassBound
<1>1. TypeOK /\ BypassRank => BypassBound
  <2> SUFFICES ASSUME TypeOK, BypassRank, NEW s \in Slot
               PROVE  tasks[s].bypass_count <= MAX_BYPASS
    BY DEF BypassBound
  <2> DEFINE N == Cardinality(Slot)
             S == BypassedAtLeast(N)
  <2>1. IsFiniteSet(Slot) /\ N \in Nat /\ N # 0
    BY SlotAssumption, FS_CardinalityType, FS_EmptySet
  <2>2. S \in SUBSET Slot
    BY DEF BypassedAtLeast
  <2>3. IsFiniteSet(S) /\ Cardinality(S) \in Nat
    BY <2>1, <2>2, FS_Subset, FS_CardinalityType
  <2>4. Cardinality(S) <= N - N
    BY <2>1 DEF BypassRank
  <2>5. S = {}
    BY <2>1, <2>3, <2>4, FS_EmptySet
  <2>6. ~(tasks[s].bypass_count >= N)
    BY <2>5 DEF BypassedAtLeast
  <2>7. tasks[s].bypass_count \in Nat
    BY DEF TypeOK, TaskType
  <2> QED BY <2>1, <2>6, <2>7 DEF MAX_BYPASS
<1> QED BY <1>1, SchedulerTypes, SchedulerRank, PTL

-----------------------------------------------------------------------------
(* Placement, the wait list and priorities *)

\* Every step keeps SchedulerInv, and replaces no wake reason by another.
LEMMA InvStep ==
  ASSUME SchedulerInv, [Next]_vars
  PROVE  SchedulerInv' /\ Progress
<1>1. TypeOK'
  BY StepShape DEF SchedulerInv
<1>2. CASE UNCHANGED vars
  BY <1>2, StutterInv, Zenon
<1>3. ASSUME NEW s \in Slot, TaskStep(s) PROVE SchedulerInv' /\ Progress
  <2>1. ASSUME NEW g \in 1..MaxGeneration, NEW p \in Priority, NEW a \in Affinity,
               CreateTask(s, g, p, a)
        PROVE  SchedulerInv' /\ Progress
    BY <1>1, <2>1, CreateInv, Zenon
  <2>2. ASSUME NEW c \in Cpu, Activate(s, c) PROVE SchedulerInv' /\ Progress
    BY <1>1, <2>2, ActivateInv, Zenon
  <2>3. ASSUME NEW c \in Cpu, NEW r \in Reason, Wake(s, c, r) PROVE SchedulerInv' /\ Progress
    <3>1. WakeKind(s, c, r, "Event") /\ "Event" # "Mutex"
      BY <2>3 DEF Wake
    <3> QED BY <1>1, <3>1, WakeInv, Zenon
  <2>4. ASSUME NEW c \in Cpu, NEW r \in Reason, WakeLockWaiter(s, c, r)
        PROVE  SchedulerInv' /\ Progress
    <3>1. WakeKind(s, c, r, "ExternalLock") /\ "ExternalLock" # "Mutex"
      BY <2>4 DEF WakeLockWaiter
    <3> QED BY <1>1, <3>1, WakeInv, Zenon
  <2>5. ASSUME NEW c \in Cpu, Migrate(s, c) PROVE SchedulerInv' /\ Progress
    BY <1>1, <2>5, MigrateInv, Zenon
  <2>6. ASSUME NEW p \in Priority, SetPriority(s, p) PROVE SchedulerInv' /\ Progress
    BY <1>1, <2>6, SetPriorityInv, Zenon
  <2>7. ASSUME \/ \E p \in Donation : DonatePriority(s, p)
               \/ RevokePriorityDonation(s)
        PROVE  SchedulerInv' /\ Progress
    BY <1>1, <2>7, DonationInv, Zenon
  <2>8. ASSUME Teardown(s) PROVE SchedulerInv' /\ Progress
    BY <1>1, <2>8, MinimaHold, PickingHolds, TeardownInv, Zenon
  <2> QED BY <1>3, <2>1, <2>2, <2>3, <2>4, <2>5, <2>6, <2>7, <2>8, Zenon DEF TaskStep
<1>4. ASSUME NEW c \in Cpu, CpuStep(c) PROVE SchedulerInv' /\ Progress
  <2>1. CASE Dispatch(c)
    BY <1>1, <2>1, DispatchInv, Zenon
  <2>2. CASE YieldCurrent(c)
    BY <1>1, <2>2, YieldInv, Zenon
  <2>3. ASSUME NEW kind \in {"Event", "ExternalLock"}, BlockCurrent(c, kind)
        PROVE  SchedulerInv' /\ Progress
    BY <1>1, <2>3, BlockInv, Zenon
  <2>4. CASE ConsumeWake(c)
    BY <1>1, <2>4, ConsumeInv, Zenon
  <2>5. CASE LockMutexFree(c)
    BY <1>1, <2>5, LockFreeInv, Zenon
  <2>6. CASE LockMutexBlock(c)
    BY <1>1, <2>6, LockBlockInv, Zenon
  <2>7. CASE UnlockMutexFree(c)
    BY <1>1, <2>7, UnlockFreeInv, Zenon
  <2>8. CASE UnlockMutexHandoff(c)
    BY <1>1, <2>8, MinimaHold, HandoffInv, Zenon
  <2> QED BY <1>4, <2>1, <2>2, <2>3, <2>4, <2>5, <2>6, <2>7, <2>8, Zenon DEF CpuStep
<1> QED BY <1>2, <1>3, <1>4, Zenon DEF Next

\* The run queues, the CPUs, the wait list, the task records and the priorities
\* agree in every reachable state.
THEOREM SchedulerInvariant == Spec => []SchedulerInv
<1>1. Init => SchedulerInv
  BY TypeInit, InvInit, Zenon
<1>2. SchedulerInv /\ [Next]_vars => SchedulerInv'
  BY InvStep, Zenon
<1> QED BY <1>1, <1>2, PTL DEF Spec

\* The queue and CPU part of validate() holds in every state: a runnable task
\* is in exactly one queue, once, of a CPU its affinity allows, a running task
\* is current on exactly one CPU, and nothing names an earlier generation.
THEOREM SchedulerPlacement == Spec => []PlacementOk
<1>1. SchedulerInv => PlacementOk
  BY InvPlacement
<1> QED BY <1>1, SchedulerInvariant, PTL

\* In every state the wait list holds exactly the tasks blocked on the mutex, each
\* once, a free mutex has no waiter, and the owner can run or waits for something
\* other than the mutex.  So the owner test of validate() fails only after the
\* owner itself has called block_current or block_current_for_lock.
THEOREM SchedulerWaiters == Spec => []WaitersOk
<1>1. SchedulerInv => WaitersOk
  BY InvWaiters
<1> QED BY <1>1, SchedulerInvariant, PTL

\* In every state each task has the effective priority that
\* recompute_effective_priorities would give it: no operation leaves a boost
\* behind or forgets one.
THEOREM SchedulerPriorities == Spec => []PriorityExact
<1>1. SchedulerInv => PriorityExact
  BY InvPriorities
<1> QED BY <1>1, SchedulerInvariant, PTL

\* No step replaces a wake reason that has been delivered by another one, nor
\* hands it on to a later generation of the slot.
THEOREM SchedulerWakes == Spec => WakeOnce
<1> DEFINE A == \A s \in Slot :
             tasks[s].wake_reason # "None" /\ tasks'[s].wake_reason # tasks[s].wake_reason
               => tasks'[s].wake_reason = "None" /\ tasks[s].generation = tasks'[s].generation
<1>1. SchedulerInv /\ [Next]_vars => A
  BY InvStep, Zenon DEF Progress, Reasoned
<1>2. SchedulerInv /\ [Next]_vars => [A]_vars
  BY <1>1
<1> QED BY <1>2, SchedulerInvariant, PTL DEF Spec, WakeOnce

\* The last test of validate() fails in no state but those in which the owner of
\* the mutex holds an external donation above its base priority.
THEOREM SchedulerOwner == Spec => [](OwnerUndonated => OwnerPriority)
<1>1. SchedulerInv => (OwnerUndonated => OwnerPriority)
  BY InvOwner, MinimaHold, Zenon
<1> QED BY <1>1, SchedulerInvariant, PTL
=============================================================================
