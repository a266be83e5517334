----------------------------- MODULE SmpSteps -----------------------------
(***************************************************************************)
(* The ownership protocol of SmpScheduler, for every number of slots, CPUs *)
(* and tickets.  The run queues are reduced to what they contain: a queue  *)
(* holds an id at most once, and exactly when the task's record says so.   *)
(***************************************************************************)
EXTENDS SmpScheduler, TLAPS

\* A leaf is tried with SMT, then with Zenon, then with SMT for longer.
USE SMT, Zenon, SMTT(40)

-----------------------------------------------------------------------------
(* Queues *)

In(q, e) == \E i \in 1..Len(q) : q[i] = e
Once(q) == \A i, j \in 1..Len(q) : q[i] = q[j] => i = j

\* What Append adds to a queue.
LEMMA AppendIn ==
  ASSUME NEW S, NEW q \in Seq(S), NEW e \in S
  PROVE  /\ Append(q, e) \in Seq(S)
         /\ \A x : In(Append(q, e), x) <=> In(q, x) \/ x = e
         /\ Once(q) /\ ~In(q, e) => Once(Append(q, e))
<1> DEFINE r == Append(q, e)
           n == Len(q)
<1>1. /\ r \in Seq(S) /\ Len(r) = n + 1 /\ n \in Nat
      /\ \A i \in 1..n : r[i] = q[i]
      /\ r[n + 1] = e
  OBVIOUS
<1> HIDE DEF r, n
<1>2. ASSUME NEW x PROVE In(r, x) <=> In(q, x) \/ x = e
  <2>1. 1..Len(r) = 1..n \cup {n + 1}
    BY <1>1
  <2> QED BY <1>1, <2>1 DEF In, n
<1>3. ASSUME Once(q), ~In(q, e) PROVE Once(r)
  <2> SUFFICES ASSUME NEW i \in 1..n + 1, NEW j \in 1..n + 1, r[i] = r[j] PROVE i = j
    BY <1>1 DEF Once
  <2> QED BY <1>1, <1>3 DEF Once, In, n
<1> QED BY <1>1, <1>2, <1>3 DEF r

\* Taking one entry out of a queue that holds every id once removes that id.
LEMMA RemoveAtOut ==
  ASSUME NEW S, NEW q \in Seq(S), Once(q), NEW k \in 1..Len(q)
  PROVE  /\ RemoveAt(q, k) \in Seq(S)
         /\ \A x : In(RemoveAt(q, k), x) <=> In(q, x) /\ x # q[k]
         /\ Once(RemoveAt(q, k))
<1> DEFINE n == Len(q)
           r == RemoveAt(q, k)
           At(m) == IF m < k THEN m ELSE m + 1
<1>0. n \in Nat /\ k \in 1..n /\ DOMAIN q = 1..n /\ \A i \in 1..n : q[i] \in S
  OBVIOUS
<1>1. ASSUME NEW m \in 1..n - 1 PROVE At(m) \in 1..n /\ At(m) # k
  BY <1>0
<1>2. r = [m \in 1..n - 1 |-> q[At(m)]]
  BY <1>0 DEF RemoveAt
<1> HIDE DEF At, r, n
<1>3. r \in Seq(S) /\ Len(r) = n - 1 /\ \A m \in 1..n - 1 : r[m] = q[At(m)]
  BY <1>0, <1>1, <1>2
<1>4. \A i, j \in 1..n : q[i] = q[j] => i = j
  BY DEF Once, n
<1>5. ASSUME NEW x PROVE In(r, x) <=> In(q, x) /\ x # q[k]
  <2>1. ASSUME In(r, x) PROVE In(q, x) /\ x # q[k]
    BY <1>0, <1>1, <1>3, <1>4, <2>1 DEF In, n
  <2>2. ASSUME In(q, x), x # q[k] PROVE In(r, x)
    <3>1. PICK i \in 1..n : q[i] = x
      BY <2>2 DEF In, n
    <3>2. \E m \in 1..n - 1 : At(m) = i
      <4>1. CASE i < k
        BY <1>0, <4>1 DEF At
      <4>2. CASE i > k
        <5>1. i - 1 \in 1..n - 1 /\ At(i - 1) = i
          BY <1>0, <4>2 DEF At
        <5> QED BY <5>1
      <4> QED BY <1>0, <2>2, <3>1, <4>1, <4>2
    <3> QED BY <1>3, <3>1, <3>2 DEF In
  <2> QED BY <2>1, <2>2
<1>6. Once(r)
  <2> SUFFICES ASSUME NEW i \in 1..n - 1, NEW j \in 1..n - 1, r[i] = r[j] PROVE i = j
    BY <1>3 DEF Once
  <2>1. At(i) = At(j)
    BY <1>1, <1>3, <1>4
  <2> QED BY <1>0, <2>1 DEF At
<1> QED BY <1>3, <1>5, <1>6 DEF r

\* Remove takes out the entry of the id it is given.
LEMMA RemoveIsAt ==
  ASSUME NEW S, NEW q \in Seq(S), NEW e, In(q, e), Once(q)
  PROVE  \E k \in 1..Len(q) : q[k] = e /\ Remove(q, e) = RemoveAt(q, k)
<1> DEFINE P(i) == q[i] = e /\ \A j \in 1..i - 1 : q[j] # e
<1>1. PICK k \in 1..Len(q) : q[k] = e
  BY DEF In
<1>2. DOMAIN q = 1..Len(q) /\ Len(q) \in Nat
  OBVIOUS
<1>3. P(k)
  BY <1>1, <1>2 DEF Once
<1>4. (CHOOSE i \in DOMAIN q : P(i)) = k
  BY <1>1, <1>2, <1>3 DEF Once
<1> QED BY <1>1, <1>4, Zenon DEF Remove

-----------------------------------------------------------------------------
(* The inductive invariant *)

Ready(ts, id, c) ==
    /\ id.generation = ts[id.slot].generation
    /\ ts[id.slot].state = "Runnable" /\ ts[id.slot].queued_cpu = c

Runs(ts, id, c) ==
    /\ id.generation = ts[id.slot].generation
    /\ ts[id.slot].state = "Running" /\ ts[id.slot].owner_cpu = c

\* The queues hold the tasks that are runnable, each once, and nothing else.
Queued(ts, qs) ==
    \A c \in Cpu : Once(qs[c]) /\ \A id \in TaskId : In(qs[c], id) <=> Ready(ts, id, c)

\* The CPUs run the tasks that are running, and nothing else.
OnCpu(ts, cur) == \A c \in Cpu, id \in TaskId : cur[c] = id <=> Runs(ts, id, c)

\* The fields of one record agree with its state.
RecordOk(t, on) ==
    /\ t.state # "Dormant" => t.generation # 0 /\ t.owner_epoch # 0
    /\ t.state = "Dormant" => t.owner_epoch = 0
    /\ t.state = "Runnable" => t.queued_cpu = t.owner_cpu
    /\ t.state # "Runnable" => t.queued_cpu = NoCpu
    /\ t.state \in {"Dormant", "Dead"} => t.owner_cpu = NoCpu
    /\ t.state \notin {"Dormant", "Dead"} => t.owner_cpu \in Cpu
    /\ t.state \in {"Runnable", "Running", "Transfer"} =>
         t.owner_cpu \in on /\ t.owner_cpu \in t.affinity

\* The pending ticket k still describes its task.
TicketOk(k, ts, cur, on) ==
    LET t == ts[k.task.slot] IN
      /\ k.task.generation = t.generation /\ k.owner_epoch = t.owner_epoch
      /\ k.kind # "OfflineProbe" => k.target_cpu \in on
      /\ k.kind = "OfflineProbe" => t.state = "Runnable" /\ t.queued_cpu = k.source_cpu
      /\ k.kind = "Wake" => t.state = "Blocked" /\ k.target_cpu \in t.affinity
      /\ k.kind = "Migration" =>
           /\ t.state = "Runnable" /\ k.target_cpu \in t.affinity
           /\ t.queued_cpu = k.source_cpu /\ k.source_cpu # k.target_cpu
      /\ k.kind = "Dispatch" =>
           /\ t.state = "Transfer" /\ t.owner_cpu = k.target_cpu
           /\ cur[k.target_cpu] = NoTask
      /\ k.kind = "Preempt" => t.state = "Running" /\ cur[k.target_cpu] = k.task

\* A task in transfer is the task of the pending dispatch.
TransfersOk(k, ts) ==
    \A s \in Slot : ts[s].state = "Transfer" =>
      k # NoTicket /\ k.kind = "Dispatch" /\ k.task.slot = s

RecordsOk == \A s \in Slot : RecordOk(tasks[s], online)
PendingOk ==
    /\ pending # NoTicket => TicketOk(pending, tasks, current, online)
    /\ TransfersOk(pending, tasks)

SmpInv ==
    /\ TypeOK
    /\ Queued(tasks, queues)
    /\ OnCpu(tasks, current)
    /\ RecordsOk
    /\ PendingOk

-----------------------------------------------------------------------------
(* Moves of one task.  Two records are alike when they differ at most in what *)
(* orders a queue.                                                            *)

Alike(t, u) ==
    /\ t.generation = u.generation /\ t.state = u.state /\ t.affinity = u.affinity
    /\ t.owner_cpu = u.owner_cpu /\ t.owner_epoch = u.owner_epoch
    /\ t.queued_cpu = u.queued_cpu

AlikeBut(ts, us, s) == \A x \in Slot : x # s => Alike(ts[x], us[x])

\* What EpochFences asks of a slot whose record t becomes u.
Fence(t, u) ==
    u.generation = t.generation =>
      /\ u.owner_epoch >= t.owner_epoch
      /\ {t.owner_cpu, u.owner_cpu} \subseteq Cpu /\ u.owner_cpu # t.owner_cpu
           => u.owner_epoch > t.owner_epoch

Fenced == \A s \in Slot : Fence(tasks[s], tasks'[s])

IdOf(ts, s) == [slot |-> s, generation |-> ts[s].generation]

\* An id is its slot and its generation.
LEMMA SameId ==
  \A a, b \in TaskId : a.slot = b.slot /\ a.generation = b.generation => a = b
BY DEF TaskId

\* A task that is and stays out of the queues leaves them as they are.
LEMMA QueuesKept ==
  ASSUME NEW ts, NEW us, NEW qs, NEW s \in Slot, Queued(ts, qs), AlikeBut(ts, us, s),
         ts[s].state # "Runnable", us[s].state # "Runnable"
  PROVE  Queued(us, qs)
BY DEF Queued, Ready, AlikeBut, Alike, TaskId

\* So does a step that moves no task.
LEMMA QueuesAlike ==
  ASSUME NEW ts, NEW us, NEW qs, Queued(ts, qs), \A x \in Slot : Alike(ts[x], us[x])
  PROVE  Queued(us, qs)
BY DEF Queued, Ready, Alike, TaskId

\* A task that becomes runnable joins the queue its record names.
LEMMA QueueGains ==
  ASSUME NEW ts \in [Slot -> TaskRecord], NEW us, NEW qs \in [Cpu -> Seq(TaskId)],
         NEW s \in Slot, NEW c \in Cpu,
         Queued(ts, qs), AlikeBut(ts, us, s),
         ts[s].state # "Runnable", us[s].state = "Runnable", us[s].queued_cpu = c,
         us[s].generation = ts[s].generation
  PROVE  /\ Queued(us, [qs EXCEPT ![c] = Append(qs[c], IdOf(ts, s))])
         /\ [qs EXCEPT ![c] = Append(qs[c], IdOf(ts, s))] \in [Cpu -> Seq(TaskId)]
<1> DEFINE e == IdOf(ts, s)
           r == Append(qs[c], e)
           qs2 == [qs EXCEPT ![c] = r]
<1>1. e \in TaskId /\ e.slot = s /\ e.generation = ts[s].generation
  BY DEF IdOf, TaskId, TaskRecord
<1>2. /\ r \in Seq(TaskId)
      /\ \A x : In(r, x) <=> In(qs[c], x) \/ x = e
      /\ Once(qs[c]) /\ ~In(qs[c], e) => Once(r)
  BY <1>1, AppendIn
<1>3. ~In(qs[c], e)
  BY <1>1 DEF Queued, Ready
<1>4. Once(r)
  BY <1>2, <1>3 DEF Queued
<1>5. \A id \in TaskId : id = e <=> id.slot = s /\ id.generation = us[s].generation
  BY <1>1, SameId
<1> HIDE DEF e, r
<1>6. qs2[c] = r /\ \A d \in Cpu : d # c => qs2[d] = qs[d]
  OBVIOUS
<1> HIDE DEF qs2
<1>7. ASSUME NEW d \in Cpu, NEW id \in TaskId PROVE In(qs2[d], id) <=> Ready(us, id, d)
  <2>1. In(qs[d], id) <=> Ready(ts, id, d)
    BY DEF Queued
  <2>2. id.slot \in Slot
    BY DEF TaskId
  <2>3. CASE id.slot = s
    <3>1. ~In(qs[d], id)
      BY <2>1, <2>3 DEF Ready
    <3>2. In(qs2[d], id) <=> d = c /\ id = e
      BY <1>2, <1>6, <3>1
    <3> QED BY <1>5, <2>3, <3>2 DEF Ready
  <2>4. CASE id.slot # s
    <3>1. Ready(us, id, d) <=> Ready(ts, id, d)
      BY <2>2, <2>4 DEF Ready, AlikeBut, Alike
    <3>2. id # e
      BY <1>1, <2>4
    <3> QED BY <1>2, <1>6, <2>1, <3>1, <3>2, Zenon
  <2> QED BY <2>3, <2>4
<1>8. \A d \in Cpu : Once(qs2[d])
  BY <1>4, <1>6 DEF Queued
<1>9. qs2 \in [Cpu -> Seq(TaskId)]
  BY <1>2 DEF qs2
<1> QED BY <1>7, <1>8, <1>9 DEF Queued, qs2, r, e

\* A task that ceases to be runnable leaves its queue, wherever it stands in it.
LEMMA QueueLoses ==
  ASSUME NEW ts \in [Slot -> TaskRecord], NEW us, NEW qs \in [Cpu -> Seq(TaskId)],
         NEW c \in Cpu, NEW i \in 1..Len(qs[c]),
         Queued(ts, qs), AlikeBut(ts, us, qs[c][i].slot),
         us[qs[c][i].slot].state # "Runnable"
  PROVE  /\ Queued(us, [qs EXCEPT ![c] = RemoveAt(qs[c], i)])
         /\ [qs EXCEPT ![c] = RemoveAt(qs[c], i)] \in [Cpu -> Seq(TaskId)]
<1> DEFINE e == qs[c][i]
           s == e.slot
           r == RemoveAt(qs[c], i)
           qs2 == [qs EXCEPT ![c] = r]
<1>0. e \in TaskId
  OBVIOUS
<1>1. e \in TaskId /\ s \in Slot /\ In(qs[c], e)
  BY <1>0 DEF In, TaskId
<1>2. Once(qs[c])
  BY DEF Queued
<1>3. /\ r \in Seq(TaskId)
      /\ \A x : In(r, x) <=> In(qs[c], x) /\ x # e
      /\ Once(r)
  BY <1>2, RemoveAtOut
<1>4. Ready(ts, e, c)
  BY <1>1 DEF Queued
<1>5. \A id \in TaskId : id = e <=> id.slot = s /\ id.generation = ts[s].generation
  BY <1>1, <1>4, SameId DEF Ready
<1>6. qs2[c] = r /\ \A d \in Cpu : d # c => qs2[d] = qs[d]
  OBVIOUS
<1>7. us[s].state # "Runnable" /\ AlikeBut(ts, us, s)
  OBVIOUS
<1> HIDE DEF e, r, qs2, s
<1>8. ASSUME NEW d \in Cpu, NEW id \in TaskId PROVE In(qs2[d], id) <=> Ready(us, id, d)
  <2>1. In(qs[d], id) <=> Ready(ts, id, d)
    BY DEF Queued
  <2>2. id.slot \in Slot
    BY DEF TaskId
  <2>3. CASE id.slot = s
    <3>1. ~Ready(us, id, d)
      BY <1>7, <2>3 DEF Ready
    <3>2. In(qs[d], id) => d = c /\ id = e
      BY <1>4, <1>5, <2>1, <2>3 DEF Ready, s
    <3> QED BY <1>3, <1>6, <3>1, <3>2
  <2>4. CASE id.slot # s
    <3>1. Ready(us, id, d) <=> Ready(ts, id, d)
      BY <1>7, <2>2, <2>4 DEF Ready, AlikeBut, Alike
    <3>2. id # e
      BY <2>4 DEF s
    <3> QED BY <1>3, <1>6, <2>1, <3>1, <3>2
  <2> QED BY <2>3, <2>4
<1>9. \A d \in Cpu : Once(qs2[d])
  BY <1>3, <1>6 DEF Queued
<1>10. qs2 \in [Cpu -> Seq(TaskId)]
  BY <1>3 DEF qs2
<1> QED BY <1>8, <1>9, <1>10 DEF Queued, qs2, r

\* Remove with the id of a runnable task takes it out of its queue.
LEMMA QueueDrops ==
  ASSUME NEW ts \in [Slot -> TaskRecord], NEW us, NEW qs \in [Cpu -> Seq(TaskId)],
         NEW s \in Slot, NEW c \in Cpu, Queued(ts, qs), AlikeBut(ts, us, s),
         ts[s].state = "Runnable", ts[s].queued_cpu = c, us[s].state # "Runnable"
  PROVE  /\ Queued(us, [qs EXCEPT ![c] = Remove(qs[c], IdOf(ts, s))])
         /\ [qs EXCEPT ![c] = Remove(qs[c], IdOf(ts, s))] \in [Cpu -> Seq(TaskId)]
<1> DEFINE e == IdOf(ts, s)
<1>1. e \in TaskId /\ e.slot = s /\ e.generation = ts[s].generation
  BY DEF IdOf, TaskId, TaskRecord
<1> HIDE DEF e
<1>2. In(qs[c], e)
  BY <1>1 DEF Queued, Ready
<1>3. PICK k \in 1..Len(qs[c]) : qs[c][k] = e /\ Remove(qs[c], e) = RemoveAt(qs[c], k)
  BY <1>2, RemoveIsAt DEF Queued
<1>4. /\ Queued(us, [qs EXCEPT ![c] = RemoveAt(qs[c], k)])
      /\ [qs EXCEPT ![c] = RemoveAt(qs[c], k)] \in [Cpu -> Seq(TaskId)]
  <2>1. qs[c][k].slot = s
    BY <1>1, <1>3
  <2>2. AlikeBut(ts, us, qs[c][k].slot) /\ us[qs[c][k].slot].state # "Runnable"
    BY <2>1
  <2> QED BY <2>2, QueueLoses, Zenon
<1> QED BY <1>3, <1>4 DEF e

\* A task that is and stays off the CPUs leaves them as they are.
LEMMA CpusKept ==
  ASSUME NEW ts, NEW us, NEW cur, NEW s \in Slot, OnCpu(ts, cur), AlikeBut(ts, us, s),
         ts[s].state # "Running", us[s].state # "Running"
  PROVE  OnCpu(us, cur)
BY DEF OnCpu, Runs, AlikeBut, Alike, TaskId

\* So does a step that moves no task.
LEMMA CpusAlike ==
  ASSUME NEW ts, NEW us, NEW cur, OnCpu(ts, cur), \A x \in Slot : Alike(ts[x], us[x])
  PROVE  OnCpu(us, cur)
BY DEF OnCpu, Runs, Alike, TaskId

\* An idle CPU takes the task whose record says it runs there.
LEMMA CpuGains ==
  ASSUME NEW ts \in [Slot -> TaskRecord], NEW us,
         NEW cur \in [Cpu -> TaskId \cup {NoTask}], NEW s \in Slot, NEW c \in Cpu,
         OnCpu(ts, cur), AlikeBut(ts, us, s), cur[c] = NoTask,
         ts[s].state # "Running", us[s].state = "Running", us[s].owner_cpu = c,
         us[s].generation = ts[s].generation
  PROVE  /\ OnCpu(us, [cur EXCEPT ![c] = IdOf(ts, s)])
         /\ [cur EXCEPT ![c] = IdOf(ts, s)] \in [Cpu -> TaskId \cup {NoTask}]
<1> DEFINE e == IdOf(ts, s)
           cur2 == [cur EXCEPT ![c] = e]
<1>1. e \in TaskId /\ e.slot = s /\ e.generation = ts[s].generation
  BY DEF IdOf, TaskId, TaskRecord
<1>2. cur2[c] = e /\ \A d \in Cpu : d # c => cur2[d] = cur[d]
  OBVIOUS
<1>3. cur2 \in [Cpu -> TaskId \cup {NoTask}]
  BY <1>1
<1> HIDE DEF e, cur2
<1>4. ASSUME NEW d \in Cpu, NEW id \in TaskId PROVE cur2[d] = id <=> Runs(us, id, d)
  <2>1. cur[d] = id <=> Runs(ts, id, d)
    BY DEF OnCpu
  <2>2. id.slot \in Slot
    BY DEF TaskId
  <2>3. cur[c] # id
    BY AbsenceAssumption
  <2>4. CASE id.slot = s
    <3>1. cur[d] # id
      BY <2>1, <2>4 DEF Runs
    <3>2. cur2[d] = id <=> d = c /\ id = e
      BY <1>2, <3>1
    <3>3. id = e <=> id.generation = us[s].generation
      BY <1>1, <2>4, SameId
    <3> QED BY <2>4, <3>2, <3>3 DEF Runs
  <2>5. CASE id.slot # s
    <3>1. Runs(us, id, d) <=> Runs(ts, id, d)
      BY <2>2, <2>5 DEF Runs, AlikeBut, Alike
    <3> QED BY <1>1, <1>2, <2>1, <2>3, <2>5, <3>1
  <2> QED BY <2>4, <2>5
<1> QED BY <1>3, <1>4 DEF OnCpu, cur2, e

\* A CPU is idle once its task no longer runs.
LEMMA CpuLoses ==
  ASSUME NEW ts \in [Slot -> TaskRecord], NEW us,
         NEW cur \in [Cpu -> TaskId \cup {NoTask}], NEW c \in Cpu,
         OnCpu(ts, cur), cur[c] # NoTask, AlikeBut(ts, us, cur[c].slot),
         us[cur[c].slot].state # "Running"
  PROVE  /\ OnCpu(us, [cur EXCEPT ![c] = NoTask])
         /\ [cur EXCEPT ![c] = NoTask] \in [Cpu -> TaskId \cup {NoTask}]
<1> DEFINE e == cur[c]
           cur2 == [cur EXCEPT ![c] = NoTask]
<1>1. e \in TaskId /\ Runs(ts, e, c)
  BY DEF OnCpu
<1>2. cur2[c] = NoTask /\ \A d \in Cpu : d # c => cur2[d] = cur[d]
  OBVIOUS
<1>3. cur2 \in [Cpu -> TaskId \cup {NoTask}]
  OBVIOUS
<1>4. us[e.slot].state # "Running" /\ AlikeBut(ts, us, e.slot)
  OBVIOUS
<1>5. cur[c] = e
  OBVIOUS
<1> HIDE DEF e, cur2
<1>6. ASSUME NEW d \in Cpu, NEW id \in TaskId PROVE cur2[d] = id <=> Runs(us, id, d)
  <2>1. cur[d] = id <=> Runs(ts, id, d)
    BY DEF OnCpu
  <2>2. id.slot \in Slot
    BY DEF TaskId
  <2>3. cur2[c] # id
    BY <1>2, AbsenceAssumption
  <2>4. CASE id.slot = e.slot
    <3>1. ~Runs(us, id, d)
      BY <1>4, <2>4 DEF Runs
    <3>2. cur[d] = id => d = c
      BY <1>1, <2>1, <2>4 DEF Runs
    <3> QED BY <1>2, <2>3, <3>1, <3>2
  <2>5. CASE id.slot # e.slot
    <3>1. Runs(us, id, d) <=> Runs(ts, id, d)
      BY <1>4, <2>2, <2>5 DEF Runs, AlikeBut, Alike
    <3>2. cur[c] # id
      BY <1>5, <2>5
    <3> QED BY <1>2, <2>1, <2>3, <3>1, <3>2
  <2> QED BY <2>4, <2>5
<1> QED BY <1>3, <1>6 DEF OnCpu, cur2

-----------------------------------------------------------------------------
(* Parts of the step proofs that several actions share *)

\* When one record changes, the others stay in order.
LEMMA RecordsStep ==
  ASSUME RecordsOk, NEW s \in Slot, AlikeBut(tasks, tasks', s), online' = online,
         RecordOk(tasks'[s], online)
  PROVE  RecordsOk'
BY DEF RecordsOk, RecordOk, AlikeBut, Alike

\* A task the pending ticket is not about may move.
LEMMA PendingKept ==
  ASSUME PendingOk, NEW s \in Slot, AlikeBut(tasks, tasks', s), TypeOK,
         pending # NoTicket => pending.task.slot # s,
         tasks'[s].state # "Transfer", UNCHANGED <<pending, current, online>>
  PROVE  PendingOk'
<1>1. pending # NoTicket => pending.task.slot \in Slot
  BY DEF TypeOK, Ticket, TaskId
<1>2. pending # NoTicket => Alike(tasks[pending.task.slot], tasks'[pending.task.slot])
  BY <1>1 DEF AlikeBut
<1>3. pending # NoTicket => TicketOk(pending, tasks', current, online)
  BY <1>2 DEF PendingOk, TicketOk, Alike
<1>4. TransfersOk(pending, tasks')
  BY DEF PendingOk, TransfersOk, AlikeBut, Alike
<1> QED BY <1>3, <1>4 DEF PendingOk

\* No ticket is left after a step of the pending ticket's task, or if there was
\* none before.
LEMMA NonePending ==
  ASSUME PendingOk, NEW s \in Slot, AlikeBut(tasks, tasks', s), pending' = NoTicket,
         pending # NoTicket => pending.task.slot = s, tasks'[s].state # "Transfer"
  PROVE  PendingOk'
BY DEF PendingOk, TransfersOk, AlikeBut, Alike

\* While a ticket is pending its task is activated and alive.
LEMMA TicketTask ==
  ASSUME SmpInv, pending # NoTicket
  PROVE  /\ pending \in Ticket /\ pending.task \in TaskId /\ pending.task.slot \in Slot
         /\ pending.task = IdOf(tasks, pending.task.slot)
         /\ tasks[pending.task.slot].state \notin {"Dormant", "Dead"}
         /\ TicketOk(pending, tasks, current, online)
<1>1. pending \in Ticket /\ TicketOk(pending, tasks, current, online)
  BY DEF SmpInv, TypeOK, PendingOk
<1>2. pending.task \in TaskId /\ pending.task.slot \in Slot /\ pending.kind \in Kind
  BY <1>1 DEF Ticket, TaskId
<1>3. pending.task = IdOf(tasks, pending.task.slot)
  BY <1>1, <1>2 DEF TicketOk, IdOf, TaskId
<1>4. tasks[pending.task.slot].state \notin {"Dormant", "Dead"}
  BY <1>1, <1>2 DEF TicketOk, Kind
<1> QED BY <1>1, <1>2, <1>3, <1>4

\* The record of a task put into the queue of CPU c.
LEMMA EnqueuedRecord ==
  ASSUME NEW t \in TaskRecord, NEW c \in Cpu,
         NEW u, u = Enqueued(t, c)
  PROVE  /\ u \in TaskRecord /\ u.state = "Runnable" /\ u.owner_cpu = c
         /\ u.queued_cpu = c /\ u.owner_epoch = t.owner_epoch
         /\ u.generation = t.generation /\ u.affinity = t.affinity
BY Zenon DEF Enqueued, TaskRecord

\* A record with another owner epoch.
LEMMA EpochRecord ==
  ASSUME NEW t \in TaskRecord, NEW n \in Nat,
         NEW u, u = [t EXCEPT !.owner_epoch = n]
  PROVE  /\ u \in TaskRecord /\ u.state = t.state /\ u.owner_cpu = t.owner_cpu
         /\ u.queued_cpu = t.queued_cpu /\ u.owner_epoch = n
         /\ u.generation = t.generation /\ u.affinity = t.affinity
BY DEF TaskRecord

\* The record of a task that runs on CPU c.
LEMMA RunningRecord ==
  ASSUME NEW t \in TaskRecord, NEW c \in Cpu,
         NEW u, u = Running(t, c)
  PROVE  /\ u \in TaskRecord /\ u.state = "Running" /\ u.owner_cpu = c
         /\ u.queued_cpu = NoCpu /\ u.owner_epoch = t.owner_epoch + 1
         /\ u.generation = t.generation /\ u.affinity = t.affinity
<1>1. t.owner_epoch + 1 \in Nat
  BY DEF TaskRecord
<1> QED BY <1>1, Zenon DEF Running, TaskRecord

\* The record of a task that has ended.
LEMMA DeadRecord ==
  ASSUME NEW t \in TaskRecord,
         NEW u, u = Dead(t)
  PROVE  /\ u \in TaskRecord /\ u.state = "Dead" /\ u.owner_cpu = NoCpu
         /\ u.queued_cpu = NoCpu /\ u.owner_epoch = t.owner_epoch
         /\ u.generation = t.generation
BY Zenon DEF Dead, TaskRecord

\* The record of a task that block_runnable takes out of its queue.
LEMMA BlockedRecord ==
  ASSUME NEW t \in TaskRecord,
         NEW u, u = [t EXCEPT !.state = "Blocked", !.queued_cpu = NoCpu, !.bypass_count = 0]
  PROVE  /\ u \in TaskRecord /\ u.state = "Blocked" /\ u.owner_cpu = t.owner_cpu
         /\ u.queued_cpu = NoCpu /\ u.owner_epoch = t.owner_epoch
         /\ u.generation = t.generation
BY Zenon DEF TaskRecord

\* Counting a task as passed over moves it nowhere.
LEMMA PassedAlike ==
  ASSUME NEW ts \in [Slot -> TaskRecord], NEW q, NEW i
  PROVE  /\ Passed(ts, q, i) \in [Slot -> TaskRecord]
         /\ \A x \in Slot : Alike(ts[x], Passed(ts, q, i)[x])
<1> DEFINE us == Passed(ts, q, i)
<1>1. ASSUME NEW x \in Slot PROVE us[x] \in TaskRecord /\ Alike(ts[x], us[x])
  <2>1. ts[x] \in TaskRecord
    OBVIOUS
  <2>2. ts[x].bypass_count + 1 \in Nat
    BY <2>1 DEF TaskRecord
  <2>3. us[x] \in {ts[x], [ts[x] EXCEPT !.bypass_count = ts[x].bypass_count + 1]}
    BY DEF Passed
  <2>4. CASE us[x] = ts[x]
    BY <2>1, <2>4 DEF Alike
  <2>5. CASE us[x] = [ts[x] EXCEPT !.bypass_count = ts[x].bypass_count + 1]
    BY <2>1, <2>2, <2>5 DEF TaskRecord, Alike
  <2> QED BY <2>3, <2>4, <2>5
<1>2. us = [x \in Slot |-> us[x]]
  BY DEF Passed
<1> HIDE DEF us
<1>3. us \in [Slot -> TaskRecord]
  BY <1>1, <1>2
<1> QED BY <1>1, <1>3 DEF us

\* When one record changes, the epochs of the others stay.
LEMMA FenceStep ==
  ASSUME tasks \in [Slot -> TaskRecord], NEW s \in Slot, AlikeBut(tasks, tasks', s),
         Fence(tasks[s], tasks'[s])
  PROVE  Fenced
<1> SUFFICES ASSUME NEW x \in Slot, x # s PROVE Fence(tasks[x], tasks'[x])
  BY DEF Fenced
<1>1. tasks[x].owner_epoch \in Nat /\ Alike(tasks[x], tasks'[x])
  BY DEF TaskRecord, AlikeBut
<1> QED BY <1>1 DEF Fence, Alike

\* No epoch changes if no record does.
LEMMA FenceSame ==
  ASSUME tasks \in [Slot -> TaskRecord], tasks' = tasks
  PROVE  Fenced
BY DEF Fenced, Fence, TaskRecord

-----------------------------------------------------------------------------
(* A selection, as the bypass counts see it: from the records ts, entry i of  *)
(* a queue of distinct runnable tasks is picked, the others of its priority   *)
(* are counted, and the picked one is cleared or goes into transfer.          *)

Selects(ts, us) ==
    \E q \in Seq(TaskId) : \E i \in DOMAIN q :
      LET p == q[i].slot IN
      /\ \A j \in DOMAIN q : q[j].slot \in Slot /\ ts[q[j].slot].state = "Runnable"
      /\ \A j \in DOMAIN q \ {i} : q[j].slot # p
      /\ IsPick(ts, q, i)
      /\ \A x \in Slot : x # p => us[x] = Passed(ts, q, i)[x]
      /\ \/ us[p].bypass_count = 0
         \/ us[p].bypass_count = ts[p].bypass_count /\ us[p].state = "Transfer"

\* Records between which bypass counts, and who is in transfer, are the same.
CountsKept(ts, us) ==
    \A x \in Slot : /\ us[x].bypass_count = ts[x].bypass_count
                    /\ ts[x].state = "Transfer" => us[x].state = "Transfer"

-----------------------------------------------------------------------------
(* Every action preserves the invariant *)

\* create_task takes a slot no queue, CPU or ticket refers to.
LEMMA CreateStep ==
  ASSUME SmpInv, NEW s \in Slot, NEW g \in 1..MaxGeneration, NEW p \in Priority,
         NEW a \in Affinity, CreateTask(s, g, p, a)
  PROVE  SmpInv' /\ Fenced
<1> DEFINE t == tasks'[s]
<1>1. TypeOK /\ tasks \in [Slot -> TaskRecord]
  BY DEF SmpInv, TypeOK
<1>2. /\ t = [generation |-> g, state |-> "Dormant", priority |-> p, affinity |-> a,
              owner_cpu |-> NoCpu, owner_epoch |-> 0, queued_cpu |-> NoCpu,
              bypass_count |-> 0]
      /\ \A x \in Slot : x # s => tasks'[x] = tasks[x]
      /\ tasks' = [tasks EXCEPT ![s] = t]
  BY <1>1, Zenon DEF CreateTask, EmptyTask
<1>3. t \in TaskRecord
  BY <1>2, PriorityAssumption, AffinityAssumption, BoundAssumption DEF TaskRecord
<1>4. tasks' \in [Slot -> TaskRecord]
  BY <1>1, <1>2, <1>3
<1>5. tasks[s].state \in {"Dormant", "Dead"}
  BY DEF CreateTask, Live, SmpInv, RecordsOk, RecordOk
<1>6. AlikeBut(tasks, tasks', s)
  BY <1>2 DEF AlikeBut, Alike
<1>7. TypeOK'
  BY <1>1, <1>4 DEF CreateTask, ticketVars, TypeOK
<1>f. /\ UNCHANGED <<queues, current, online, pending>>
      /\ tasks[s].state # "Runnable" /\ tasks[s].state # "Running" /\ t.state = "Dormant"
  <2>1. UNCHANGED <<queues, current, online, pending>>
    BY DEF CreateTask, ticketVars
  <2>2. t.state = "Dormant"
    BY <1>2
  <2> QED BY <1>5, <2>1, <2>2
<1> HIDE DEF t
<1>8. Queued(tasks', queues') /\ OnCpu(tasks', current')
  BY <1>f, <1>6, QueuesKept, CpusKept DEF SmpInv, t
<1>9. RecordOk(t, online)
  BY <1>2 DEF RecordOk
<1>10. RecordsOk'
  BY <1>f, <1>6, <1>9, RecordsStep DEF SmpInv, t
<1>11. PendingOk'
  <2>1. pending # NoTicket => pending.task.slot # s
    BY <1>5, TicketTask
  <2> QED BY <1>1, <1>f, <1>6, <2>1, PendingKept DEF SmpInv, t
<1>e. Fenced
  <2>1. tasks[s].generation # g
    BY <1>1, BoundAssumption DEF CreateTask, Live, TaskRecord
  <2>2. Fence(tasks[s], tasks'[s])
    BY <1>2, <2>1 DEF Fence, t
  <2> QED BY <1>1, <1>6, <2>2, FenceStep
<1> QED BY <1>e, <1>7, <1>8, <1>10, <1>11 DEF SmpInv

\* activate puts a dormant task into its first queue.
LEMMA ActivateStep ==
  ASSUME SmpInv, NEW s \in Slot, NEW c \in Cpu, Activate(s, c)
  PROVE  SmpInv' /\ Fenced
<1> DEFINE t == tasks'[s]
<1>1. TypeOK /\ tasks \in [Slot -> TaskRecord] /\ queues \in [Cpu -> Seq(TaskId)]
  BY DEF SmpInv, TypeOK
<1>2. /\ t = [Enqueued(tasks[s], c) EXCEPT !.owner_epoch = 1]
      /\ \A x \in Slot : x # s => tasks'[x] = tasks[x]
      /\ tasks' = [tasks EXCEPT ![s] = t]
  BY <1>1 DEF Activate
<1>3. /\ t \in TaskRecord /\ t.state = "Runnable" /\ t.owner_cpu = c /\ t.queued_cpu = c
      /\ t.owner_epoch = 1 /\ t.generation = tasks[s].generation
      /\ t.affinity = tasks[s].affinity
  <2> DEFINE u == Enqueued(tasks[s], c)
  <2>1. /\ u \in TaskRecord /\ u.state = "Runnable" /\ u.owner_cpu = c
        /\ u.queued_cpu = c /\ u.generation = tasks[s].generation
        /\ u.affinity = tasks[s].affinity
    BY <1>1, EnqueuedRecord
  <2> HIDE DEF u
  <2>2. t = [u EXCEPT !.owner_epoch = 1]
    BY <1>2 DEF u
  <2> QED BY <2>1, <2>2, EpochRecord
<1>4. tasks' \in [Slot -> TaskRecord]
  BY <1>1, <1>2, <1>3, Zenon
<1>5. tasks[s].state = "Dormant" /\ tasks[s].generation # 0 /\ c \in tasks[s].affinity
  BY DEF Activate, Live
<1>6. AlikeBut(tasks, tasks', s)
  BY <1>2 DEF AlikeBut, Alike
<1>7. queues' = [queues EXCEPT ![c] = Append(queues[c], IdOf(tasks, s))]
  BY DEF Activate, Id, IdOf
<1>8. Queued(tasks', queues') /\ queues' \in [Cpu -> Seq(TaskId)]
  BY <1>1, <1>3, <1>5, <1>6, <1>7, QueueGains, Zenon DEF SmpInv
<1>9. OnCpu(tasks', current')
  BY <1>3, <1>5, <1>6, CpusKept, Zenon DEF Activate, SmpInv
<1>10. TypeOK'
  BY <1>1, <1>4, <1>8 DEF Activate, ticketVars, TypeOK
<1>11. RecordOk(t, online)
  BY <1>3, <1>5 DEF RecordOk, Activate
<1>12. RecordsOk'
  BY <1>6, <1>11, RecordsStep, Zenon DEF SmpInv, Activate
<1>13. PendingOk'
  <2>1. pending # NoTicket => pending.task.slot # s
    BY <1>5, TicketTask
  <2> QED BY <1>1, <1>3, <1>6, <2>1, PendingKept, Zenon DEF SmpInv, Activate, ticketVars
<1>e. Fenced
  <2>1. tasks[s].owner_epoch = 0 /\ tasks[s].owner_cpu = NoCpu
    BY <1>5 DEF SmpInv, RecordsOk, RecordOk
  <2>2. Fence(tasks[s], tasks'[s])
    BY <1>3, <2>1, CpuAssumption DEF Fence
  <2> QED BY <1>1, <1>6, <2>2, FenceStep
<1> QED BY <1>e, <1>8, <1>9, <1>10, <1>12, <1>13 DEF SmpInv

\* What is left to show of a step that moves task s and leaves no ticket.
LEMMA Moved ==
  ASSUME SmpInv, NEW s \in Slot, tasks' \in [Slot -> TaskRecord],
         AlikeBut(tasks, tasks', s), RecordOk(tasks'[s], online),
         tasks'[s].state # "Transfer", Fence(tasks[s], tasks'[s]),
         pending' = NoTicket, pending # NoTicket => pending.task.slot = s,
         UNCHANGED <<online, transaction, answered>>,
         queues' \in [Cpu -> Seq(TaskId)], Queued(tasks', queues'),
         current' \in [Cpu -> TaskId \cup {NoTask}], OnCpu(tasks', current')
  PROVE  SmpInv' /\ Fenced
<1>1. TypeOK'
  BY DEF SmpInv, TypeOK
<1>2. RecordsOk'
  BY RecordsStep DEF SmpInv
<1>3. PendingOk'
  BY NonePending DEF SmpInv
<1>4. Fenced
  BY FenceStep DEF TypeOK, SmpInv
<1> QED BY <1>1, <1>2, <1>3, <1>4 DEF SmpInv

\* block_runnable takes the task out of its queue.
LEMMA BlockStep ==
  ASSUME SmpInv, NEW s \in Slot, BlockRunnable(s)
  PROVE  SmpInv' /\ Fenced
<1> DEFINE t == tasks'[s]
           c == tasks[s].queued_cpu
<1>1. /\ tasks \in [Slot -> TaskRecord] /\ queues \in [Cpu -> Seq(TaskId)]
      /\ current \in [Cpu -> TaskId \cup {NoTask}]
  BY DEF SmpInv, TypeOK
<1>2. /\ t = [tasks[s] EXCEPT !.state = "Blocked", !.queued_cpu = NoCpu, !.bypass_count = 0]
      /\ \A x \in Slot : x # s => tasks'[x] = tasks[x]
      /\ tasks' = [tasks EXCEPT ![s] = t]
  BY <1>1, Zenon DEF BlockRunnable
<1>3. /\ t \in TaskRecord /\ t.state = "Blocked" /\ t.queued_cpu = NoCpu
      /\ t.owner_cpu = tasks[s].owner_cpu /\ t.owner_epoch = tasks[s].owner_epoch
      /\ t.generation = tasks[s].generation
  <2>1. tasks[s] \in TaskRecord
    BY <1>1
  <2> QED BY <1>2, <2>1, BlockedRecord, Zenon
<1>4. tasks' \in [Slot -> TaskRecord]
  BY <1>1, <1>2, <1>3
<1>5. /\ tasks[s].state = "Runnable" /\ NoPending
      /\ UNCHANGED <<current, online, pending, transaction, answered>>
      /\ queues' = [queues EXCEPT ![c] = Remove(queues[c], IdOf(tasks, s))]
  BY DEF BlockRunnable, ticketVars, Id, IdOf
<1>6. AlikeBut(tasks, tasks', s)
  BY <1>2 DEF AlikeBut, Alike
<1>7. RecordOk(tasks[s], online)
  BY DEF SmpInv, RecordsOk
<1>8. c \in Cpu
  BY <1>5, <1>7 DEF RecordOk
<1>9. RecordOk(t, online)
  BY <1>3, <1>5, <1>7 DEF RecordOk
<1> HIDE DEF t, c
<1>10. Queued(tasks', queues') /\ queues' \in [Cpu -> Seq(TaskId)]
  BY <1>1, <1>3, <1>5, <1>6, <1>8, QueueDrops, Zenon DEF SmpInv, t, c
<1>11. OnCpu(tasks', current')
  BY <1>3, <1>5, <1>6, CpusKept DEF SmpInv, t
<1>e. Fence(tasks[s], tasks'[s])
  <2>1. tasks[s].owner_epoch \in Nat
    BY <1>1 DEF TaskRecord
  <2> QED BY <1>3, <2>1 DEF Fence, t
<1> QED BY <1>e, <1>1, <1>3, <1>4, <1>5, <1>6, <1>9, <1>10, <1>11, Moved, Zenon DEF NoPending, t

\* cancel_task ends a runnable or blocked task.
LEMMA CancelStep ==
  ASSUME SmpInv, NEW s \in Slot, CancelTask(s)
  PROVE  SmpInv' /\ Fenced
<1> DEFINE t == tasks'[s]
           c == tasks[s].queued_cpu
<1>1. /\ tasks \in [Slot -> TaskRecord] /\ queues \in [Cpu -> Seq(TaskId)]
      /\ current \in [Cpu -> TaskId \cup {NoTask}]
  BY DEF SmpInv, TypeOK
<1>2. /\ t = Dead(tasks[s])
      /\ \A x \in Slot : x # s => tasks'[x] = tasks[x]
      /\ tasks' = [tasks EXCEPT ![s] = t]
  BY <1>1 DEF CancelTask
<1>3. /\ t \in TaskRecord /\ t.state = "Dead" /\ t.queued_cpu = NoCpu
      /\ t.owner_cpu = NoCpu /\ t.owner_epoch = tasks[s].owner_epoch
      /\ t.generation = tasks[s].generation
  BY <1>1, <1>2, DeadRecord
<1>4. tasks' \in [Slot -> TaskRecord]
  BY <1>1, <1>2, <1>3
<1>5. /\ tasks[s].state \in {"Runnable", "Blocked"} /\ NoPending
      /\ UNCHANGED <<current, online, pending, transaction, answered>>
      /\ queues' = IF tasks[s].state = "Runnable"
                   THEN [queues EXCEPT ![c] = Remove(queues[c], IdOf(tasks, s))]
                   ELSE queues
  BY DEF CancelTask, ticketVars, Id, IdOf
<1>6. AlikeBut(tasks, tasks', s)
  BY <1>2 DEF AlikeBut, Alike
<1>7. RecordOk(tasks[s], online)
  BY DEF SmpInv, RecordsOk
<1>8. RecordOk(t, online)
  BY <1>3, <1>5, <1>7 DEF RecordOk
<1>9. tasks[s].state = "Runnable" => c \in Cpu
  BY <1>7 DEF RecordOk
<1> HIDE DEF t, c
<1>10. Queued(tasks', queues') /\ queues' \in [Cpu -> Seq(TaskId)]
  <2>1. CASE tasks[s].state = "Runnable"
    BY <1>1, <1>3, <1>5, <1>6, <1>9, <2>1, QueueDrops, Zenon DEF SmpInv, t, c
  <2>2. CASE tasks[s].state # "Runnable"
    BY <1>1, <1>3, <1>5, <1>6, <2>2, QueuesKept DEF SmpInv, t
  <2> QED BY <2>1, <2>2
<1>11. OnCpu(tasks', current')
  BY <1>3, <1>5, <1>6, CpusKept DEF SmpInv, t
<1>e. Fence(tasks[s], tasks'[s])
  <2>1. tasks[s].owner_epoch \in Nat
    BY <1>1 DEF TaskRecord
  <2> QED BY <1>3, <2>1, CpuAssumption DEF Fence, t
<1> QED BY <1>e, <1>1, <1>3, <1>4, <1>5, <1>6, <1>8, <1>10, <1>11, Moved, Zenon DEF NoPending, t

\* complete_current ends the task a CPU runs.
LEMMA CompleteStep ==
  ASSUME SmpInv, NEW c \in Cpu, CompleteCurrent(c)
  PROVE  SmpInv' /\ Fenced
<1> DEFINE s == current[c].slot
           t == tasks'[s]
<1>1. /\ tasks \in [Slot -> TaskRecord] /\ queues \in [Cpu -> Seq(TaskId)]
      /\ current \in [Cpu -> TaskId \cup {NoTask}]
  BY DEF SmpInv, TypeOK
<1>2. current[c] # NoTask /\ current[c] \in TaskId /\ s \in Slot
  BY <1>1 DEF CompleteCurrent, TaskId
<1>3. /\ t = Dead(tasks[s])
      /\ \A x \in Slot : x # s => tasks'[x] = tasks[x]
      /\ tasks' = [tasks EXCEPT ![s] = t]
  BY <1>1, <1>2, Zenon DEF CompleteCurrent
<1>4. /\ t \in TaskRecord /\ t.state = "Dead" /\ t.queued_cpu = NoCpu
      /\ t.owner_cpu = NoCpu /\ t.owner_epoch = tasks[s].owner_epoch
      /\ t.generation = tasks[s].generation
  BY <1>1, <1>2, <1>3, DeadRecord
<1>5. tasks' \in [Slot -> TaskRecord]
  BY <1>1, <1>3, <1>4
<1>6. /\ UNCHANGED <<queues, online, pending, transaction, answered>> /\ NoPending
      /\ current' = [current EXCEPT ![c] = NoTask]
  BY DEF CompleteCurrent, ticketVars
<1>7. AlikeBut(tasks, tasks', s)
  BY <1>3 DEF AlikeBut, Alike
<1>8. tasks[s].state = "Running" /\ RecordOk(tasks[s], online)
  BY <1>2 DEF SmpInv, OnCpu, Runs, RecordsOk
<1>9. RecordOk(t, online)
  BY <1>4, <1>8 DEF RecordOk
<1>10. Queued(tasks', queues')
  <2> HIDE DEF s
  <2> QED BY <1>2, <1>4, <1>6, <1>7, <1>8, QueuesKept DEF SmpInv
<1>11. OnCpu(tasks', current') /\ current' \in [Cpu -> TaskId \cup {NoTask}]
  BY <1>1, <1>2, <1>4, <1>6, <1>7, CpuLoses, Zenon DEF SmpInv
<1> HIDE DEF s
<1>e. Fence(tasks[s], tasks'[s])
  <2>1. tasks[s].owner_epoch \in Nat
    BY <1>1, <1>2 DEF TaskRecord
  <2> QED BY <1>4, <2>1, CpuAssumption DEF Fence
<1> QED BY <1>e, <1>1, <1>2, <1>4, <1>5, <1>6, <1>7, <1>9, <1>10, <1>11, Moved, Zenon DEF NoPending

\* dispatch_local runs the selected task of the boot processor to its end.
LEMMA LocalStep ==
  ASSUME SmpInv, NEW i \in DOMAIN queues[0], DispatchLocal(i)
  PROVE  SmpInv' /\ Fenced
<1> DEFINE s == queues[0][i].slot
           t == tasks'[s]
<1>1. /\ tasks \in [Slot -> TaskRecord] /\ queues \in [Cpu -> Seq(TaskId)]
      /\ current \in [Cpu -> TaskId \cup {NoTask}] /\ 0 \in Cpu
  BY CpuAssumption DEF TypeOK, SmpInv
<1>2. i \in 1..Len(queues[0])
  BY <1>1
<1>3. queues[0][i] \in TaskId /\ s \in Slot /\ In(queues[0], queues[0][i])
  <2>1. queues[0][i] \in TaskId
    BY <1>1, <1>2
  <2> QED BY <1>2, <2>1 DEF TaskId, In
<1>4. /\ t = Dead(Running(tasks[s], 0))
      /\ \A x \in Slot : x # s => tasks'[x] = tasks[x]
      /\ tasks' = [tasks EXCEPT ![s] = t]
  BY <1>1, <1>3, Zenon DEF DispatchLocal
<1>5. /\ t \in TaskRecord /\ t.state = "Dead" /\ t.queued_cpu = NoCpu
      /\ t.owner_cpu = NoCpu /\ t.owner_epoch = tasks[s].owner_epoch + 1
      /\ t.generation = tasks[s].generation
  <2> DEFINE u == Running(tasks[s], 0)
  <2>1. /\ u \in TaskRecord /\ u.owner_epoch = tasks[s].owner_epoch + 1
        /\ u.generation = tasks[s].generation
    BY <1>1, <1>3, RunningRecord
  <2> HIDE DEF u
  <2>2. t = Dead(u)
    BY <1>4 DEF u
  <2> QED BY <2>1, <2>2, DeadRecord
<1>6. tasks' \in [Slot -> TaskRecord]
  BY <1>1, <1>4, <1>5
<1>7. /\ UNCHANGED <<current, online, pending, transaction, answered>> /\ NoPending
      /\ queues' = [queues EXCEPT ![0] = RemoveAt(queues[0], i)]
  BY DEF DispatchLocal, ticketVars
<1>8. AlikeBut(tasks, tasks', s)
  BY <1>4 DEF AlikeBut, Alike
<1>9. tasks[s].state = "Runnable" /\ RecordOk(tasks[s], online)
  BY <1>1, <1>3 DEF SmpInv, Queued, Ready, RecordsOk
<1>10. RecordOk(t, online)
  <2>1. tasks[s].owner_epoch \in Nat
    BY <1>1, <1>3 DEF TaskRecord
  <2> HIDE DEF t, s
  <2> QED BY <1>5, <1>9, <2>1 DEF RecordOk
<1>11. Queued(tasks', queues') /\ queues' \in [Cpu -> Seq(TaskId)]
  BY <1>1, <1>2, <1>5, <1>7, <1>8, QueueLoses, Zenon DEF SmpInv
<1> HIDE DEF s
<1>12. OnCpu(tasks', current')
  BY <1>3, <1>5, <1>7, <1>8, <1>9, CpusKept DEF SmpInv
<1>e. Fence(tasks[s], tasks'[s])
  <2>1. tasks[s].owner_epoch \in Nat
    BY <1>1, <1>3 DEF TaskRecord
  <2> QED BY <1>5, <2>1, CpuAssumption DEF Fence
<1> QED BY <1>e, <1>1, <1>3, <1>5, <1>6, <1>7, <1>8, <1>10, <1>11, <1>12, Moved, Zenon DEF NoPending

\* install_pending, when the ticket describes its task.
LEMMA Installed ==
  ASSUME SmpInv, NEW kind \in Kind, NEW id \in TaskId, NEW source \in Cpu,
         NEW target \in Cpu \cup {OFFLINE_PROBE_CPU}, Install(kind, id, source, target)
  PROVE  /\ pending' \in Ticket /\ pending'.kind = kind /\ pending'.task = id
         /\ pending'.source_cpu = source /\ pending'.target_cpu = target
         /\ pending'.owner_epoch = tasks[id.slot].owner_epoch
         /\ pending = NoTicket /\ transaction' \in Nat /\ answered' = answered
<1>1. tasks \in [Slot -> TaskRecord] /\ transaction \in Nat /\ id.slot \in Slot
  BY DEF SmpInv, TypeOK, TaskId
<1>2. tasks[id.slot].owner_epoch \in Nat /\ transaction' \in Nat
  BY <1>1 DEF TaskRecord, Install
<1>3. PICK r \in Request :
        pending' = [transaction |-> transaction', kind |-> kind, task |-> id,
                    source_cpu |-> source, target_cpu |-> target,
                    owner_epoch |-> tasks[id.slot].owner_epoch, request |-> r]
  BY DEF Install
<1>4. pending' \in Ticket
  BY <1>2, <1>3 DEF Ticket
<1> QED BY <1>2, <1>3, <1>4 DEF Install, NoPending

\* stage_wake, stage_migration, stage_offline_probe and stage_preempt only issue
\* a ticket.
LEMMA StageStep ==
  ASSUME SmpInv, NEW kind \in Kind \ {"Dispatch"}, NEW id \in TaskId, NEW source \in Cpu,
         NEW target \in Cpu \cup {OFFLINE_PROBE_CPU}, Install(kind, id, source, target),
         UNCHANGED <<tasks, queues, current, online>>,
         id.generation = tasks[id.slot].generation,
         kind # "OfflineProbe" => target \in online,
         kind = "OfflineProbe" =>
           tasks[id.slot].state = "Runnable" /\ tasks[id.slot].queued_cpu = source,
         kind = "Wake" =>
           tasks[id.slot].state = "Blocked" /\ target \in tasks[id.slot].affinity,
         kind = "Migration" =>
           /\ tasks[id.slot].state = "Runnable" /\ target \in tasks[id.slot].affinity
           /\ tasks[id.slot].queued_cpu = source /\ source # target,
         kind = "Preempt" => tasks[id.slot].state = "Running" /\ current[target] = id
  PROVE  SmpInv'
<1>1. /\ pending' \in Ticket /\ pending'.kind = kind /\ pending'.task = id
      /\ pending'.source_cpu = source /\ pending'.target_cpu = target
      /\ pending'.owner_epoch = tasks[id.slot].owner_epoch
      /\ pending = NoTicket /\ transaction' \in Nat /\ answered' = answered
  BY Installed
<1>2. TypeOK'
  BY <1>1 DEF SmpInv, TypeOK
<1>3. TicketOk(pending', tasks, current, online)
  BY <1>1 DEF TicketOk
<1>4. TransfersOk(pending', tasks)
  BY <1>1 DEF SmpInv, PendingOk, TransfersOk
<1>5. PendingOk'
  BY <1>3, <1>4 DEF PendingOk
<1>6. Queued(tasks', queues') /\ OnCpu(tasks', current') /\ RecordsOk'
  BY DEF SmpInv, RecordsOk
<1> QED BY <1>2, <1>5, <1>6 DEF SmpInv

\* The id of a live slot.
LEMMA IdFacts ==
  ASSUME SmpInv, NEW s \in Slot
  PROVE  /\ Id(s) \in TaskId /\ Id(s).slot = s /\ Id(s).generation = tasks[s].generation
         /\ Id(s) = IdOf(tasks, s)
BY DEF SmpInv, TypeOK, Id, IdOf, TaskId, TaskRecord

\* stage_wake
LEMMA StageWakeStep ==
  ASSUME SmpInv, NEW s \in Slot, NEW c \in Cpu, StageWake(s, c)
  PROVE  SmpInv'
<1>1. Id(s) \in TaskId /\ Id(s).slot = s /\ Id(s).generation = tasks[s].generation
  BY IdFacts
<1>2. /\ c \in online /\ tasks[s].state = "Blocked" /\ c \in tasks[s].affinity
      /\ Install("Wake", Id(s), tasks[s].owner_cpu, c)
      /\ UNCHANGED <<tasks, queues, current, online>>
  BY DEF StageWake
<1>3. tasks[s].owner_cpu \in Cpu
  BY <1>2 DEF SmpInv, RecordsOk, RecordOk
<1> QED BY <1>1, <1>2, <1>3, StageStep DEF Kind

\* stage_migration
LEMMA StageMigrationStep ==
  ASSUME SmpInv, NEW s \in Slot, NEW c \in Cpu, StageMigration(s, c)
  PROVE  SmpInv'
<1>1. Id(s) \in TaskId /\ Id(s).slot = s /\ Id(s).generation = tasks[s].generation
  BY IdFacts
<1>2. /\ c \in online /\ tasks[s].state = "Runnable" /\ c \in tasks[s].affinity
      /\ tasks[s].queued_cpu # c
      /\ Install("Migration", Id(s), tasks[s].queued_cpu, c)
      /\ UNCHANGED <<tasks, queues, current, online>>
  BY DEF StageMigration
<1>3. tasks[s].queued_cpu \in Cpu
  BY <1>2 DEF SmpInv, RecordsOk, RecordOk
<1> QED BY <1>1, <1>2, <1>3, StageStep DEF Kind

\* stage_offline_probe
LEMMA StageProbeStep ==
  ASSUME SmpInv, NEW s \in Slot, StageOfflineProbe(s)
  PROVE  SmpInv'
<1>1. Id(s) \in TaskId /\ Id(s).slot = s /\ Id(s).generation = tasks[s].generation
  BY IdFacts
<1>2. /\ tasks[s].state = "Runnable"
      /\ Install("OfflineProbe", Id(s), tasks[s].queued_cpu, OFFLINE_PROBE_CPU)
      /\ UNCHANGED <<tasks, queues, current, online>>
  BY DEF StageOfflineProbe
<1>3. tasks[s].queued_cpu \in Cpu
  BY <1>2 DEF SmpInv, RecordsOk, RecordOk
<1> QED BY <1>1, <1>2, <1>3, StageStep DEF Kind

\* stage_preempt
LEMMA StagePreemptStep ==
  ASSUME SmpInv, NEW c \in Cpu, StagePreempt(c)
  PROVE  SmpInv'
<1> DEFINE id == current[c]
<1>1. /\ c \in online /\ id # NoTask
      /\ Install("Preempt", id, c, c)
      /\ UNCHANGED <<tasks, queues, current, online>>
  BY DEF StagePreempt
<1>2. id \in TaskId
  BY <1>1 DEF TypeOK, SmpInv
<1>3. id.generation = tasks[id.slot].generation /\ tasks[id.slot].state = "Running"
  BY <1>2 DEF SmpInv, OnCpu, Runs
<1>4. current[c] = id
  OBVIOUS
<1> HIDE DEF id
<1> QED BY <1>1, <1>2, <1>3, <1>4, StageStep DEF Kind

\* The entries of a queue are runnable tasks, a task has one.
LEMMA QueueEntries ==
  ASSUME NEW ts, NEW qs \in [Cpu -> Seq(TaskId)], NEW c \in Cpu, Queued(ts, qs)
  PROVE  /\ \A j \in DOMAIN qs[c] :
              qs[c][j].slot \in Slot /\ ts[qs[c][j].slot].state = "Runnable"
         /\ \A i, j \in DOMAIN qs[c] : qs[c][i].slot = qs[c][j].slot => i = j
<1>1. DOMAIN qs[c] = 1..Len(qs[c])
  OBVIOUS
<1>2. ASSUME NEW j \in DOMAIN qs[c]
      PROVE  qs[c][j] \in TaskId /\ qs[c][j].slot \in Slot /\ Ready(ts, qs[c][j], c)
  <2>1. qs[c][j] \in TaskId
    BY <1>1
  <2>2. In(qs[c], qs[c][j])
    BY <1>1 DEF In
  <2> QED BY <2>1, <2>2 DEF Queued, TaskId
<1>3. ASSUME NEW i \in DOMAIN qs[c], NEW j \in DOMAIN qs[c], qs[c][i].slot = qs[c][j].slot
      PROVE  i = j
  <2>1. qs[c][i] = qs[c][j]
    BY <1>2, <1>3, SameId DEF Ready
  <2> QED BY <1>1, <2>1 DEF Queued, Once
<1> QED BY <1>2, <1>3 DEF Ready

\* stage_dispatch takes the selected task out of its queue, into the ticket.
LEMMA StageDispatchStep ==
  ASSUME SmpInv, NEW c \in Cpu, StageDispatch(c)
  PROVE  SmpInv' /\ Fenced /\ Selects(tasks, tasks')
<1> DEFINE q == queues[c]
<1>1. /\ tasks \in [Slot -> TaskRecord] /\ queues \in [Cpu -> Seq(TaskId)]
      /\ current \in [Cpu -> TaskId \cup {NoTask}]
  BY DEF SmpInv, TypeOK
<1>2. PICK i \in DOMAIN q :
         /\ IsPick(tasks, q, i)
         /\ queues' = [queues EXCEPT ![c] = RemoveAt(q, i)]
         /\ tasks' = [Passed(tasks, q, i) EXCEPT ![q[i].slot].state = "Transfer",
                                                 ![q[i].slot].queued_cpu = NoCpu]
         /\ Install("Dispatch", q[i], c, c)
  BY Zenon DEF StageDispatch
<1>3. c \in online /\ current[c] = NoTask /\ UNCHANGED <<current, online>>
  BY Zenon DEF StageDispatch
<1> DEFINE id == q[i]
           s == id.slot
           us == Passed(tasks, q, i)
           t == tasks'[s]
<1>4. i \in 1..Len(q)
  BY <1>1
<1>5. id \in TaskId
  BY <1>1, <1>4
<1>6. s \in Slot /\ In(q, id)
  BY <1>4, <1>5 DEF TaskId, In
<1>7. Ready(tasks, id, c) /\ RecordOk(tasks[s], online)
  BY <1>5, <1>6 DEF SmpInv, Queued, RecordsOk
<1>8. us \in [Slot -> TaskRecord] /\ \A x \in Slot : Alike(tasks[x], us[x])
  BY <1>1, PassedAlike
<1> HIDE DEF us
<1>9. /\ t = [us[s] EXCEPT !.state = "Transfer", !.queued_cpu = NoCpu]
      /\ \A x \in Slot : x # s => tasks'[x] = us[x]
      /\ tasks' = [us EXCEPT ![s] = t]
  BY <1>2, <1>6, <1>8, Zenon DEF us
<1>10. /\ t \in TaskRecord /\ t.state = "Transfer" /\ t.queued_cpu = NoCpu
       /\ t.owner_cpu = tasks[s].owner_cpu /\ t.owner_epoch = tasks[s].owner_epoch
       /\ t.generation = tasks[s].generation /\ t.affinity = tasks[s].affinity
  <2>1. us[s] \in TaskRecord /\ Alike(tasks[s], us[s])
    BY <1>6, <1>8
  <2> QED BY <1>9, <2>1, Zenon DEF TaskRecord, Alike
<1>11. tasks' \in [Slot -> TaskRecord]
  BY <1>8, <1>9, <1>10, Zenon
<1>12. AlikeBut(tasks, tasks', s)
  BY <1>8, <1>9 DEF AlikeBut
<1>13. Queued(tasks', queues') /\ queues' \in [Cpu -> Seq(TaskId)]
  <2>1. AlikeBut(tasks, tasks', queues[c][i].slot) /\ tasks'[queues[c][i].slot].state # "Runnable"
    BY <1>10, <1>12
  <2>2. Queued(tasks, queues)
    BY DEF SmpInv
  <2>3. /\ Queued(tasks', [queues EXCEPT ![c] = RemoveAt(queues[c], i)])
        /\ [queues EXCEPT ![c] = RemoveAt(queues[c], i)] \in [Cpu -> Seq(TaskId)]
    BY <1>1, <1>4, <2>1, <2>2, QueueLoses, Zenon
  <2> QED BY <1>2, <2>3
<1>14. /\ pending' \in Ticket /\ pending'.kind = "Dispatch" /\ pending'.task = id
       /\ pending'.source_cpu = c /\ pending'.target_cpu = c
       /\ pending'.owner_epoch = tasks[id.slot].owner_epoch
       /\ pending = NoTicket /\ transaction' \in Nat /\ answered' = answered
  BY <1>2, <1>5, Installed, Zenon DEF Kind
<1>15. id.generation = tasks[s].generation /\ tasks[s].state = "Runnable" /\ tasks[s].queued_cpu = c
  BY <1>7 DEF Ready
<1> HIDE DEF q, id, t
<1>16. OnCpu(tasks', current')
  <2> HIDE DEF s
  <2> QED BY <1>3, <1>6, <1>10, <1>12, <1>15, CpusKept DEF SmpInv, t
<1>17. TypeOK'
  BY <1>1, <1>3, <1>11, <1>13, <1>14 DEF SmpInv, TypeOK
<1>18. tasks[s].owner_cpu = c
  BY <1>7, <1>15 DEF RecordOk
<1>19. RecordOk(t, online)
  BY <1>7, <1>10, <1>15 DEF RecordOk
<1>20. RecordsOk'
  <2> HIDE DEF s
  <2> QED BY <1>3, <1>6, <1>12, <1>19, RecordsStep DEF SmpInv, t
<1>21. PendingOk'
  <2>1. TicketOk(pending', tasks', current', online')
    BY <1>3, <1>10, <1>14, <1>15, <1>18 DEF TicketOk, t
  <2>2. TransfersOk(pending', tasks')
    <3>1. \A x \in Slot : tasks[x].state # "Transfer"
      BY <1>14 DEF SmpInv, PendingOk, TransfersOk
    <3>2. \A x \in Slot : x # s => tasks'[x].state # "Transfer"
      BY <1>12, <3>1 DEF AlikeBut, Alike
    <3> QED BY <1>14, <3>2, AbsenceAssumption DEF TransfersOk
  <2> QED BY <2>1, <2>2 DEF PendingOk
<1>e. Fenced
  <2>1. tasks[s].owner_epoch \in Nat
    BY <1>1, <1>6 DEF TaskRecord
  <2>2. Fence(tasks[s], tasks'[s])
    BY <1>10, <2>1 DEF Fence, t
  <2> HIDE DEF s
  <2> QED BY <1>1, <1>6, <1>12, <2>2, FenceStep
<1>l. Selects(tasks, tasks')
  <2>1. /\ \A j \in DOMAIN q : q[j].slot \in Slot /\ tasks[q[j].slot].state = "Runnable"
        /\ \A k, j \in DOMAIN q : q[k].slot = q[j].slot => k = j
    BY <1>1, QueueEntries DEF SmpInv, q
  <2>2. \A j \in DOMAIN q \ {i} : q[j].slot # s
    BY <2>1 DEF id
  <2>3. \A x \in Slot : x # s => tasks'[x] = Passed(tasks, q, i)[x]
    BY <1>9 DEF us
  <2>4. tasks'[s].bypass_count = tasks[s].bypass_count /\ tasks'[s].state = "Transfer"
    <3>1. us[s] = tasks[s]
      BY <1>6, <2>2 DEF us, Passed
    <3>2. tasks[s] \in TaskRecord
      BY <1>1, <1>6
    <3> QED BY <1>9, <1>10, <3>1, <3>2 DEF TaskRecord, t
  <2>5. s = q[i].slot /\ IsPick(tasks, q, i) /\ q \in Seq(TaskId)
    BY <1>1, <1>2 DEF id, q
  <2> HIDE DEF s
  <2> QED BY <2>1, <2>2, <2>3, <2>4, <2>5 DEF Selects
<1> QED BY <1>e, <1>l, <1>13, <1>16, <1>17, <1>20, <1>21 DEF SmpInv

\* What a commit finds: the CPUs of the ticket and the record of its task.
LEMMA CommitFacts ==
  ASSUME SmpInv, NEW ack, Acknowledge(ack)
  PROVE  LET s == pending.task.slot IN
         /\ pending # NoTicket /\ pending \in Ticket /\ pending.task \in TaskId
         /\ s \in Slot /\ pending.task = IdOf(tasks, s)
         /\ tasks[s] \in TaskRecord /\ RecordOk(tasks[s], online)
         /\ pending.source_cpu \in Cpu /\ pending.kind \in Kind
         /\ pending.kind # "OfflineProbe" =>
              pending.target_cpu \in Cpu /\ pending.target_cpu \in online
         /\ TicketOk(pending, tasks, current, online)
         /\ pending' = NoTicket /\ UNCHANGED <<online, transaction, answered>>
<1>1. pending # NoTicket /\ pending' = NoTicket /\ UNCHANGED <<online, transaction, answered>>
  BY DEF Acknowledge, NoPending
<1>2. /\ pending \in Ticket /\ pending.task \in TaskId /\ pending.task.slot \in Slot
      /\ pending.task = IdOf(tasks, pending.task.slot)
      /\ TicketOk(pending, tasks, current, online)
  BY <1>1, TicketTask
<1>3. pending.source_cpu \in Cpu /\ pending.kind \in Kind
  BY <1>2 DEF Ticket
<1>4. online \in SUBSET Cpu /\ tasks \in [Slot -> TaskRecord]
  BY DEF SmpInv, TypeOK
<1>5. tasks[pending.task.slot] \in TaskRecord /\ RecordOk(tasks[pending.task.slot], online)
  BY <1>2, <1>4 DEF SmpInv, RecordsOk
<1>6. pending.kind # "OfflineProbe" => pending.target_cpu \in online
  BY <1>2 DEF TicketOk
<1>7. pending.kind # "OfflineProbe" =>
        pending.target_cpu \in Cpu /\ pending.target_cpu \in online
  BY <1>4, <1>6
<1> QED BY <1>1, <1>2, <1>3, <1>5, <1>7

\* The record a wake or a migration gives a task.
LEMMA TransferredRecord ==
  ASSUME NEW t \in TaskRecord, NEW c \in Cpu,
         NEW u, u = Transferred(t, c)
  PROVE  /\ u \in TaskRecord /\ u.state = "Runnable" /\ u.owner_cpu = c
         /\ u.queued_cpu = c /\ u.owner_epoch = t.owner_epoch + 1
         /\ u.generation = t.generation /\ u.affinity = t.affinity
<1> DEFINE v == Enqueued(t, c)
<1>1. /\ v \in TaskRecord /\ v.state = "Runnable" /\ v.owner_cpu = c
      /\ v.queued_cpu = c /\ v.owner_epoch = t.owner_epoch
      /\ v.generation = t.generation /\ v.affinity = t.affinity
  BY EnqueuedRecord
<1>2. u = [v EXCEPT !.owner_epoch = t.owner_epoch + 1]
  BY DEF Transferred
<1> HIDE DEF v
<1>3. t.owner_epoch + 1 \in Nat
  BY DEF TaskRecord
<1> DEFINE n == t.owner_epoch + 1
<1>4. u = [v EXCEPT !.owner_epoch = n] /\ n \in Nat
  BY <1>2, <1>3
<1> HIDE DEF n
<1>5. /\ u \in TaskRecord /\ u.state = v.state /\ u.owner_cpu = v.owner_cpu
      /\ u.queued_cpu = v.queued_cpu /\ u.owner_epoch = n
      /\ u.generation = v.generation /\ u.affinity = v.affinity
  BY <1>1, <1>4, EpochRecord
<1> QED BY <1>1, <1>5 DEF n

\* The commit of a wake
LEMMA WakeStep ==
  ASSUME SmpInv, NEW ack, Acknowledge(ack), CommitWake(pending)
  PROVE  SmpInv' /\ Fenced
<1> DEFINE s == pending.task.slot
           c == pending.target_cpu
           t == tasks'[s]
<1>1. /\ tasks \in [Slot -> TaskRecord] /\ queues \in [Cpu -> Seq(TaskId)]
      /\ current \in [Cpu -> TaskId \cup {NoTask}]
  BY DEF SmpInv, TypeOK
<1>2. /\ s \in Slot /\ c \in Cpu /\ c \in online /\ pending.task = IdOf(tasks, s)
      /\ tasks[s] \in TaskRecord /\ RecordOk(tasks[s], online)
      /\ tasks[s].state = "Blocked" /\ c \in tasks[s].affinity
      /\ pending' = NoTicket /\ UNCHANGED <<online, transaction, answered>>
  BY CommitFacts DEF CommitWake, TicketOk
<1>3. /\ t = Transferred(tasks[s], c)
      /\ \A x \in Slot : x # s => tasks'[x] = tasks[x]
      /\ tasks' = [tasks EXCEPT ![s] = t]
  BY <1>1, <1>2, Zenon DEF CommitWake
<1>4. queues' = [queues EXCEPT ![c] = Append(queues[c], IdOf(tasks, s))] /\ current' = current
  BY <1>2, Zenon DEF CommitWake
<1> HIDE DEF s, c
<1>5. /\ t \in TaskRecord /\ t.state = "Runnable" /\ t.owner_cpu = c /\ t.queued_cpu = c
      /\ t.owner_epoch = tasks[s].owner_epoch + 1
      /\ t.generation = tasks[s].generation /\ t.affinity = tasks[s].affinity
  BY <1>2, <1>3, TransferredRecord
<1>6. tasks' \in [Slot -> TaskRecord]
  BY <1>1, <1>3, <1>5
<1>7. AlikeBut(tasks, tasks', s)
  BY <1>3 DEF AlikeBut, Alike
<1>8. RecordOk(t, online)
  <2>1. tasks[s].owner_epoch \in Nat
    BY <1>2 DEF TaskRecord
  <2> QED BY <1>2, <1>5, <2>1 DEF RecordOk
<1>9. Queued(tasks', queues') /\ queues' \in [Cpu -> Seq(TaskId)]
  BY <1>1, <1>2, <1>4, <1>5, <1>7, QueueGains, Zenon DEF SmpInv
<1>10. OnCpu(tasks', current')
  BY <1>2, <1>4, <1>5, <1>7, CpusKept DEF SmpInv
<1>e. Fence(tasks[s], tasks'[s])
  <2>1. tasks[s].owner_epoch \in Nat
    BY <1>2 DEF TaskRecord
  <2> QED BY <1>5, <2>1 DEF Fence
<1> QED BY <1>e, <1>1, <1>2, <1>4, <1>5, <1>6, <1>7, <1>8, <1>9, <1>10, Moved, Zenon DEF s

\* The commit of a migration.  The intermediate table has the task in no queue.
LEMMA MigrationStep ==
  ASSUME SmpInv, NEW ack, Acknowledge(ack), CommitMigration(pending)
  PROVE  SmpInv' /\ Fenced
<1> DEFINE s == pending.task.slot
           b == pending.source_cpu
           c == pending.target_cpu
           t == tasks'[s]
           id == IdOf(tasks, s)
           r == [tasks[s] EXCEPT !.state = "Blocked", !.queued_cpu = NoCpu, !.bypass_count = 0]
           ts == [tasks EXCEPT ![s] = r]
           qs == [queues EXCEPT ![b] = Remove(queues[b], id)]
<1>1. /\ tasks \in [Slot -> TaskRecord] /\ queues \in [Cpu -> Seq(TaskId)]
      /\ current \in [Cpu -> TaskId \cup {NoTask}]
  BY DEF SmpInv, TypeOK
<1>2. /\ s \in Slot /\ b \in Cpu /\ c \in Cpu /\ c \in online /\ pending.task = id
      /\ tasks[s] \in TaskRecord /\ RecordOk(tasks[s], online)
      /\ tasks[s].state = "Runnable" /\ c \in tasks[s].affinity
      /\ tasks[s].queued_cpu = b /\ b # c
      /\ pending' = NoTicket /\ UNCHANGED <<online, transaction, answered>>
  BY CommitFacts, Zenon DEF CommitMigration, TicketOk
<1>3. /\ t = Transferred(tasks[s], c)
      /\ \A x \in Slot : x # s => tasks'[x] = tasks[x]
      /\ tasks' = [tasks EXCEPT ![s] = t]
  BY <1>1, <1>2, Zenon DEF CommitMigration
<1>4. /\ queues' = [queues EXCEPT ![b] = Remove(queues[b], id), ![c] = Append(queues[c], id)]
      /\ current' = current
  BY <1>1, <1>2, Zenon DEF CommitMigration
<1>s. s = pending.task.slot
  OBVIOUS
<1> HIDE DEF s, b, c
<1>5. /\ t \in TaskRecord /\ t.state = "Runnable" /\ t.owner_cpu = c /\ t.queued_cpu = c
      /\ t.owner_epoch = tasks[s].owner_epoch + 1
      /\ t.generation = tasks[s].generation /\ t.affinity = tasks[s].affinity
  BY <1>2, <1>3, TransferredRecord
<1>6. tasks' \in [Slot -> TaskRecord]
  BY <1>1, <1>3, <1>5
<1>7. AlikeBut(tasks, tasks', s)
  BY <1>3 DEF AlikeBut, Alike
<1>8. RecordOk(t, online)
  <2>1. tasks[s].owner_epoch \in Nat
    BY <1>2 DEF TaskRecord
  <2> QED BY <1>2, <1>5, <2>1 DEF RecordOk
<1>9. r \in TaskRecord /\ r.state = "Blocked" /\ r.generation = tasks[s].generation
  BY <1>2, BlockedRecord, Zenon
<1> HIDE DEF r
<1>10. /\ ts \in [Slot -> TaskRecord] /\ ts[s] = r
       /\ \A x \in Slot : x # s => ts[x] = tasks[x]
  BY <1>1, <1>2, <1>9
<1>11. AlikeBut(tasks, ts, s) /\ AlikeBut(ts, tasks', s)
  BY <1>3, <1>10 DEF AlikeBut, Alike
<1>12. id = IdOf(ts, s)
  BY <1>9, <1>10 DEF IdOf
<1> HIDE DEF ts, id
<1>13. Queued(ts, qs) /\ qs \in [Cpu -> Seq(TaskId)]
  <2>1. ts[s].state # "Runnable" /\ Queued(tasks, queues)
    BY <1>9, <1>10 DEF SmpInv
  <2> QED BY <1>1, <1>2, <1>11, <2>1, QueueDrops, Zenon DEF id
<1>14. qs[c] = queues[c] /\ queues' = [qs EXCEPT ![c] = Append(qs[c], id)]
  BY <1>1, <1>2, <1>4, Zenon
<1> HIDE DEF qs
<1>15. Queued(tasks', queues') /\ queues' \in [Cpu -> Seq(TaskId)]
  <2>1. ts[s].state # "Runnable" /\ tasks'[s].generation = ts[s].generation
    BY <1>5, <1>9, <1>10
  <2>2. /\ Queued(tasks', [qs EXCEPT ![c] = Append(qs[c], IdOf(ts, s))])
        /\ [qs EXCEPT ![c] = Append(qs[c], IdOf(ts, s))] \in [Cpu -> Seq(TaskId)]
    BY <1>2, <1>5, <1>10, <1>11, <1>13, <2>1, QueueGains, Zenon
  <2> QED BY <1>12, <1>14, <2>2
<1>16. OnCpu(tasks', current')
  BY <1>2, <1>4, <1>5, <1>7, CpusKept DEF SmpInv
<1>e. Fence(tasks[s], tasks'[s])
  <2>1. tasks[s].owner_epoch \in Nat
    BY <1>2 DEF TaskRecord
  <2> QED BY <1>5, <2>1 DEF Fence
<1> QED BY <1>e, <1>s, <1>1, <1>2, <1>4, <1>5, <1>6, <1>7, <1>8, <1>15, <1>16, Moved, Zenon

\* The commit of a dispatch
LEMMA DispatchStep ==
  ASSUME SmpInv, NEW ack, Acknowledge(ack), CommitDispatch(pending)
  PROVE  SmpInv' /\ Fenced
<1> DEFINE s == pending.task.slot
           c == pending.target_cpu
           t == tasks'[s]
<1>1. /\ tasks \in [Slot -> TaskRecord] /\ queues \in [Cpu -> Seq(TaskId)]
      /\ current \in [Cpu -> TaskId \cup {NoTask}]
  BY DEF SmpInv, TypeOK
<1>2. /\ s \in Slot /\ c \in Cpu /\ c \in online /\ pending.task = IdOf(tasks, s)
      /\ tasks[s] \in TaskRecord /\ RecordOk(tasks[s], online)
      /\ tasks[s].state = "Transfer" /\ tasks[s].owner_cpu = c /\ current[c] = NoTask
      /\ pending' = NoTicket /\ UNCHANGED <<online, transaction, answered>>
  BY CommitFacts DEF CommitDispatch, TicketOk
<1>3. /\ t = Running(tasks[s], c)
      /\ \A x \in Slot : x # s => tasks'[x] = tasks[x]
      /\ tasks' = [tasks EXCEPT ![s] = t]
  BY <1>1, <1>2, Zenon DEF CommitDispatch
<1>4. current' = [current EXCEPT ![c] = IdOf(tasks, s)] /\ queues' = queues
  BY <1>2, Zenon DEF CommitDispatch
<1> HIDE DEF s, c
<1>5. /\ t \in TaskRecord /\ t.state = "Running" /\ t.owner_cpu = c /\ t.queued_cpu = NoCpu
      /\ t.owner_epoch = tasks[s].owner_epoch + 1
      /\ t.generation = tasks[s].generation /\ t.affinity = tasks[s].affinity
  BY <1>2, <1>3, RunningRecord
<1>6. tasks' \in [Slot -> TaskRecord]
  BY <1>1, <1>3, <1>5
<1>7. AlikeBut(tasks, tasks', s)
  BY <1>3 DEF AlikeBut, Alike
<1>8. RecordOk(t, online)
  <2>1. tasks[s].owner_epoch \in Nat
    BY <1>2 DEF TaskRecord
  <2> QED BY <1>2, <1>5, <2>1 DEF RecordOk
<1>9. OnCpu(tasks', current') /\ current' \in [Cpu -> TaskId \cup {NoTask}]
  BY <1>1, <1>2, <1>4, <1>5, <1>7, CpuGains, Zenon DEF SmpInv
<1>10. Queued(tasks', queues')
  BY <1>2, <1>4, <1>5, <1>7, QueuesKept, Zenon DEF SmpInv
<1>e. Fence(tasks[s], tasks'[s])
  <2>1. tasks[s].owner_epoch \in Nat
    BY <1>2 DEF TaskRecord
  <2> QED BY <1>5, <2>1 DEF Fence
<1> QED BY <1>e, <1>1, <1>2, <1>4, <1>5, <1>6, <1>7, <1>8, <1>9, <1>10, Moved, Zenon DEF s

\* The commit of a preemption: the task that ran joins the queue, then the
\* selected one leaves it.  They may be the same task.
LEMMA PreemptStep ==
  ASSUME SmpInv, NEW ack, Acknowledge(ack), CommitPreempt(pending)
  PROVE  /\ SmpInv' /\ Fenced
         /\ \E ts \in [Slot -> TaskRecord] : CountsKept(tasks, ts) /\ Selects(ts, tasks')
<1> DEFINE s == pending.task.slot
           c == pending.target_cpu
           id == IdOf(tasks, s)
           r == Enqueued(tasks[s], c)
           ts == [tasks EXCEPT ![s] = r]
           q == Append(queues[c], id)
           qs == [queues EXCEPT ![c] = q]
           cur == [current EXCEPT ![c] = NoTask]
<1>1. /\ tasks \in [Slot -> TaskRecord] /\ queues \in [Cpu -> Seq(TaskId)]
      /\ current \in [Cpu -> TaskId \cup {NoTask}]
  BY DEF SmpInv, TypeOK
<1>2. /\ s \in Slot /\ c \in Cpu /\ c \in online /\ pending.task = id
      /\ tasks[s] \in TaskRecord /\ RecordOk(tasks[s], online)
      /\ tasks[s].state = "Running" /\ current[c] = pending.task /\ pending.task \in TaskId
      /\ pending.kind = "Preempt"
      /\ pending' = NoTicket /\ UNCHANGED <<online, transaction, answered>>
  BY CommitFacts, Zenon DEF CommitPreempt, TicketOk
<1>3. PICK i \in DOMAIN q :
         /\ IsPick(ts, q, i)
         /\ queues' = [queues EXCEPT ![c] = RemoveAt(q, i)]
         /\ tasks' = [Passed(ts, q, i) EXCEPT ![q[i].slot] = Running(@, c)]
         /\ current' = [current EXCEPT ![c] = q[i]]
  BY <1>2, Zenon DEF CommitPreempt
<1>4. current[c] # NoTask /\ current[c].slot = s
  BY <1>2, AbsenceAssumption
<1>5. tasks[s].owner_cpu = c
  BY <1>2 DEF SmpInv, OnCpu, Runs
<1>6. /\ r \in TaskRecord /\ r.state = "Runnable" /\ r.owner_cpu = c /\ r.queued_cpu = c
      /\ r.owner_epoch = tasks[s].owner_epoch
      /\ r.generation = tasks[s].generation /\ r.affinity = tasks[s].affinity
  BY <1>2, EnqueuedRecord
<1> HIDE DEF s, c, r
<1>7. /\ ts \in [Slot -> TaskRecord] /\ ts[s] = r
      /\ \A x \in Slot : x # s => ts[x] = tasks[x]
  BY <1>1, <1>2, <1>6
<1>8. AlikeBut(tasks, ts, s)
  BY <1>7 DEF AlikeBut, Alike
<1> HIDE DEF ts
<1>9. Queued(ts, qs) /\ qs \in [Cpu -> Seq(TaskId)]
  BY <1>1, <1>2, <1>6, <1>7, <1>8, QueueGains, Zenon DEF SmpInv
<1>10. OnCpu(ts, cur) /\ cur \in [Cpu -> TaskId \cup {NoTask}]
  <2>1. AlikeBut(tasks, ts, current[c].slot) /\ ts[current[c].slot].state # "Running"
    BY <1>4, <1>6, <1>7, <1>8
  <2>2. OnCpu(tasks, current)
    BY DEF SmpInv
  <2> QED BY <1>1, <1>2, <1>4, <2>1, <2>2, CpuLoses, Zenon
<1>11. \A x \in Slot : RecordOk(ts[x], online) /\ ts[x].state # "Transfer"
  <2>1. RecordOk(r, online)
    BY <1>2, <1>5, <1>6 DEF RecordOk
  <2>2. \A x \in Slot : RecordOk(tasks[x], online)
    BY DEF SmpInv, RecordsOk
  <2>3. \A x \in Slot : tasks[x].state # "Transfer"
    BY <1>2 DEF SmpInv, PendingOk, TransfersOk
  <2> QED BY <1>6, <1>7, <2>1, <2>2, <2>3
<1>12. qs[c] = q /\ cur[c] = NoTask
  BY <1>1, <1>2
<1> HIDE DEF q
<1>13. q \in Seq(TaskId) /\ i \in 1..Len(q)
  BY <1>2, <1>9, <1>12
<1> DEFINE e == q[i]
           z == e.slot
           us == Passed(ts, q, i)
           t == tasks'[z]
<1>14. e \in TaskId
  BY <1>13
<1>15. z \in Slot /\ In(q, e)
  BY <1>13, <1>14 DEF TaskId, In
<1>16. Ready(ts, e, c)
  BY <1>2, <1>9, <1>12, <1>14, <1>15 DEF Queued
<1>17. us \in [Slot -> TaskRecord] /\ \A x \in Slot : Alike(ts[x], us[x])
  BY <1>7, PassedAlike
<1>18. queues' = [qs EXCEPT ![c] = RemoveAt(qs[c], i)]
  BY <1>1, <1>3, <1>12, Zenon
<1>19. current' = [cur EXCEPT ![c] = e]
  BY <1>1, <1>3, Zenon
<1>20. /\ t = Running(us[z], c)
       /\ \A x \in Slot : x # z => tasks'[x] = us[x]
       /\ tasks' = [us EXCEPT ![z] = t]
  BY <1>3, <1>15, <1>17, Zenon
<1> HIDE DEF us, qs, cur
<1>21. /\ t \in TaskRecord /\ t.state = "Running" /\ t.owner_cpu = c /\ t.queued_cpu = NoCpu
       /\ t.owner_epoch = ts[z].owner_epoch + 1
       /\ t.generation = ts[z].generation /\ t.affinity = ts[z].affinity
  <2>1. us[z] \in TaskRecord /\ Alike(ts[z], us[z])
    BY <1>15, <1>17
  <2>2. /\ t \in TaskRecord /\ t.state = "Running" /\ t.owner_cpu = c /\ t.queued_cpu = NoCpu
        /\ t.owner_epoch = us[z].owner_epoch + 1
        /\ t.generation = us[z].generation /\ t.affinity = us[z].affinity
    <3> DEFINE v == us[z]
    <3>1. v \in TaskRecord /\ t = Running(v, c) /\ c \in Cpu
      BY <1>2, <1>20, <2>1
    <3> HIDE DEF v, t, c
    <3>2. /\ t \in TaskRecord /\ t.state = "Running" /\ t.owner_cpu = c /\ t.queued_cpu = NoCpu
          /\ t.owner_epoch = v.owner_epoch + 1
          /\ t.generation = v.generation /\ t.affinity = v.affinity
      BY <3>1, RunningRecord
    <3> QED BY <3>2 DEF v
  <2> QED BY <2>1, <2>2 DEF Alike
<1>22. tasks' \in [Slot -> TaskRecord]
  BY <1>17, <1>20, <1>21
<1>23. AlikeBut(ts, tasks', z)
  BY <1>17, <1>20 DEF AlikeBut
<1>24. Queued(tasks', queues') /\ queues' \in [Cpu -> Seq(TaskId)]
  <2>1. i \in 1..Len(qs[c]) /\ qs[c][i].slot = z
    BY <1>12, <1>13
  <2>2. AlikeBut(ts, tasks', qs[c][i].slot) /\ tasks'[qs[c][i].slot].state # "Runnable"
    BY <1>21, <1>23, <2>1
  <2>3. /\ Queued(tasks', [qs EXCEPT ![c] = RemoveAt(qs[c], i)])
        /\ [qs EXCEPT ![c] = RemoveAt(qs[c], i)] \in [Cpu -> Seq(TaskId)]
    BY <1>2, <1>7, <1>9, <2>1, <2>2, QueueLoses, Zenon
  <2> QED BY <1>18, <2>3
<1>25. e = IdOf(ts, z)
  BY <1>14, <1>16 DEF Ready, IdOf, TaskId
<1>26. ts[z].state = "Runnable"
  BY <1>16 DEF Ready
<1> HIDE DEF e, z, t
<1>27. OnCpu(tasks', current') /\ current' \in [Cpu -> TaskId \cup {NoTask}]
  <2>1. /\ tasks'[z].state = "Running" /\ tasks'[z].owner_cpu = c
        /\ tasks'[z].generation = ts[z].generation
    BY <1>21 DEF t
  <2>2. /\ OnCpu(tasks', [cur EXCEPT ![c] = IdOf(ts, z)])
        /\ [cur EXCEPT ![c] = IdOf(ts, z)] \in [Cpu -> TaskId \cup {NoTask}]
    BY <1>2, <1>7, <1>10, <1>12, <1>15, <1>23, <1>26, <2>1, CpuGains, Zenon
  <2> QED BY <1>19, <1>25, <2>2
<1>28. RecordsOk'
  <2>1. RecordOk(ts[z], online) /\ ts[z].owner_epoch \in Nat
    BY <1>7, <1>11, <1>15 DEF TaskRecord
  <2>2. ts[z].owner_cpu = c
    BY <1>16, <1>26, <2>1 DEF Ready, RecordOk, z
  <2>3. RecordOk(t, online)
    BY <1>21, <1>26, <2>1, <2>2 DEF RecordOk
  <2>4. ASSUME NEW x \in Slot, x # z PROVE RecordOk(tasks'[x], online)
    BY <1>11, <1>23, <2>4 DEF RecordOk, AlikeBut, Alike
  <2> QED BY <1>2, <2>3, <2>4 DEF RecordsOk, t
<1>29. PendingOk'
  <2>1. \A x \in Slot : tasks'[x].state # "Transfer"
    BY <1>11, <1>21, <1>23 DEF AlikeBut, Alike, t
  <2> QED BY <1>2, <2>1 DEF PendingOk, TransfersOk
<1>30. TypeOK'
  BY <1>2, <1>22, <1>24, <1>27 DEF SmpInv, TypeOK
<1>e. Fenced
  <2> SUFFICES ASSUME NEW x \in Slot PROVE Fence(tasks[x], tasks'[x])
    BY DEF Fenced
  <2>1. tasks[x].owner_epoch \in Nat
    BY <1>1 DEF TaskRecord
  <2>2. ts[x].owner_epoch = tasks[x].owner_epoch /\ ts[x].owner_cpu = tasks[x].owner_cpu
    BY <1>5, <1>6, <1>7
  <2>3. CASE x = z
    BY <1>21, <2>1, <2>2, <2>3 DEF Fence, t
  <2>4. CASE x # z
    BY <1>23, <2>1, <2>2, <2>4 DEF Fence, AlikeBut, Alike
  <2> QED BY <2>3, <2>4
<1>k. CountsKept(tasks, ts)
  <2>1. r.bypass_count = tasks[s].bypass_count
    BY <1>2 DEF r, Enqueued, TaskRecord
  <2> QED BY <1>2, <1>7, <2>1 DEF CountsKept
<1>l. Selects(ts, tasks')
  <2>1. /\ \A j \in DOMAIN q : q[j].slot \in Slot /\ ts[q[j].slot].state = "Runnable"
        /\ \A k, j \in DOMAIN q : q[k].slot = q[j].slot => k = j
    BY <1>2, <1>9, <1>12, QueueEntries
  <2>2. \A j \in DOMAIN q \ {i} : q[j].slot # z
    BY <2>1 DEF z, e
  <2>3. \A x \in Slot : x # z => tasks'[x] = Passed(ts, q, i)[x]
    BY <1>20 DEF us
  <2>4. tasks'[z].bypass_count = 0
    <3>1. us[z] \in TaskRecord
      BY <1>15, <1>17
    <3> QED BY <1>20, <3>1 DEF Running, TaskRecord, t
  <2>5. z = q[i].slot /\ IsPick(ts, q, i)
    BY <1>3 DEF z, e
  <2> QED BY <1>13, <2>1, <2>2, <2>3, <2>4, <2>5 DEF Selects
<1> QED BY <1>e, <1>k, <1>l, <1>7, <1>24, <1>27, <1>28, <1>29, <1>30 DEF SmpInv

\* An answer changes nothing but what has been answered.
LEMMA AnswerStep ==
  ASSUME SmpInv, Answer
  PROVE  SmpInv'
<1>1. pending \in Ticket /\ UNCHANGED <<tasks, queues, current, online, pending, transaction>>
  BY DEF SmpInv, TypeOK, Answer, NoPending
<1>2. answered' \in SUBSET ((Cpu \cup {OFFLINE_PROBE_CPU}) \X Request)
  BY <1>1 DEF TypeOK, SmpInv, Answer, Ticket
<1>3. TypeOK'
  BY <1>1, <1>2 DEF SmpInv, TypeOK
<1> QED BY <1>1, <1>3 DEF SmpInv, RecordsOk, PendingOk

\* The timeout of a probe only withdraws the ticket.
LEMMA TimeoutStep ==
  ASSUME SmpInv, Timeout
  PROVE  SmpInv'
<1>1. /\ UNCHANGED <<tasks, queues, current, online, transaction, answered>>
      /\ pending' = NoTicket /\ pending.kind = "OfflineProbe"
  BY DEF Timeout
<1>2. TypeOK' /\ RecordsOk'
  BY <1>1 DEF SmpInv, TypeOK, RecordsOk
<1>3. PendingOk'
  BY <1>1 DEF SmpInv, PendingOk, TransfersOk
<1> QED BY <1>1, <1>2, <1>3 DEF SmpInv

\* offline_idle_cpu: no task is runnable, running or in transfer on an idle CPU.
LEMMA OfflineStep ==
  ASSUME SmpInv, NEW c \in Cpu, OfflineIdleCpu(c)
  PROVE  SmpInv'
<1>1. /\ UNCHANGED <<tasks, queues, current, pending, transaction, answered>>
      /\ online' = online \ {c} /\ pending = NoTicket
      /\ current[c] = NoTask /\ queues[c] = <<>>
  BY DEF OfflineIdleCpu, ticketVars, NoPending
<1>2. TypeOK'
  BY <1>1 DEF SmpInv, TypeOK
<1>3. RecordsOk'
  <2> SUFFICES ASSUME NEW s \in Slot PROVE RecordOk(tasks[s], online \ {c})
    BY <1>1, Zenon DEF RecordsOk
  <2> DEFINE id == IdOf(tasks, s)
  <2>1. RecordOk(tasks[s], online)
    BY DEF SmpInv, RecordsOk
  <2>2. id \in TaskId /\ id.slot = s /\ id.generation = tasks[s].generation
    BY DEF SmpInv, TypeOK, IdOf, TaskId, TaskRecord
  <2> HIDE DEF id
  <2>3. tasks[s].state = "Runnable" => tasks[s].owner_cpu # c
    <3>1. ~In(queues[c], id)
      BY <1>1 DEF In
    <3> QED BY <2>1, <2>2, <3>1 DEF SmpInv, Queued, Ready, RecordOk
  <2>4. tasks[s].state = "Running" => tasks[s].owner_cpu # c
    <3>1. current[c] # id
      BY <1>1, <2>2, AbsenceAssumption
    <3> QED BY <2>2, <3>1 DEF SmpInv, OnCpu, Runs
  <2>5. tasks[s].state # "Transfer"
    BY <1>1 DEF SmpInv, PendingOk, TransfersOk
  <2> QED BY <2>1, <2>3, <2>4, <2>5 DEF RecordOk
<1>4. PendingOk'
  BY <1>1 DEF SmpInv, PendingOk, TransfersOk
<1> QED BY <1>1, <1>2, <1>3, <1>4 DEF SmpInv

-----------------------------------------------------------------------------
(* The theorems *)

\* SmpInv is inductive, and no step takes an owner epoch back.
LEMMA SmpStep ==
  ASSUME SmpInv, [Next]_schedVars
  PROVE  SmpInv' /\ Fenced
<1>0. tasks \in [Slot -> TaskRecord]
  BY DEF SmpInv, TypeOK
<1>1. ASSUME NEW s \in Slot, TaskOp(s) PROVE SmpInv' /\ Fenced
  <2>1. CASE \E g \in 1..MaxGeneration, p \in Priority, a \in Affinity : CreateTask(s, g, p, a)
    BY <2>1, CreateStep
  <2>2. CASE \E c \in Cpu : Activate(s, c)
    BY <2>2, ActivateStep
  <2>3. CASE BlockRunnable(s)
    BY <2>3, BlockStep
  <2>4. CASE CancelTask(s)
    BY <2>4, CancelStep
  <2>5. CASE \E c \in Cpu : StageWake(s, c)
    BY <1>0, <2>5, StageWakeStep, FenceSame DEF StageWake
  <2>6. CASE \E c \in Cpu : StageMigration(s, c)
    BY <1>0, <2>6, StageMigrationStep, FenceSame DEF StageMigration
  <2>7. CASE StageOfflineProbe(s)
    BY <1>0, <2>7, StageProbeStep, FenceSame DEF StageOfflineProbe
  <2> QED BY <1>1, <2>1, <2>2, <2>3, <2>4, <2>5, <2>6, <2>7 DEF TaskOp
<1>2. ASSUME NEW c \in Cpu, CpuOp(c) PROVE SmpInv' /\ Fenced
  <2>1. CASE StageDispatch(c)
    BY <2>1, StageDispatchStep
  <2>2. CASE StagePreempt(c)
    BY <1>0, <2>2, StagePreemptStep, FenceSame DEF StagePreempt
  <2>3. CASE CompleteCurrent(c)
    BY <2>3, CompleteStep
  <2>4. CASE OfflineIdleCpu(c)
    BY <1>0, <2>4, OfflineStep, FenceSame DEF OfflineIdleCpu
  <2> QED BY <1>2, <2>1, <2>2, <2>3, <2>4 DEF CpuOp
<1>3. ASSUME NEW i \in DOMAIN queues[0], DispatchLocal(i) PROVE SmpInv' /\ Fenced
  BY <1>3, LocalStep
<1>4. CASE Answer
  BY <1>0, <1>4, AnswerStep, FenceSame DEF Answer
<1>5. ASSUME NEW ack \in answered, Acknowledge(ack) PROVE SmpInv' /\ Fenced
  <2>1. CASE CommitWake(pending)
    BY <1>5, <2>1, WakeStep
  <2>2. CASE CommitMigration(pending)
    BY <1>5, <2>2, MigrationStep
  <2>3. CASE CommitDispatch(pending)
    BY <1>5, <2>3, DispatchStep
  <2>4. CASE CommitPreempt(pending)
    BY <1>5, <2>4, PreemptStep
  <2> QED BY <1>5, <2>1, <2>2, <2>3, <2>4 DEF Acknowledge
<1>6. CASE Timeout
  BY <1>0, <1>6, TimeoutStep, FenceSame DEF Timeout
<1>7. CASE UNCHANGED schedVars
  BY <1>0, <1>7, FenceSame DEF schedVars, SmpInv, TypeOK, RecordsOk, PendingOk
<1> QED BY <1>1, <1>2, <1>3, <1>4, <1>5, <1>6, <1>7 DEF Next

\* The controller starts with empty queues and idle CPUs.
LEMMA SmpInit == Init => SmpInv
<1> SUFFICES ASSUME Init PROVE SmpInv
  OBVIOUS
<1>1. \A s \in Slot : tasks[s] = EmptyTask
  BY DEF Init
<1>2. EmptyTask \in TaskRecord
  BY DEF EmptyTask, TaskRecord
<1>3. TypeOK
  BY <1>2 DEF TypeOK, Init
<1>4. \A s \in Slot : tasks[s].state = "Dormant"
  BY <1>1 DEF EmptyTask
<1>5. Queued(tasks, queues)
  <2>1. \A c \in Cpu : queues[c] = <<>>
    BY DEF Init
  <2>2. \A c \in Cpu : Once(queues[c]) /\ \A id : ~In(queues[c], id)
    BY <2>1 DEF Once, In
  <2> QED BY <1>4, <2>2 DEF Queued, Ready, TaskId
<1>6. OnCpu(tasks, current)
  BY <1>4, AbsenceAssumption DEF OnCpu, Runs, TaskId, Init
<1>7. RecordsOk
  BY <1>1 DEF RecordsOk, RecordOk, EmptyTask
<1>8. PendingOk
  BY <1>4 DEF PendingOk, TransfersOk, Init
<1> QED BY <1>3, <1>5, <1>6, <1>7, <1>8 DEF SmpInv

-----------------------------------------------------------------------------
(* What follows from the invariant *)

\* What validate() checks of the tasks, the queues and the CPUs follows from the
\* invariant.
LEMMA InvPlaces == SmpInv => PlacementOk
<1> SUFFICES ASSUME SmpInv PROVE PlacementOk
  OBVIOUS
<1>0. /\ tasks \in [Slot -> TaskRecord] /\ queues \in [Cpu -> Seq(TaskId)]
      /\ current \in [Cpu -> TaskId \cup {NoTask}]
  BY DEF SmpInv, TypeOK
<1>1. QueuedOk
  <2> SUFFICES ASSUME NEW c \in Cpu, NEW i \in DOMAIN queues[c]
               PROVE  LET id == queues[c][i] IN
                        /\ Known(id) /\ tasks[id.slot].state = "Runnable"
                        /\ tasks[id.slot].queued_cpu = c /\ Owned(id.slot, c)
                        /\ \A j \in DOMAIN queues[c] : queues[c][j] = id => j = i
    BY DEF QueuedOk
  <2> DEFINE id == queues[c][i]
  <2>1. DOMAIN queues[c] = 1..Len(queues[c])
    BY <1>0
  <2>2. id \in TaskId
    BY <1>0, <2>1
  <2>3. In(queues[c], id)
    BY <2>1 DEF In
  <2>4. Ready(tasks, id, c) /\ Once(queues[c])
    BY <2>2, <2>3 DEF SmpInv, Queued
  <2>5. \A j \in DOMAIN queues[c] : queues[c][j] = id => j = i
    BY <2>1, <2>4 DEF Once
  <2> HIDE DEF id
  <2>6. id.slot \in Slot /\ id = Id(id.slot)
    BY <2>2, <2>4 DEF TaskId, Ready, Id
  <2>7. RecordOk(tasks[id.slot], online)
    BY <2>6 DEF SmpInv, RecordsOk
  <2>8. /\ Known(id) /\ tasks[id.slot].state = "Runnable"
        /\ tasks[id.slot].queued_cpu = c /\ Owned(id.slot, c)
    BY <2>4, <2>6, <2>7 DEF Known, Ready, Owned, RecordOk
  <2> QED BY <2>5, <2>8 DEF id
<1>2. RunningOk
  <2> SUFFICES ASSUME NEW c \in Cpu, current[c] # NoTask
               PROVE  /\ Known(current[c]) /\ tasks[current[c].slot].state = "Running"
                      /\ Owned(current[c].slot, c)
    BY DEF RunningOk
  <2> DEFINE id == current[c]
  <2>1. id \in TaskId
    BY <1>0
  <2>2. Runs(tasks, id, c)
    BY <2>1 DEF SmpInv, OnCpu
  <2> HIDE DEF id
  <2>3. id.slot \in Slot /\ id = Id(id.slot)
    BY <2>1, <2>2 DEF TaskId, Runs, Id
  <2>4. RecordOk(tasks[id.slot], online)
    BY <2>3 DEF SmpInv, RecordsOk
  <2>5. Known(id) /\ tasks[id.slot].state = "Running" /\ Owned(id.slot, c)
    BY <2>2, <2>3, <2>4 DEF Known, Runs, Owned, RecordOk
  <2> QED BY <2>5 DEF id
<1>3. TasksOk
  <2> SUFFICES ASSUME NEW s \in Slot
               PROVE  LET t == tasks[s] IN
      /\ t.state = "Runnable" => t.queued_cpu # NoCpu /\ Contains(queues[t.queued_cpu], Id(s))
      /\ t.state = "Running" => t.owner_cpu # NoCpu /\ current[t.owner_cpu] = Id(s)
      /\ t.state = "Transfer" =>
           /\ pending # NoTicket /\ pending.kind = "Dispatch" /\ pending.task = Id(s)
           /\ Owned(s, pending.target_cpu) /\ current[pending.target_cpu] = NoTask
      /\ t.state # "Runnable" => t.queued_cpu = NoCpu
      /\ (t.owner_cpu = NoCpu) = (t.state \in {"Dormant", "Dead"})
      /\ t.state # "Dormant" => t.owner_epoch # 0
    BY DEF TasksOk
  <2> DEFINE t == tasks[s]
  <2>1. RecordOk(t, online)
    BY DEF SmpInv, RecordsOk
  <2>2. Id(s) \in TaskId /\ Id(s).slot = s /\ Id(s).generation = t.generation
    BY IdFacts
  <2>3. t.state = "Runnable" => t.queued_cpu # NoCpu /\ Contains(queues[t.queued_cpu], Id(s))
    <3> SUFFICES ASSUME t.state = "Runnable"
                 PROVE  t.queued_cpu # NoCpu /\ Contains(queues[t.queued_cpu], Id(s))
      OBVIOUS
    <3>1. t.queued_cpu \in Cpu
      BY <2>1 DEF RecordOk
    <3>2. In(queues[t.queued_cpu], Id(s))
      BY <2>2, <3>1 DEF SmpInv, Queued, Ready
    <3> QED BY <3>1, <3>2, CpuAssumption DEF In, Contains
  <2>4. t.state = "Running" => t.owner_cpu # NoCpu /\ current[t.owner_cpu] = Id(s)
    <3> SUFFICES ASSUME t.state = "Running"
                 PROVE  t.owner_cpu # NoCpu /\ current[t.owner_cpu] = Id(s)
      OBVIOUS
    <3>1. t.owner_cpu \in Cpu
      BY <2>1 DEF RecordOk
    <3>2. Runs(tasks, Id(s), t.owner_cpu)
      BY <2>2 DEF Runs
    <3>3. current[t.owner_cpu] = Id(s)
      BY <2>2, <3>1, <3>2 DEF SmpInv, OnCpu
    <3> QED BY <3>1, <3>3, CpuAssumption
  <2>5. t.state = "Transfer" =>
           /\ pending # NoTicket /\ pending.kind = "Dispatch" /\ pending.task = Id(s)
           /\ Owned(s, pending.target_cpu) /\ current[pending.target_cpu] = NoTask
    <3> SUFFICES ASSUME t.state = "Transfer"
                 PROVE  /\ pending # NoTicket /\ pending.kind = "Dispatch"
                        /\ pending.task = Id(s) /\ Owned(s, pending.target_cpu)
                        /\ current[pending.target_cpu] = NoTask
      OBVIOUS
    <3>1. pending # NoTicket /\ pending.kind = "Dispatch" /\ pending.task.slot = s
      BY DEF SmpInv, PendingOk, TransfersOk
    <3>2. pending.task = IdOf(tasks, s) /\ TicketOk(pending, tasks, current, online)
      BY <3>1, TicketTask
    <3>3. t.owner_cpu = pending.target_cpu /\ current[pending.target_cpu] = NoTask
      BY <3>1, <3>2 DEF TicketOk
    <3> QED BY <2>1, <3>1, <3>2, <3>3, IdFacts DEF Owned, RecordOk
  <2>6. /\ t.state # "Runnable" => t.queued_cpu = NoCpu
        /\ t.state # "Dormant" => t.owner_epoch # 0
    BY <2>1 DEF RecordOk
  <2>7. (t.owner_cpu = NoCpu) <=> (t.state \in {"Dormant", "Dead"})
    BY <2>1, CpuAssumption DEF RecordOk
  <2>8. (t.owner_cpu = NoCpu) = (t.state \in {"Dormant", "Dead"})
    BY <2>7
  <2> HIDE DEF t
  <2> QED BY <2>3, <2>4, <2>5, <2>6, <2>8 DEF t
<1> QED BY <1>1, <1>2, <1>3 DEF PlacementOk

\* What a ticket was staged for is, by the invariant, still so.
LEMMA InvCommits == SmpInv => CommitReady
<1> SUFFICES ASSUME SmpInv, pending # NoTicket
             PROVE  IF pending.kind = "OfflineProbe" THEN ProbeFits(pending)
                                                     ELSE Fits(pending)
  BY DEF CommitReady
<1> DEFINE s == pending.task.slot
<1>1. /\ pending \in Ticket /\ pending.task \in TaskId /\ s \in Slot
      /\ pending.task = IdOf(tasks, s) /\ tasks[s].state \notin {"Dormant", "Dead"}
      /\ TicketOk(pending, tasks, current, online)
  BY TicketTask
<1>2. RecordOk(tasks[s], online)
  BY <1>1 DEF SmpInv, RecordsOk
<1>3. Known(pending.task)
  BY <1>1, <1>2 DEF Known, Id, IdOf, RecordOk
<1>4. pending.kind = "Migration" => Contains(queues[pending.source_cpu], pending.task)
  <2> SUFFICES ASSUME pending.kind = "Migration"
               PROVE  Contains(queues[pending.source_cpu], pending.task)
    OBVIOUS
  <2>1. pending.source_cpu \in Cpu
    BY <1>1 DEF Ticket
  <2>2. Ready(tasks, pending.task, pending.source_cpu)
    BY <1>1 DEF TicketOk, Ready
  <2>3. In(queues[pending.source_cpu], pending.task)
    BY <1>1, <2>1, <2>2 DEF SmpInv, Queued
  <2> QED BY <2>3 DEF In, Contains
<1>5. CASE pending.kind = "OfflineProbe"
  BY <1>1, <1>3, <1>5 DEF ProbeFits, TicketOk
<1>6. CASE pending.kind # "OfflineProbe"
  BY <1>1, <1>3, <1>4, <1>6 DEF Fits, TicketOk
<1> QED BY <1>5, <1>6
=============================================================================
