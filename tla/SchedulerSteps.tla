-------------------------- MODULE SchedulerSteps --------------------------
(***************************************************************************)
(* The placement protocol of Scheduler, for every number of slots, CPUs    *)
(* and priorities: the inductive invariant, the operations that move one   *)
(* task preserve it, and it gives the invariants that the runs check.      *)
(* SchedulerProofs adds the operations that move several tasks at once.    *)
(***************************************************************************)
EXTENDS Scheduler, TLAPS

\* A leaf is tried with SMT, then with Zenon, then with SMT for longer.
USE SMT, Zenon, SMTT(40)

-----------------------------------------------------------------------------
(* The inductive invariant.  The run queues and the wait list are reduced to  *)
(* what they contain: each holds the ids of a set of tasks, each id once.     *)

\* Queue q contains e; it contains nothing twice; it contains exactly S.
In(q, e) == \E i \in 1..Len(q) : q[i] = e
Once(q) == \A i, j \in 1..Len(q) : q[i] = q[j] => i = j
Lists(q, S) == Once(q) /\ \A x : In(q, x) <=> x \in S

\* The id of the present generation of slot s.
IdOf(ts, s) == [slot |-> s, generation |-> ts[s].generation]

\* The tasks that should be in the queue of CPU c, that should be current on it,
\* and that should be on the wait list.
ReadyOn(ts, c) ==
    {id \in TaskId : /\ id.generation = ts[id.slot].generation
                     /\ ts[id.slot].state = "Runnable" /\ ts[id.slot].queued_cpu = c}

RunningOn(ts, c) ==
    {id \in TaskId : /\ id.generation = ts[id.slot].generation
                     /\ ts[id.slot].state = "Running" /\ ts[id.slot].assigned_cpu = c}

BlockedOnMutex(ts) ==
    {id \in TaskId : /\ id.generation = ts[id.slot].generation
                     /\ ts[id.slot].wait_kind = "Mutex"}

\* The fields of one record agree with its state, and with its donation.
RecordOk(t, d) ==
    /\ t.state # "Dormant" => t.generation # 0
    /\ t.generation # 0 => t.affinity # {}
    /\ t.state = "Runnable" => t.queued_cpu = t.assigned_cpu
    /\ t.state \in {"Runnable", "Running"} => t.assigned_cpu \in t.affinity
    /\ t.state # "Runnable" => t.queued_cpu = NoCpu /\ t.bypass_count = 0
    /\ t.state \in {"Dormant", "Dead"} => t.assigned_cpu = NoCpu /\ d = 0
    /\ t.wake_reason # "None" => t.state \in {"Runnable", "Running"}
    /\ t.state = "Blocked" <=> t.wait_kind # "None"

\* Each queue lists the tasks that are ready there, each CPU runs the one task that
\* says so, and every record is in order.
QueuesOk(ts, qs) == \A c \in Cpu : Lists(qs[c], ReadyOn(ts, c))
CpusOk(ts, cur) == \A c \in Cpu : RunningOn(ts, c) = {cur[c]} \ {NoTask}
RecordsOk(ts, d) == \A s \in Slot : RecordOk(ts[s], d[s])

\* The mutex belongs to a task that is not waiting for it, and only an owned
\* mutex has waiters.
OwnerOk(ts, o, ws) ==
    /\ o = NoTask => ws = <<>>
    /\ o # NoTask => /\ o = IdOf(ts, o.slot)
                     /\ ts[o.slot].state \notin {"Dormant", "Dead"}
                     /\ ts[o.slot].wait_kind # "Mutex"

\* The base priorities the owner o inherits from its waiters ws.
InheritedBy(ts, o, ws, s) ==
    IF o # NoTask /\ o.slot = s
    THEN {ts[ws[i].slot].base_priority : i \in DOMAIN ws}
    ELSE {}

\* PriorityExact, task by task.
Exact(ts, o, ws, d) ==
    \A s \in Slot : ts[s].generation # 0 =>
      ts[s].effective_priority =
        Max({ts[s].base_priority, d[s]} \cup InheritedBy(ts, o, ws, s))

\* The inductive invariant: validate() as a relation between the records and the
\* queues, the CPUs, the wait list and the donations.
SchedulerInv ==
    /\ TypeOK
    /\ QueuesOk(tasks, queues)
    /\ CpusOk(tasks, current)
    /\ Lists(mutex_waiters, BlockedOnMutex(tasks))
    /\ RecordsOk(tasks, donation)
    /\ OwnerOk(tasks, mutex_owner, mutex_waiters)
    /\ Exact(tasks, mutex_owner, mutex_waiters, donation)

\* What WakeOnce asks of a slot whose record t becomes u.
Reasoned(t, u) ==
    t.wake_reason # "None" /\ u.wake_reason # t.wake_reason
      => u.wake_reason = "None" /\ t.generation = u.generation

\* What WakeOnce asks of a step.
Progress == \A s \in Slot : Reasoned(tasks[s], tasks'[s])
-----------------------------------------------------------------------------
(* Queues *)

\* What Append adds to a queue.
LEMMA AppendIn ==
  ASSUME NEW S, NEW q \in Seq(S), NEW e \in S
  PROVE  /\ Append(q, e) \in Seq(S)
         /\ \A x : In(Append(q, e), x) <=> In(q, x) \/ x = e
         /\ Once(q) /\ ~In(q, e) => Once(Append(q, e))
<1> DEFINE r == Append(q, e)
           n == Len(q)
<1>1. /\ r \in Seq(S) /\ Len(r) = n + 1 /\ n \in Nat
      /\ \A i \in 1..n : r[i] = q[i]
      /\ r[n + 1] = e
  OBVIOUS
<1> HIDE DEF r, n
<1>2. ASSUME NEW x PROVE In(r, x) <=> In(q, x) \/ x = e
  <2>1. 1..Len(r) = 1..n \cup {n + 1}
    BY <1>1
  <2> QED BY <1>1, <2>1 DEF In, n
<1>3. ASSUME Once(q), ~In(q, e) PROVE Once(r)
  <2> SUFFICES ASSUME NEW i \in 1..n + 1, NEW j \in 1..n + 1, r[i] = r[j] PROVE i = j
    BY <1>1 DEF Once
  <2> QED BY <1>1, <1>3 DEF Once, In, n
<1> QED BY <1>1, <1>2, <1>3 DEF r

\* The entries of two queues put together.
LEMMA Joined ==
  ASSUME NEW S, NEW a \in Seq(S), NEW b \in Seq(S)
  PROVE  /\ a \o b \in Seq(S) /\ Len(a \o b) = Len(a) + Len(b)
         /\ \A m \in 1..Len(a) : (a \o b)[m] = a[m]
         /\ \A m \in 1..Len(b) : (a \o b)[Len(a) + m] = b[m]
OBVIOUS

\* Taking one entry out of a queue that holds every id once removes that id.
LEMMA RemoveAtOut ==
  ASSUME NEW S, NEW q \in Seq(S), Once(q), NEW k \in 1..Len(q)
  PROVE  /\ RemoveAt(q, k) \in Seq(S)
         /\ \A x : In(RemoveAt(q, k), x) <=> In(q, x) /\ x # q[k]
         /\ Once(RemoveAt(q, k))
<1> DEFINE n == Len(q)
           r == RemoveAt(q, k)
           At(m) == IF m < k THEN m ELSE m + 1
<1>0. n \in Nat /\ k \in 1..n /\ DOMAIN q = 1..n /\ \A i \in 1..n : q[i] \in S
  OBVIOUS
<1>1. ASSUME NEW m \in 1..n - 1 PROVE At(m) \in 1..n /\ At(m) # k
  BY <1>0
<1> DEFINE a == SubSeq(q, 1, k - 1)
           b == SubSeq(q, k + 1, n)
<1>2. /\ a \in Seq(S) /\ Len(a) = k - 1 /\ \A m \in 1..k - 1 : a[m] = q[m]
      /\ b \in Seq(S) /\ Len(b) = n - k /\ \A m \in 1..n - k : b[m] = q[m + k]
  <2>1. /\ k - 1 \in Nat /\ n - k \in Nat /\ n \in Nat /\ (k - 1) - 1 + 1 = k - 1
        /\ n - (k + 1) + 1 = n - k
    BY <1>0
  <2>2. a = [m \in 1..k - 1 |-> q[m]]
    BY <1>0, <2>1
  <2>3. b = [m \in 1..n - k |-> q[m + k]]
    BY <1>0, <2>1
  <2> HIDE DEF a, b, n
  <2>4. \A m \in 1..k - 1 : m \in 1..n
    BY <1>0
  <2>5. \A m \in 1..n - k : m + k \in 1..n
    BY <1>0
  <2> QED BY <1>0, <2>1, <2>2, <2>3, <2>4, <2>5
<1>3. r \in Seq(S) /\ Len(r) = n - 1 /\ \A m \in 1..n - 1 : r[m] = q[At(m)]
  <2>1. r = a \o b
    BY DEF RemoveAt
  <2> HIDE DEF a, b, r
  <2>2. /\ r \in Seq(S) /\ Len(r) = Len(a) + Len(b)
        /\ \A m \in 1..Len(a) : r[m] = a[m]
        /\ \A m \in 1..Len(b) : r[Len(a) + m] = b[m]
    <3>1. a \in Seq(S) /\ b \in Seq(S)
      BY <1>2
    <3>2. /\ a \o b \in Seq(S) /\ Len(a \o b) = Len(a) + Len(b)
          /\ \A m \in 1..Len(a) : (a \o b)[m] = a[m]
          /\ \A m \in 1..Len(b) : (a \o b)[Len(a) + m] = b[m]
      BY <3>1
    <3> QED BY <2>1, <3>2
  <2> HIDE DEF n
  <2>3. Len(r) = n - 1
    BY <1>0, <1>2, <2>2
  <2>4. ASSUME NEW m \in 1..n - 1 PROVE r[m] = q[At(m)]
    <3>1. CASE m < k
      <4>1. m \in 1..k - 1
        BY <1>0, <3>1
      <4>2. r[m] = a[m] /\ a[m] = q[m]
        BY <1>2, <2>2, <4>1
      <4> QED BY <3>1, <4>2
    <3>2. CASE ~(m < k)
      <4> DEFINE j == m - (k - 1)
      <4>1. j \in 1..n - k /\ j + k = m + 1 /\ (k - 1) + j = m
        BY <1>0, <3>2
      <4> HIDE DEF j
      <4>2. r[m] = b[j]
        BY <1>2, <2>2, <4>1, Zenon
      <4> QED BY <1>2, <3>2, <4>1, <4>2
    <3> QED BY <3>1, <3>2
  <2> QED BY <2>2, <2>3, <2>4, Zenon
<1> HIDE DEF At, r, n
<1>4. \A i, j \in 1..n : q[i] = q[j] => i = j
  BY DEF Once, n
<1>5. ASSUME NEW x PROVE In(r, x) <=> In(q, x) /\ x # q[k]
  <2>1. ASSUME In(r, x) PROVE In(q, x) /\ x # q[k]
    BY <1>0, <1>1, <1>3, <1>4, <2>1 DEF In, n
  <2>2. ASSUME In(q, x), x # q[k] PROVE In(r, x)
    <3>1. PICK i \in 1..n : q[i] = x
      BY <2>2 DEF In, n
    <3>2. \E m \in 1..n - 1 : At(m) = i
      <4>1. CASE i < k
        BY <1>0, <4>1 DEF At
      <4>2. CASE i > k
        <5>1. i - 1 \in 1..n - 1 /\ At(i - 1) = i
          BY <1>0, <4>2 DEF At
        <5> QED BY <5>1
      <4> QED BY <1>0, <2>2, <3>1, <4>1, <4>2
    <3> QED BY <1>3, <3>1, <3>2 DEF In
  <2> QED BY <2>1, <2>2
<1>6. Once(r)
  <2> SUFFICES ASSUME NEW i \in 1..n - 1, NEW j \in 1..n - 1, r[i] = r[j] PROVE i = j
    BY <1>3 DEF Once
  <2>1. At(i) = At(j)
    BY <1>1, <1>3, <1>4
  <2> QED BY <1>0, <2>1 DEF At
<1> QED BY <1>3, <1>5, <1>6 DEF r

\* Appending an id that is not listed lists it too.
LEMMA ListsGain ==
  ASSUME NEW q \in Seq(TaskId), NEW S, Lists(q, S), NEW e \in TaskId, e \notin S
  PROVE  Lists(Append(q, e), S \cup {e})
BY AppendIn DEF Lists

\* Taking out an entry takes out what it lists.
LEMMA ListsLoseAt ==
  ASSUME NEW q \in Seq(TaskId), NEW S, Lists(q, S), NEW k \in 1..Len(q)
  PROVE  q[k] \in S /\ Lists(RemoveAt(q, k), S \ {q[k]})
<1>1. q[k] \in S
  BY DEF Lists, In
<1>2. Once(q)
  BY DEF Lists
<1>3. /\ \A x : In(RemoveAt(q, k), x) <=> In(q, x) /\ x # q[k]
      /\ Once(RemoveAt(q, k))
  BY <1>2, RemoveAtOut
<1> QED BY <1>1, <1>3, Zenon DEF Lists

\* Remove takes out the id it is given.
LEMMA ListsLose ==
  ASSUME NEW q \in Seq(TaskId), NEW S, Lists(q, S), NEW e \in S
  PROVE  Lists(Remove(q, e), S \ {e})
<1> DEFINE at == {i \in 1..Len(q) : q[i] = e}
<1>1. PICK k \in 1..Len(q) : q[k] = e
  BY DEF Lists, In
<1>2. at = {k}
  BY <1>1 DEF Lists, Once
<1>3. Min(at) = k
  BY <1>1, <1>2 DEF Min
<1>4. Remove(q, e) = RemoveAt(q, k)
  BY <1>2, <1>3, Zenon DEF Remove
<1> QED BY <1>1, <1>4, ListsLoseAt

-----------------------------------------------------------------------------
(* Moves of one task *)

\* Two records a reader of the queues, the CPUs and the mutex cannot tell apart.
Alike(t, u) ==
    /\ t.generation = u.generation /\ t.state = u.state /\ t.affinity = u.affinity
    /\ t.assigned_cpu = u.assigned_cpu /\ t.queued_cpu = u.queued_cpu
    /\ t.wait_kind = u.wait_kind /\ t.wake_reason = u.wake_reason

\* All tasks but s are alike in tables ts and us.
AlikeBut(ts, us, s) == \A r \in Slot : r # s => Alike(ts[r], us[r])

\* An id is its slot and its generation.
LEMMA SameId ==
  \A a, b \in TaskId : a.slot = b.slot /\ a.generation = b.generation => a = b
BY DEF TaskId

\* The id of a slot.
LEMMA IdFacts ==
  ASSUME NEW ts \in [Slot -> TaskType], NEW s \in Slot
  PROVE  /\ IdOf(ts, s) \in TaskId /\ IdOf(ts, s) # NoTask
         /\ IdOf(ts, s).slot = s /\ IdOf(ts, s).generation = ts[s].generation
BY NoTaskAssumption DEF IdOf, TaskId, TaskType

\* When one task changes, within its generation, its id is the only one that
\* enters or leaves the sets.
LEMMA ReadyMoves ==
  ASSUME NEW ts \in [Slot -> TaskType], NEW us, NEW s \in Slot, AlikeBut(ts, us, s),
         us[s].generation = ts[s].generation, NEW c
  PROVE  /\ IdOf(ts, s) \in ReadyOn(ts, c) <=> ts[s].state = "Runnable" /\ ts[s].queued_cpu = c
         /\ us[s].state = "Runnable" /\ us[s].queued_cpu = c =>
              ReadyOn(us, c) = ReadyOn(ts, c) \cup {IdOf(ts, s)}
         /\ ~(us[s].state = "Runnable" /\ us[s].queued_cpu = c) =>
              ReadyOn(us, c) = ReadyOn(ts, c) \ {IdOf(ts, s)}
<1>1. /\ IdOf(ts, s) \in TaskId /\ IdOf(ts, s).slot = s
      /\ IdOf(ts, s).generation = ts[s].generation
  BY IdFacts
<1>2. \A id \in TaskId : id = IdOf(ts, s) <=> id.slot = s /\ id.generation = ts[s].generation
  BY <1>1, SameId
<1>3. \A id \in TaskId : id.slot \in Slot
  BY DEF TaskId
<1>4. ASSUME NEW id \in TaskId, id.slot # s
      PROVE  id \in ReadyOn(us, c) <=> id \in ReadyOn(ts, c)
  BY <1>3, <1>4 DEF ReadyOn, AlikeBut, Alike
<1>5. ASSUME NEW id \in TaskId, id.slot = s
      PROVE  id \in ReadyOn(us, c) <=>
               id = IdOf(ts, s) /\ us[s].state = "Runnable" /\ us[s].queued_cpu = c
  BY <1>2, <1>5 DEF ReadyOn
<1>6. ASSUME NEW id \in TaskId, id.slot = s
      PROVE  id \in ReadyOn(ts, c) <=>
               id = IdOf(ts, s) /\ ts[s].state = "Runnable" /\ ts[s].queued_cpu = c
  BY <1>2, <1>6 DEF ReadyOn
<1>7. ReadyOn(us, c) \subseteq TaskId /\ ReadyOn(ts, c) \subseteq TaskId
  BY DEF ReadyOn
<1> QED BY <1>1, <1>4, <1>5, <1>6, <1>7

\* A task that becomes runnable becomes ready on one CPU.
LEMMA ReadyGains ==
  ASSUME NEW ts \in [Slot -> TaskType], NEW us, NEW s \in Slot, AlikeBut(ts, us, s),
         us[s].generation = ts[s].generation, NEW c,
         ts[s].state # "Runnable", us[s].state = "Runnable", us[s].queued_cpu = c
  PROVE  /\ IdOf(ts, s) \notin ReadyOn(ts, c)
         /\ ReadyOn(us, c) = ReadyOn(ts, c) \cup {IdOf(ts, s)}
         /\ \A d : d # c => ReadyOn(us, d) = ReadyOn(ts, d)
<1>1. IdOf(ts, s) \notin ReadyOn(ts, c) /\ ReadyOn(us, c) = ReadyOn(ts, c) \cup {IdOf(ts, s)}
  BY ReadyMoves
<1>2. ASSUME NEW d, d # c PROVE ReadyOn(us, d) = ReadyOn(ts, d)
  <2>1. IdOf(ts, s) \notin ReadyOn(ts, d) /\ ReadyOn(us, d) = ReadyOn(ts, d) \ {IdOf(ts, s)}
    BY <1>2, ReadyMoves
  <2> QED BY <2>1
<1> QED BY <1>1, <1>2, Zenon

\* A task that ceases to be runnable was ready on one CPU.
LEMMA ReadyLoses ==
  ASSUME NEW ts \in [Slot -> TaskType], NEW us, NEW s \in Slot, AlikeBut(ts, us, s),
         us[s].generation = ts[s].generation, NEW c,
         ts[s].state = "Runnable", ts[s].queued_cpu = c, us[s].state # "Runnable"
  PROVE  /\ IdOf(ts, s) \in ReadyOn(ts, c)
         /\ ReadyOn(us, c) = ReadyOn(ts, c) \ {IdOf(ts, s)}
         /\ \A d : d # c => ReadyOn(us, d) = ReadyOn(ts, d)
<1>1. IdOf(ts, s) \in ReadyOn(ts, c) /\ ReadyOn(us, c) = ReadyOn(ts, c) \ {IdOf(ts, s)}
  BY ReadyMoves
<1>2. ASSUME NEW d, d # c PROVE ReadyOn(us, d) = ReadyOn(ts, d)
  <2>1. IdOf(ts, s) \notin ReadyOn(ts, d) /\ ReadyOn(us, d) = ReadyOn(ts, d) \ {IdOf(ts, s)}
    BY <1>2, ReadyMoves
  <2> QED BY <2>1
<1> QED BY <1>1, <1>2, Zenon

\* A runnable task that changes queues.
LEMMA ReadyShifts ==
  ASSUME NEW ts \in [Slot -> TaskType], NEW us, NEW s \in Slot, AlikeBut(ts, us, s),
         us[s].generation = ts[s].generation, NEW b, NEW c, b # c,
         ts[s].state = "Runnable", ts[s].queued_cpu = b,
         us[s].state = "Runnable", us[s].queued_cpu = c
  PROVE  /\ IdOf(ts, s) \in ReadyOn(ts, b) /\ IdOf(ts, s) \notin ReadyOn(ts, c)
         /\ ReadyOn(us, b) = ReadyOn(ts, b) \ {IdOf(ts, s)}
         /\ ReadyOn(us, c) = ReadyOn(ts, c) \cup {IdOf(ts, s)}
         /\ \A d : d \notin {b, c} => ReadyOn(us, d) = ReadyOn(ts, d)
<1>1. IdOf(ts, s) \in ReadyOn(ts, b) /\ ReadyOn(us, b) = ReadyOn(ts, b) \ {IdOf(ts, s)}
  BY ReadyMoves
<1>2. IdOf(ts, s) \notin ReadyOn(ts, c) /\ ReadyOn(us, c) = ReadyOn(ts, c) \cup {IdOf(ts, s)}
  BY ReadyMoves
<1>3. ASSUME NEW d, d \notin {b, c} PROVE ReadyOn(us, d) = ReadyOn(ts, d)
  <2>1. IdOf(ts, s) \notin ReadyOn(ts, d) /\ ReadyOn(us, d) = ReadyOn(ts, d) \ {IdOf(ts, s)}
    BY <1>3, ReadyMoves
  <2> QED BY <2>1
<1> QED BY <1>1, <1>2, <1>3, Zenon

\* The same for the tasks running on a CPU.
LEMMA RunningMoves ==
  ASSUME NEW ts \in [Slot -> TaskType], NEW us, NEW s \in Slot, AlikeBut(ts, us, s),
         us[s].generation = ts[s].generation, NEW c
  PROVE  /\ IdOf(ts, s) \in RunningOn(ts, c) <=> ts[s].state = "Running" /\ ts[s].assigned_cpu = c
         /\ us[s].state = "Running" /\ us[s].assigned_cpu = c =>
              RunningOn(us, c) = RunningOn(ts, c) \cup {IdOf(ts, s)}
         /\ ~(us[s].state = "Running" /\ us[s].assigned_cpu = c) =>
              RunningOn(us, c) = RunningOn(ts, c) \ {IdOf(ts, s)}
<1>1. /\ IdOf(ts, s) \in TaskId /\ IdOf(ts, s).slot = s
      /\ IdOf(ts, s).generation = ts[s].generation
  BY IdFacts
<1>2. \A id \in TaskId : id = IdOf(ts, s) <=> id.slot = s /\ id.generation = ts[s].generation
  BY <1>1, SameId
<1>3. \A id \in TaskId : id.slot \in Slot
  BY DEF TaskId
<1>4. ASSUME NEW id \in TaskId, id.slot # s
      PROVE  id \in RunningOn(us, c) <=> id \in RunningOn(ts, c)
  BY <1>3, <1>4 DEF RunningOn, AlikeBut, Alike
<1>5. ASSUME NEW id \in TaskId, id.slot = s
      PROVE  id \in RunningOn(us, c) <=>
               id = IdOf(ts, s) /\ us[s].state = "Running" /\ us[s].assigned_cpu = c
  BY <1>2, <1>5 DEF RunningOn
<1>6. ASSUME NEW id \in TaskId, id.slot = s
      PROVE  id \in RunningOn(ts, c) <=>
               id = IdOf(ts, s) /\ ts[s].state = "Running" /\ ts[s].assigned_cpu = c
  BY <1>2, <1>6 DEF RunningOn
<1>7. RunningOn(us, c) \subseteq TaskId /\ RunningOn(ts, c) \subseteq TaskId
  BY DEF RunningOn
<1> QED BY <1>1, <1>4, <1>5, <1>6, <1>7

\* The same for the tasks blocked on the mutex.
LEMMA WaitingMoves ==
  ASSUME NEW ts \in [Slot -> TaskType], NEW us, NEW s \in Slot, AlikeBut(ts, us, s),
         us[s].generation = ts[s].generation
  PROVE  /\ IdOf(ts, s) \in BlockedOnMutex(ts) <=> ts[s].wait_kind = "Mutex"
         /\ us[s].wait_kind = "Mutex" =>
              BlockedOnMutex(us) = BlockedOnMutex(ts) \cup {IdOf(ts, s)}
         /\ ~(us[s].wait_kind = "Mutex") =>
              BlockedOnMutex(us) = BlockedOnMutex(ts) \ {IdOf(ts, s)}
<1>1. /\ IdOf(ts, s) \in TaskId /\ IdOf(ts, s).slot = s
      /\ IdOf(ts, s).generation = ts[s].generation
  BY IdFacts
<1>2. \A id \in TaskId : id = IdOf(ts, s) <=> id.slot = s /\ id.generation = ts[s].generation
  BY <1>1, SameId
<1>3. \A id \in TaskId : id.slot \in Slot
  BY DEF TaskId
<1>4. ASSUME NEW id \in TaskId, id.slot # s
      PROVE  id \in BlockedOnMutex(us) <=> id \in BlockedOnMutex(ts)
  BY <1>3, <1>4 DEF BlockedOnMutex, AlikeBut, Alike
<1>5. ASSUME NEW id \in TaskId, id.slot = s
      PROVE  id \in BlockedOnMutex(us) <=> id = IdOf(ts, s) /\ us[s].wait_kind = "Mutex"
  BY <1>2, <1>5 DEF BlockedOnMutex
<1>6. ASSUME NEW id \in TaskId, id.slot = s
      PROVE  id \in BlockedOnMutex(ts) <=> id = IdOf(ts, s) /\ ts[s].wait_kind = "Mutex"
  BY <1>2, <1>6 DEF BlockedOnMutex
<1>7. BlockedOnMutex(us) \subseteq TaskId /\ BlockedOnMutex(ts) \subseteq TaskId
  BY DEF BlockedOnMutex
<1> QED BY <1>1, <1>4, <1>5, <1>6, <1>7

\* A task that is and stays out of the run queues leaves them as they are.
LEMMA QueuesKept ==
  ASSUME NEW ts \in [Slot -> TaskType], NEW us, NEW qs, NEW s \in Slot, AlikeBut(ts, us, s),
         us[s].generation = ts[s].generation, QueuesOk(ts, qs),
         ts[s].state # "Runnable", us[s].state # "Runnable"
  PROVE  QueuesOk(us, qs)
<1>1. ASSUME NEW c \in Cpu PROVE ReadyOn(us, c) = ReadyOn(ts, c)
  <2>1. /\ IdOf(ts, s) \notin ReadyOn(ts, c)
        /\ ReadyOn(us, c) = ReadyOn(ts, c) \ {IdOf(ts, s)}
    BY ReadyMoves
  <2> QED BY <2>1
<1> QED BY <1>1 DEF QueuesOk

\* A task that is and stays off the CPUs leaves them as they are.
LEMMA CpusKept ==
  ASSUME NEW ts \in [Slot -> TaskType], NEW us, NEW cur, NEW s \in Slot, AlikeBut(ts, us, s),
         us[s].generation = ts[s].generation, CpusOk(ts, cur),
         ts[s].state # "Running", us[s].state # "Running"
  PROVE  CpusOk(us, cur)
<1>1. ASSUME NEW c \in Cpu PROVE RunningOn(us, c) = RunningOn(ts, c)
  <2>1. /\ IdOf(ts, s) \notin RunningOn(ts, c)
        /\ RunningOn(us, c) = RunningOn(ts, c) \ {IdOf(ts, s)}
    BY RunningMoves
  <2> QED BY <2>1
<1> QED BY <1>1 DEF CpusOk

\* A task that does not wait for the mutex, before or after, leaves its waiters
\* as they are.
LEMMA WaitersKept ==
  ASSUME NEW ts \in [Slot -> TaskType], NEW us, NEW s \in Slot, AlikeBut(ts, us, s),
         us[s].generation = ts[s].generation,
         ts[s].wait_kind # "Mutex", us[s].wait_kind # "Mutex"
  PROVE  BlockedOnMutex(us) = BlockedOnMutex(ts)
<1>1. /\ IdOf(ts, s) \notin BlockedOnMutex(ts)
      /\ BlockedOnMutex(us) = BlockedOnMutex(ts) \ {IdOf(ts, s)}
  BY WaitingMoves, Zenon
<1> QED BY <1>1

\* The owner of the mutex stays its owner while it neither ends nor waits for it.
LEMMA OwnerKept ==
  ASSUME NEW ts, NEW us, NEW o \in TaskId \cup {NoTask}, NEW ws, NEW s \in Slot,
         AlikeBut(ts, us, s), us[s].generation = ts[s].generation, OwnerOk(ts, o, ws),
         us[s].state \notin {"Dormant", "Dead"}, us[s].wait_kind # "Mutex"
  PROVE  OwnerOk(us, o, ws)
BY DEF OwnerOk, AlikeBut, Alike, IdOf, TaskId

\* What the owner inherits depends on base priorities only.
LEMMA SameInherited ==
  ASSUME NEW ts, NEW us, NEW o, NEW ws \in Seq(TaskId),
         \A r \in Slot : us[r].base_priority = ts[r].base_priority, NEW s
  PROVE  InheritedBy(us, o, ws, s) = InheritedBy(ts, o, ws, s)
<1>1. \A i \in DOMAIN ws : ws[i] \in TaskId
  OBVIOUS
<1>2. \A i \in DOMAIN ws : us[ws[i].slot].base_priority = ts[ws[i].slot].base_priority
  BY <1>1 DEF TaskId
<1>3. {us[ws[i].slot].base_priority : i \in DOMAIN ws}
      = {ts[ws[i].slot].base_priority : i \in DOMAIN ws}
  BY <1>2, Zenon
<1> QED BY <1>3, Zenon DEF InheritedBy

\* A step that changes no base or effective priority, no generation, no
\* donation and no wait list leaves the effective priorities exact.
LEMMA ExactKept ==
  ASSUME NEW ts, NEW us, NEW o, NEW ws \in Seq(TaskId), NEW d, Exact(ts, o, ws, d),
         \A r \in Slot : /\ us[r].generation = ts[r].generation
                         /\ us[r].base_priority = ts[r].base_priority
                         /\ us[r].effective_priority = ts[r].effective_priority
  PROVE  Exact(us, o, ws, d)
<1>1. \A s \in Slot : InheritedBy(us, o, ws, s) = InheritedBy(ts, o, ws, s)
  BY SameInherited
<1> QED BY <1>1, Zenon DEF Exact

\* recompute_effective_priorities changes effective priorities only, and makes
\* them exact.
LEMMA Recomputed ==
  ASSUME NEW ts \in [Slot -> TaskType], NEW o, NEW ws \in Seq(TaskId), NEW d
  PROVE  /\ \A r \in Slot : /\ Alike(ts[r], Recompute(ts, o, ws, d)[r])
                            /\ Recompute(ts, o, ws, d)[r].bypass_count = ts[r].bypass_count
         /\ Exact(Recompute(ts, o, ws, d), o, ws, d)
<1> DEFINE E(s) == Max({ts[s].base_priority, d[s]} \cup InheritedBy(ts, o, ws, s))
           us == Recompute(ts, o, ws, d)
<1>1. us = [s \in Slot |->
              IF ts[s].generation = 0 THEN ts[s]
              ELSE [ts[s] EXCEPT !.effective_priority = E(s)]]
  BY Zenon DEF Recompute, InheritedBy
<1> HIDE DEF E
<1>2. ASSUME NEW r \in Slot
      PROVE  /\ Alike(ts[r], us[r]) /\ us[r].bypass_count = ts[r].bypass_count
             /\ us[r].base_priority = ts[r].base_priority
             /\ us[r].generation # 0 => us[r].effective_priority = E(r)
  <2>1. ts[r] \in TaskType
    OBVIOUS
  <2>2. CASE ts[r].generation = 0
    BY <1>1, <2>2 DEF Alike
  <2>3. CASE ts[r].generation # 0
    <3>1. us[r] = [ts[r] EXCEPT !.effective_priority = E(r)]
      BY <1>1, <2>3
    <3> HIDE DEF us
    <3> QED BY <2>1, <3>1 DEF Alike, TaskType
  <2> QED BY <2>2, <2>3
<1> HIDE DEF us
<1>3. \A s \in Slot : InheritedBy(us, o, ws, s) = InheritedBy(ts, o, ws, s)
  BY <1>2, SameInherited
<1>4. Exact(us, o, ws, d)
  BY <1>2, <1>3, Zenon DEF Exact, E
<1> QED BY <1>2, <1>4 DEF us

\* What the operations on one task have in common.
LEMMA Moved ==
  ASSUME SchedulerInv, TypeOK', NEW s \in Slot, AlikeBut(tasks, tasks', s),
         \A r \in Slot : r # s => /\ tasks'[r].bypass_count = tasks[r].bypass_count
                                  /\ donation'[r] = donation[r],
         RecordOk(tasks'[s], donation'[s]), Reasoned(tasks[s], tasks'[s]),
         QueuesOk(tasks', queues'), CpusOk(tasks', current'),
         Lists(mutex_waiters', BlockedOnMutex(tasks')),
         OwnerOk(tasks', mutex_owner', mutex_waiters'),
         Exact(tasks', mutex_owner', mutex_waiters', donation')
  PROVE  SchedulerInv' /\ Progress
<1>1. ASSUME NEW r \in Slot, r # s
      PROVE  RecordOk(tasks'[r], donation'[r]) /\ Reasoned(tasks[r], tasks'[r])
  BY <1>1 DEF SchedulerInv, RecordsOk, RecordOk, AlikeBut, Alike, Reasoned
<1>2. RecordsOk(tasks', donation') /\ Progress
  BY <1>1 DEF RecordsOk, Progress
<1> QED BY <1>2 DEF SchedulerInv

-----------------------------------------------------------------------------
(* The operations that move one task *)

\* The variables of a well-typed state.
LEMMA Types ==
  ASSUME TypeOK
  PROVE  /\ tasks \in [Slot -> TaskType] /\ current \in [Cpu -> TaskId \cup {NoTask}]
         /\ queues \in [Cpu -> Seq(TaskId)] /\ mutex_owner \in TaskId \cup {NoTask}
         /\ mutex_waiters \in Seq(TaskId) /\ donation \in [Slot -> 0..MAX_PRIORITY]
<1>1. PlacedId \subseteq TaskId
  BY DEF PlacedId
<1>2. \A q \in Seq(PlacedId) : q \in Seq(TaskId)
  BY <1>1
<1> QED BY <1>1, <1>2 DEF TypeOK

\* The task a CPU runs.
LEMMA CurrentTask ==
  ASSUME SchedulerInv, NEW c \in Cpu, current[c] # NoTask
  PROVE  /\ current[c].slot \in Slot /\ current[c] = IdOf(tasks, current[c].slot)
         /\ tasks[current[c].slot].state = "Running"
         /\ tasks[current[c].slot].assigned_cpu = c
         /\ RunningOn(tasks, c) = {current[c]}
<1>1. RunningOn(tasks, c) = {current[c]}
  BY DEF SchedulerInv, CpusOk
<1>2. current[c] \in RunningOn(tasks, c)
  BY <1>1
<1>3. /\ current[c] \in TaskId /\ current[c].generation = tasks[current[c].slot].generation
      /\ tasks[current[c].slot].state = "Running"
      /\ tasks[current[c].slot].assigned_cpu = c
  BY <1>2 DEF RunningOn
<1>4. current[c] = IdOf(tasks, current[c].slot)
  BY <1>3 DEF IdOf, TaskId
<1> QED BY <1>1, <1>3, <1>4 DEF TaskId

\* A step that ends with recompute_effective_priorities leaves exact priorities.
LEMMA RecomputedTable ==
  ASSUME NEW ts \in [Slot -> TaskType], NEW o, NEW ws \in Seq(TaskId), NEW d,
         tasks' = Recompute(ts, o, ws, d)
  PROVE  /\ \A r \in Slot : Alike(ts[r], tasks'[r]) /\ tasks'[r].bypass_count = ts[r].bypass_count
         /\ Exact(tasks', o, ws, d)
<1> DEFINE R == Recompute(ts, o, ws, d)
<1>1. /\ \A r \in Slot : Alike(ts[r], R[r]) /\ R[r].bypass_count = ts[r].bypass_count
      /\ Exact(R, o, ws, d)
  BY Recomputed, Zenon
<1>2. tasks' = R
  OBVIOUS
<1> HIDE DEF R
<1> QED BY <1>1, <1>2

\* The table after recompute_effective_priorities has been applied to one in
\* which task s was changed.
LEMMA RecomputedMove ==
  ASSUME TypeOK, NEW s \in Slot, NEW ts \in [Slot -> TaskType],
         \A r \in Slot : r # s => ts[r] = tasks[r],
         NEW o, NEW ws \in Seq(TaskId), NEW d, tasks' = Recompute(ts, o, ws, d)
  PROVE  /\ AlikeBut(tasks, tasks', s)
         /\ \A r \in Slot : r # s => tasks'[r].bypass_count = tasks[r].bypass_count
         /\ Alike(ts[s], tasks'[s]) /\ tasks'[s].bypass_count = ts[s].bypass_count
         /\ Exact(tasks', o, ws, d)
<1>1. /\ \A r \in Slot : Alike(ts[r], tasks'[r]) /\ tasks'[r].bypass_count = ts[r].bypass_count
      /\ Exact(tasks', o, ws, d)
  BY RecomputedTable
<1> QED BY <1>1 DEF AlikeBut

\* The table after task s alone was changed, its priorities excepted.
LEMMA PlainMove ==
  ASSUME TypeOK, NEW s \in Slot, \A r \in Slot : r # s => tasks'[r] = tasks[r],
         Exact(tasks, mutex_owner, mutex_waiters, donation),
         tasks'[s].generation = tasks[s].generation,
         tasks'[s].base_priority = tasks[s].base_priority,
         tasks'[s].effective_priority = tasks[s].effective_priority,
         UNCHANGED <<mutex_owner, mutex_waiters, donation>>
  PROVE  /\ AlikeBut(tasks, tasks', s)
         /\ \A r \in Slot : r # s => /\ tasks'[r].bypass_count = tasks[r].bypass_count
                                     /\ donation'[r] = donation[r]
         /\ Exact(tasks', mutex_owner', mutex_waiters', donation')
<1>1. AlikeBut(tasks, tasks', s)
  BY DEF AlikeBut, Alike
<1>2. Exact(tasks', mutex_owner, mutex_waiters, donation)
  <2>1. \A r \in Slot : /\ tasks'[r].generation = tasks[r].generation
                        /\ tasks'[r].base_priority = tasks[r].base_priority
                        /\ tasks'[r].effective_priority = tasks[r].effective_priority
    OBVIOUS
  <2> QED BY <2>1, Types, ExactKept, Zenon
<1> QED BY <1>1, <1>2

\* A task becomes runnable and joins the queue of CPU c.
LEMMA Enqueued ==
  ASSUME SchedulerInv, NEW s \in Slot, NEW c \in Cpu, AlikeBut(tasks, tasks', s),
         tasks'[s].generation = tasks[s].generation, tasks[s].state # "Runnable",
         tasks'[s].state = "Runnable", tasks'[s].queued_cpu = c,
         queues' = [queues EXCEPT ![c] = Append(queues[c], IdOf(tasks, s))]
  PROVE  QueuesOk(tasks', queues')
<1> DEFINE e == IdOf(tasks, s)
<1>0. tasks \in [Slot -> TaskType]
  BY Types DEF SchedulerInv
<1>1. queues \in [Cpu -> Seq(TaskId)] /\ e \in TaskId
  BY <1>0, Types, IdFacts, Zenon DEF SchedulerInv
<1>2. /\ e \notin ReadyOn(tasks, c) /\ ReadyOn(tasks', c) = ReadyOn(tasks, c) \cup {e}
      /\ \A d : d # c => ReadyOn(tasks', d) = ReadyOn(tasks, d)
  BY <1>0, ReadyGains
<1>3. \A d \in Cpu : Lists(queues[d], ReadyOn(tasks, d))
  BY DEF SchedulerInv, QueuesOk
<1> HIDE DEF e
<1>4. Lists(Append(queues[c], e), ReadyOn(tasks, c) \cup {e})
  BY <1>1, <1>2, <1>3, ListsGain
<1>5. queues'[c] = Append(queues[c], e) /\ \A d \in Cpu : d # c => queues'[d] = queues[d]
  BY <1>1 DEF e
<1> HIDE DEF e
<1> QED BY <1>2, <1>3, <1>4, <1>5, Zenon DEF QueuesOk

\* The running task of CPU c leaves it.
LEMMA LeftCpu ==
  ASSUME SchedulerInv, NEW c \in Cpu, current[c] # NoTask,
         AlikeBut(tasks, tasks', current[c].slot),
         tasks'[current[c].slot].generation = tasks[current[c].slot].generation,
         tasks'[current[c].slot].state # "Running",
         current' = [current EXCEPT ![c] = NoTask]
  PROVE  CpusOk(tasks', current')
<1> DEFINE s == current[c].slot
           e == IdOf(tasks, s)
<1>1. /\ tasks \in [Slot -> TaskType] /\ current \in [Cpu -> TaskId \cup {NoTask}]
  BY Types DEF SchedulerInv
<1>2. s \in Slot /\ current[c] = e /\ RunningOn(tasks, c) = {e}
  BY CurrentTask
<1>3. tasks[s].assigned_cpu = c
  BY CurrentTask
<1>4. tasks'[s].generation = tasks[s].generation /\ tasks'[s].state # "Running"
      /\ AlikeBut(tasks, tasks', s)
  OBVIOUS
<1> HIDE DEF s
<1>5. ASSUME NEW d \in Cpu PROVE RunningOn(tasks', d) = {current'[d]} \ {NoTask}
  <2>1. RunningOn(tasks, d) = {current[d]} \ {NoTask}
    BY DEF SchedulerInv, CpusOk
  <2>2. RunningOn(tasks', d) = RunningOn(tasks, d) \ {e}
    BY <1>1, <1>2, <1>4, RunningMoves
  <2> HIDE DEF e
  <2>3. CASE d = c
    BY <1>1, <1>2, <2>2, <2>3
  <2>4. CASE d # c
    <3>1. e \notin RunningOn(tasks, d)
      BY <1>1, <1>2, <1>3, <1>4, <2>4, RunningMoves DEF e
    <3>2. current'[d] = current[d]
      BY <1>1, <2>4
    <3> QED BY <2>1, <2>2, <3>1, <3>2
  <2> QED BY <2>3, <2>4
<1> QED BY <1>5 DEF CpusOk

\* The record a wake leaves.
LEMMA WokenFields ==
  ASSUME NEW t \in TaskType, NEW c, NEW r, NEW u, u = Woken(t, c, r)
  PROVE  /\ u.generation = t.generation /\ u.affinity = t.affinity
         /\ u.base_priority = t.base_priority /\ u.effective_priority = t.effective_priority
         /\ u.bypass_count = t.bypass_count /\ u.state = "Runnable" /\ u.wait_kind = "None"
         /\ u.wake_reason = r /\ u.assigned_cpu = c /\ u.queued_cpu = c
BY DEF Woken, TaskType

\* The record a wait leaves.
LEMMA WaitingFields ==
  ASSUME NEW t \in TaskType, NEW c, NEW k, NEW u, u = Waiting(t, c, k)
  PROVE  /\ u.generation = t.generation /\ u.affinity = t.affinity
         /\ u.base_priority = t.base_priority /\ u.effective_priority = t.effective_priority
         /\ u.bypass_count = 0 /\ u.state = "Blocked" /\ u.wait_kind = k
         /\ u.wake_reason = "None" /\ u.assigned_cpu = c /\ u.queued_cpu = t.queued_cpu
BY DEF Waiting, TaskType

\* activate
LEMMA ActivateInv ==
  ASSUME SchedulerInv, TypeOK', NEW s \in Slot, NEW c \in Cpu, Activate(s, c)
  PROVE  SchedulerInv' /\ Progress
<1>1. tasks \in [Slot -> TaskType] /\ tasks[s] \in TaskType
  BY Types DEF SchedulerInv
<1>2. /\ tasks'[s].state = "Runnable" /\ tasks'[s].assigned_cpu = c /\ tasks'[s].queued_cpu = c
      /\ tasks'[s].generation = tasks[s].generation /\ tasks'[s].affinity = tasks[s].affinity
      /\ tasks'[s].wait_kind = tasks[s].wait_kind /\ tasks'[s].wake_reason = tasks[s].wake_reason
      /\ tasks'[s].base_priority = tasks[s].base_priority
      /\ tasks'[s].effective_priority = tasks[s].effective_priority
      /\ \A r \in Slot : r # s => tasks'[r] = tasks[r]
  BY <1>1 DEF Activate, TaskType
<1>3. /\ tasks[s].state = "Dormant" /\ tasks[s].generation # 0 /\ c \in tasks[s].affinity
      /\ queues' = [queues EXCEPT ![c] = Append(queues[c], IdOf(tasks, s))]
      /\ UNCHANGED <<current, mutex_owner, mutex_waiters, donation>>
  BY DEF Activate, Known, Id, IdOf, mutexVars
<1>4. RecordOk(tasks[s], donation[s]) /\ TypeOK
  BY DEF SchedulerInv, RecordsOk
<1>5. /\ AlikeBut(tasks, tasks', s)
      /\ \A r \in Slot : r # s => /\ tasks'[r].bypass_count = tasks[r].bypass_count
                                  /\ donation'[r] = donation[r]
      /\ Exact(tasks', mutex_owner', mutex_waiters', donation')
  BY <1>2, <1>3, <1>4, PlainMove, Zenon DEF SchedulerInv
<1>6. RecordOk(tasks'[s], donation'[s]) /\ Reasoned(tasks[s], tasks'[s])
  BY <1>2, <1>3, <1>4 DEF RecordOk, Reasoned
<1>7. QueuesOk(tasks', queues')
  BY <1>2, <1>3, <1>5, Enqueued, Zenon
<1>8. CpusOk(tasks', current')
  BY <1>1, <1>2, <1>3, <1>5, CpusKept, Zenon DEF SchedulerInv
<1>9. BlockedOnMutex(tasks') = BlockedOnMutex(tasks)
  BY <1>1, <1>2, <1>3, <1>4, <1>5, WaitersKept, Zenon DEF RecordOk
<1>10. OwnerOk(tasks', mutex_owner', mutex_waiters')
  BY <1>2, <1>3, <1>4, <1>5, Types, OwnerKept, Zenon DEF SchedulerInv, RecordOk
<1> QED BY <1>3, <1>5, <1>6, <1>7, <1>8, <1>9, <1>10, Moved, Zenon DEF SchedulerInv

\* wake_task: a blocked task becomes runnable with the reason of the wake.
LEMMA WakeInv ==
  ASSUME SchedulerInv, TypeOK', NEW s \in Slot, NEW c \in Cpu, NEW reason, NEW kind,
         kind # "Mutex", WakeKind(s, c, reason, kind)
  PROVE  SchedulerInv' /\ Progress
<1>1. tasks \in [Slot -> TaskType] /\ tasks[s] \in TaskType
  BY Types DEF SchedulerInv
<1>2. tasks'[s] = Woken(tasks[s], c, reason) /\ \A r \in Slot : r # s => tasks'[r] = tasks[r]
  BY <1>1 DEF WakeKind
<1>3. /\ tasks'[s].state = "Runnable" /\ tasks'[s].assigned_cpu = c /\ tasks'[s].queued_cpu = c
      /\ tasks'[s].generation = tasks[s].generation /\ tasks'[s].affinity = tasks[s].affinity
      /\ tasks'[s].wait_kind = "None"
      /\ tasks'[s].base_priority = tasks[s].base_priority
      /\ tasks'[s].effective_priority = tasks[s].effective_priority
  BY <1>1, <1>2, WokenFields
<1>4. /\ tasks[s].state = "Blocked" /\ tasks[s].generation # 0 /\ c \in tasks[s].affinity
      /\ tasks[s].wait_kind # "Mutex" /\ tasks[s].wake_reason = "None"
      /\ queues' = [queues EXCEPT ![c] = Append(queues[c], IdOf(tasks, s))]
      /\ UNCHANGED <<current, mutex_owner, mutex_waiters, donation>>
  BY DEF WakeKind, Known, Id, IdOf, mutexVars
<1>5. RecordOk(tasks[s], donation[s]) /\ TypeOK
  BY DEF SchedulerInv, RecordsOk
<1>6. /\ AlikeBut(tasks, tasks', s)
      /\ \A r \in Slot : r # s => /\ tasks'[r].bypass_count = tasks[r].bypass_count
                                  /\ donation'[r] = donation[r]
      /\ Exact(tasks', mutex_owner', mutex_waiters', donation')
  BY <1>2, <1>3, <1>4, <1>5, PlainMove, Zenon DEF SchedulerInv
<1>7. RecordOk(tasks'[s], donation'[s]) /\ Reasoned(tasks[s], tasks'[s])
  BY <1>3, <1>4, <1>5 DEF RecordOk, Reasoned
<1>8. QueuesOk(tasks', queues')
  BY <1>3, <1>4, <1>6, Enqueued, Zenon
<1>9. CpusOk(tasks', current')
  BY <1>1, <1>3, <1>4, <1>6, CpusKept, Zenon DEF SchedulerInv
<1>10. BlockedOnMutex(tasks') = BlockedOnMutex(tasks)
  BY <1>1, <1>3, <1>4, <1>6, WaitersKept, Zenon
<1>11. OwnerOk(tasks', mutex_owner', mutex_waiters')
  BY <1>3, <1>4, <1>5, <1>6, Types, OwnerKept, Zenon DEF SchedulerInv
<1> QED BY <1>4, <1>6, <1>7, <1>8, <1>9, <1>10, <1>11, Moved, Zenon DEF SchedulerInv

\* yield_current
LEMMA YieldInv ==
  ASSUME SchedulerInv, TypeOK', NEW c \in Cpu, YieldCurrent(c)
  PROVE  SchedulerInv' /\ Progress
<1> DEFINE s == current[c].slot
<1>1. current[c] # NoTask
  BY DEF YieldCurrent
<1>2. /\ s \in Slot /\ current[c] = IdOf(tasks, s) /\ tasks[s].state = "Running"
      /\ tasks[s].assigned_cpu = c
  BY <1>1, CurrentTask, Zenon
<1>3. tasks \in [Slot -> TaskType] /\ tasks[s] \in TaskType
  BY <1>2, Types DEF SchedulerInv
<1>4. /\ tasks'[s].state = "Runnable" /\ tasks'[s].assigned_cpu = c /\ tasks'[s].queued_cpu = c
      /\ tasks'[s].generation = tasks[s].generation /\ tasks'[s].affinity = tasks[s].affinity
      /\ tasks'[s].wait_kind = tasks[s].wait_kind /\ tasks'[s].wake_reason = tasks[s].wake_reason
      /\ tasks'[s].base_priority = tasks[s].base_priority
      /\ tasks'[s].effective_priority = tasks[s].effective_priority
      /\ \A r \in Slot : r # s => tasks'[r] = tasks[r]
  BY <1>2, <1>3, Zenon DEF YieldCurrent, TaskType
<1>5. /\ queues' = [queues EXCEPT ![c] = Append(queues[c], IdOf(tasks, s))]
      /\ current' = [current EXCEPT ![c] = NoTask]
      /\ UNCHANGED <<mutex_owner, mutex_waiters, donation>>
  BY <1>2, Zenon DEF YieldCurrent, mutexVars
<1>6. RecordOk(tasks[s], donation[s]) /\ TypeOK
  BY <1>2 DEF SchedulerInv, RecordsOk
<1>7. /\ AlikeBut(tasks, tasks', s)
      /\ \A r \in Slot : r # s => /\ tasks'[r].bypass_count = tasks[r].bypass_count
                                  /\ donation'[r] = donation[r]
      /\ Exact(tasks', mutex_owner', mutex_waiters', donation')
  BY <1>2, <1>4, <1>5, <1>6, PlainMove, Zenon DEF SchedulerInv
<1>8. CpusOk(tasks', current')
  BY <1>1, <1>4, <1>5, <1>7, LeftCpu, Zenon
<1> HIDE DEF s
<1>9. RecordOk(tasks'[s], donation'[s]) /\ Reasoned(tasks[s], tasks'[s])
  BY <1>2, <1>4, <1>5, <1>6 DEF RecordOk, Reasoned
<1>10. QueuesOk(tasks', queues')
  BY <1>2, <1>4, <1>5, <1>7, Enqueued, Zenon
<1>11. tasks[s].wait_kind # "Mutex"
  BY <1>2, <1>6 DEF RecordOk
<1>12. BlockedOnMutex(tasks') = BlockedOnMutex(tasks)
  BY <1>2, <1>3, <1>4, <1>7, <1>11, WaitersKept, Zenon
<1>13. OwnerOk(tasks', mutex_owner', mutex_waiters')
  BY <1>2, <1>4, <1>5, <1>6, <1>7, <1>11, Types, OwnerKept, Zenon DEF SchedulerInv
<1> QED BY <1>2, <1>5, <1>7, <1>8, <1>9, <1>10, <1>12, <1>13, Moved, Zenon DEF SchedulerInv

\* block_current and block_current_for_lock
LEMMA BlockInv ==
  ASSUME SchedulerInv, TypeOK', NEW c \in Cpu, NEW kind \in {"Event", "ExternalLock"},
         BlockCurrent(c, kind)
  PROVE  SchedulerInv' /\ Progress
<1> DEFINE s == current[c].slot
<1>1. current[c] # NoTask
  BY DEF BlockCurrent
<1>2. /\ s \in Slot /\ tasks[s].state = "Running" /\ tasks[s].assigned_cpu = c
  BY <1>1, CurrentTask, Zenon
<1>3. tasks \in [Slot -> TaskType] /\ tasks[s] \in TaskType
  BY <1>2, Types DEF SchedulerInv
<1>4. tasks'[s] = Waiting(tasks[s], c, kind) /\ \A r \in Slot : r # s => tasks'[r] = tasks[r]
  BY <1>2, <1>3 DEF BlockCurrent
<1>5. /\ tasks'[s].state = "Blocked" /\ tasks'[s].wait_kind = kind
      /\ tasks'[s].queued_cpu = tasks[s].queued_cpu /\ tasks'[s].bypass_count = 0
      /\ tasks'[s].generation = tasks[s].generation /\ tasks'[s].affinity = tasks[s].affinity
      /\ tasks'[s].wake_reason = "None"
      /\ tasks'[s].base_priority = tasks[s].base_priority
      /\ tasks'[s].effective_priority = tasks[s].effective_priority
  BY <1>3, <1>4, WaitingFields
<1>6. /\ current' = [current EXCEPT ![c] = NoTask]
      /\ UNCHANGED <<queues, mutex_owner, mutex_waiters, donation>>
  BY DEF BlockCurrent, mutexVars
<1>7. RecordOk(tasks[s], donation[s]) /\ TypeOK
  BY <1>2 DEF SchedulerInv, RecordsOk
<1>8. /\ AlikeBut(tasks, tasks', s)
      /\ \A r \in Slot : r # s => /\ tasks'[r].bypass_count = tasks[r].bypass_count
                                  /\ donation'[r] = donation[r]
      /\ Exact(tasks', mutex_owner', mutex_waiters', donation')
  BY <1>2, <1>4, <1>5, <1>6, <1>7, PlainMove, Zenon DEF SchedulerInv
<1>9. CpusOk(tasks', current')
  BY <1>1, <1>5, <1>6, <1>8, LeftCpu, Zenon
<1> HIDE DEF s
<1>10. RecordOk(tasks'[s], donation'[s]) /\ Reasoned(tasks[s], tasks'[s])
  BY <1>2, <1>5, <1>6, <1>7 DEF RecordOk, Reasoned
<1>11. QueuesOk(tasks', queues')
  BY <1>2, <1>3, <1>5, <1>6, <1>8, QueuesKept, Zenon DEF SchedulerInv
<1>12. tasks[s].wait_kind # "Mutex" /\ tasks'[s].wait_kind # "Mutex"
  BY <1>2, <1>5, <1>7 DEF RecordOk
<1>13. BlockedOnMutex(tasks') = BlockedOnMutex(tasks)
  BY <1>2, <1>3, <1>5, <1>8, <1>12, WaitersKept, Zenon
<1>14. OwnerOk(tasks', mutex_owner', mutex_waiters')
  BY <1>2, <1>5, <1>6, <1>7, <1>8, <1>12, Types, OwnerKept, Zenon DEF SchedulerInv
<1> QED BY <1>2, <1>6, <1>8, <1>9, <1>10, <1>11, <1>13, <1>14, Moved, Zenon DEF SchedulerInv

\* consume_wake
LEMMA ConsumeInv ==
  ASSUME SchedulerInv, TypeOK', NEW c \in Cpu, ConsumeWake(c)
  PROVE  SchedulerInv' /\ Progress
<1> DEFINE s == current[c].slot
<1>1. current[c] # NoTask
  BY DEF ConsumeWake
<1>2. /\ s \in Slot /\ tasks[s].state = "Running" /\ tasks[s].assigned_cpu = c
  BY <1>1, CurrentTask, Zenon
<1>3. tasks \in [Slot -> TaskType] /\ tasks[s] \in TaskType
  BY <1>2, Types DEF SchedulerInv
<1>4. /\ tasks'[s].state = tasks[s].state /\ tasks'[s].assigned_cpu = tasks[s].assigned_cpu
      /\ tasks'[s].queued_cpu = tasks[s].queued_cpu
      /\ tasks'[s].bypass_count = tasks[s].bypass_count
      /\ tasks'[s].generation = tasks[s].generation /\ tasks'[s].affinity = tasks[s].affinity
      /\ tasks'[s].wait_kind = tasks[s].wait_kind /\ tasks'[s].wake_reason = "None"
      /\ tasks'[s].base_priority = tasks[s].base_priority
      /\ tasks'[s].effective_priority = tasks[s].effective_priority
      /\ \A r \in Slot : r # s => tasks'[r] = tasks[r]
  BY <1>2, <1>3 DEF ConsumeWake, TaskType
<1>5. UNCHANGED <<queues, current, mutex_owner, mutex_waiters, donation>>
  BY DEF ConsumeWake, mutexVars
<1>6. RecordOk(tasks[s], donation[s]) /\ TypeOK
  BY <1>2 DEF SchedulerInv, RecordsOk
<1>7. /\ AlikeBut(tasks, tasks', s)
      /\ \A r \in Slot : r # s => /\ tasks'[r].bypass_count = tasks[r].bypass_count
                                  /\ donation'[r] = donation[r]
      /\ Exact(tasks', mutex_owner', mutex_waiters', donation')
  BY <1>2, <1>4, <1>5, <1>6, PlainMove, Zenon DEF SchedulerInv
<1> HIDE DEF s
<1>8. \A d : RunningOn(tasks', d) = RunningOn(tasks, d)
  BY <1>4 DEF RunningOn, TaskId
<1>9. CpusOk(tasks', current')
  BY <1>5, <1>8 DEF CpusOk, SchedulerInv
<1>10. RecordOk(tasks'[s], donation'[s]) /\ Reasoned(tasks[s], tasks'[s])
  BY <1>2, <1>4, <1>5, <1>6 DEF RecordOk, Reasoned
<1>11. QueuesOk(tasks', queues')
  BY <1>2, <1>3, <1>4, <1>5, <1>7, QueuesKept, Zenon DEF SchedulerInv
<1>12. tasks[s].wait_kind # "Mutex" /\ tasks'[s].wait_kind # "Mutex"
  BY <1>2, <1>4, <1>6 DEF RecordOk
<1>13. BlockedOnMutex(tasks') = BlockedOnMutex(tasks)
  BY <1>2, <1>3, <1>4, <1>7, <1>12, WaitersKept, Zenon
<1>14. OwnerOk(tasks', mutex_owner', mutex_waiters')
  BY <1>2, <1>4, <1>5, <1>6, <1>7, <1>12, Types, OwnerKept, Zenon DEF SchedulerInv
<1> QED BY <1>2, <1>5, <1>7, <1>9, <1>10, <1>11, <1>13, <1>14, Moved, Zenon DEF SchedulerInv

-----------------------------------------------------------------------------
(* The operations that change priorities, and the mutex without waiters *)

\* An operation that moves no task, starts no wait and delivers no wake.
LEMMA Unmoved ==
  ASSUME SchedulerInv, TypeOK', UNCHANGED <<queues, current, mutex_waiters>>,
         \A r \in Slot : /\ Alike(tasks[r], tasks'[r])
                         /\ tasks'[r].bypass_count = tasks[r].bypass_count
                         /\ tasks[r].state \in {"Dormant", "Dead"} => donation'[r] \in {0, donation[r]},
         OwnerOk(tasks', mutex_owner', mutex_waiters),
         Exact(tasks', mutex_owner', mutex_waiters, donation')
  PROVE  SchedulerInv' /\ Progress
<1>1. RecordsOk(tasks', donation') /\ Progress
  BY DEF SchedulerInv, RecordsOk, RecordOk, Alike, Progress, Reasoned
<1>2. \A c : ReadyOn(tasks', c) = ReadyOn(tasks, c)
  BY DEF ReadyOn, Alike, TaskId
<1>3. \A c : RunningOn(tasks', c) = RunningOn(tasks, c)
  BY DEF RunningOn, Alike, TaskId
<1>4. BlockedOnMutex(tasks') = BlockedOnMutex(tasks)
  BY DEF BlockedOnMutex, Alike, TaskId
<1>5. QueuesOk(tasks', queues') /\ CpusOk(tasks', current')
  BY <1>2, <1>3, Zenon DEF SchedulerInv, QueuesOk, CpusOk
<1> QED BY <1>1, <1>4, <1>5 DEF SchedulerInv

\* The owner survives changes of priorities.
LEMMA OwnerAlike ==
  ASSUME NEW ts, NEW us, NEW o \in TaskId \cup {NoTask}, NEW ws, OwnerOk(ts, o, ws),
         \A r \in Slot : Alike(ts[r], us[r])
  PROVE  OwnerOk(us, o, ws)
BY DEF OwnerOk, Alike, IdOf, TaskId

\* set_priority
LEMMA SetPriorityInv ==
  ASSUME SchedulerInv, TypeOK', NEW s \in Slot, NEW p \in Priority, SetPriority(s, p)
  PROVE  SchedulerInv' /\ Progress
<1> DEFINE ts == [tasks EXCEPT ![s].base_priority = p]
<1>1. /\ tasks \in [Slot -> TaskType] /\ tasks[s] \in TaskType /\ mutex_waiters \in Seq(TaskId)
      /\ mutex_owner \in TaskId \cup {NoTask}
  BY Types DEF SchedulerInv
<1>2. p \in MIN_PRIORITY..MAX_PRIORITY
  BY PriorityAssumption
<1>3. ts \in [Slot -> TaskType] /\ \A r \in Slot : r # s => ts[r] = tasks[r]
  BY <1>1, <1>2, Zenon DEF TaskType
<1>4. Alike(tasks[s], ts[s]) /\ ts[s].bypass_count = tasks[s].bypass_count
  BY <1>1 DEF Alike, TaskType
<1>5. /\ tasks' = Recompute(ts, mutex_owner, mutex_waiters, donation)
      /\ UNCHANGED <<queues, current, mutex_owner, mutex_waiters, donation>>
  BY DEF SetPriority, mutexVars
<1> HIDE DEF ts
<1>6. /\ AlikeBut(tasks, tasks', s)
      /\ \A r \in Slot : r # s => tasks'[r].bypass_count = tasks[r].bypass_count
      /\ Alike(ts[s], tasks'[s]) /\ tasks'[s].bypass_count = ts[s].bypass_count
      /\ Exact(tasks', mutex_owner, mutex_waiters, donation)
  BY <1>1, <1>3, <1>5, RecomputedMove, Zenon DEF SchedulerInv
<1>7. ASSUME NEW r \in Slot
      PROVE  Alike(tasks[r], tasks'[r]) /\ tasks'[r].bypass_count = tasks[r].bypass_count
  BY <1>4, <1>6 DEF AlikeBut, Alike
<1>8. OwnerOk(tasks', mutex_owner', mutex_waiters)
  BY <1>1, <1>5, <1>7, OwnerAlike, Zenon DEF SchedulerInv
<1> QED BY <1>5, <1>6, <1>7, <1>8, Unmoved

\* donate_priority and revoke_priority_donation: the priorities follow the new
\* donations.
LEMMA DonationInv ==
  ASSUME SchedulerInv, TypeOK',
         \/ \E s \in Slot, p \in Donation : DonatePriority(s, p)
         \/ \E s \in Slot : RevokePriorityDonation(s)
  PROVE  SchedulerInv' /\ Progress
<1>1. /\ tasks \in [Slot -> TaskType] /\ mutex_waiters \in Seq(TaskId)
      /\ mutex_owner \in TaskId \cup {NoTask} /\ donation \in [Slot -> 0..MAX_PRIORITY]
  BY Types DEF SchedulerInv
<1>2. /\ tasks' = Recompute(tasks, mutex_owner, mutex_waiters, donation')
      /\ UNCHANGED <<queues, current, mutex_owner, mutex_waiters>>
  BY DEF DonatePriority, RevokePriorityDonation, mutexVars
<1>3. /\ \A r \in Slot : Alike(tasks[r], tasks'[r]) /\ tasks'[r].bypass_count = tasks[r].bypass_count
      /\ Exact(tasks', mutex_owner, mutex_waiters, donation')
  BY <1>1, <1>2, RecomputedTable
<1>4. \A r \in Slot : tasks[r].state \in {"Dormant", "Dead"} => donation'[r] \in {0, donation[r]}
  BY <1>1 DEF DonatePriority, RevokePriorityDonation
<1>5. OwnerOk(tasks', mutex_owner', mutex_waiters)
  BY <1>1, <1>2, <1>3, OwnerAlike, Zenon DEF SchedulerInv
<1> QED BY <1>2, <1>3, <1>4, <1>5, Unmoved

\* lock_mutex on a free mutex: nobody waits, so nothing is inherited.
LEMMA LockFreeInv ==
  ASSUME SchedulerInv, TypeOK', NEW c \in Cpu, LockMutexFree(c)
  PROVE  SchedulerInv' /\ Progress
<1>1. /\ current[c] # NoTask /\ mutex_owner = NoTask /\ mutex_owner' = current[c]
      /\ UNCHANGED <<tasks, queues, current, mutex_waiters, donation>>
  BY DEF LockMutexFree
<1>2. /\ current[c].slot \in Slot /\ current[c] = IdOf(tasks, current[c].slot)
      /\ tasks[current[c].slot].state = "Running"
  BY <1>1, CurrentTask, Zenon
<1>3. tasks[current[c].slot].wait_kind = "None"
  BY <1>2 DEF SchedulerInv, RecordsOk, RecordOk
<1>4. mutex_waiters = <<>>
  BY <1>1 DEF SchedulerInv, OwnerOk
<1>5. OwnerOk(tasks', mutex_owner', mutex_waiters)
  BY <1>1, <1>2, <1>3 DEF OwnerOk
<1>6. \A o, s : InheritedBy(tasks, o, mutex_waiters, s) = {}
  BY <1>4 DEF InheritedBy
<1>7. Exact(tasks', mutex_owner', mutex_waiters, donation')
  BY <1>1, <1>6 DEF Exact, SchedulerInv
<1>8. \A r \in Slot : Alike(tasks[r], tasks'[r]) /\ tasks'[r].bypass_count = tasks[r].bypass_count
  BY <1>1 DEF Alike
<1> QED BY <1>1, <1>5, <1>7, <1>8, Unmoved

\* unlock_mutex with nobody waiting
LEMMA UnlockFreeInv ==
  ASSUME SchedulerInv, TypeOK', NEW c \in Cpu, UnlockMutexFree(c)
  PROVE  SchedulerInv' /\ Progress
<1>1. /\ mutex_waiters = <<>> /\ mutex_owner' = NoTask
      /\ tasks' = Recompute(tasks, NoTask, mutex_waiters, donation)
      /\ UNCHANGED <<queues, current, mutex_waiters, donation>>
  BY DEF UnlockMutexFree
<1>2. tasks \in [Slot -> TaskType] /\ mutex_waiters \in Seq(TaskId)
  BY Types DEF SchedulerInv
<1>3. /\ \A r \in Slot : Alike(tasks[r], tasks'[r]) /\ tasks'[r].bypass_count = tasks[r].bypass_count
      /\ Exact(tasks', NoTask, mutex_waiters, donation)
  BY <1>1, <1>2, RecomputedTable, Zenon
<1>4. OwnerOk(tasks', mutex_owner', mutex_waiters)
  BY <1>1 DEF OwnerOk
<1> QED BY <1>1, <1>3, <1>4, Unmoved

-----------------------------------------------------------------------------
(* Migration, waiting for the mutex, creation, dispatch *)

\* migrate
LEMMA MigrateInv ==
  ASSUME SchedulerInv, TypeOK', NEW s \in Slot, NEW c \in Cpu, Migrate(s, c)
  PROVE  SchedulerInv' /\ Progress
<1> DEFINE b == tasks[s].queued_cpu
           e == IdOf(tasks, s)
<1>1. tasks \in [Slot -> TaskType] /\ tasks[s] \in TaskType
  BY Types DEF SchedulerInv
<1>2. /\ tasks'[s].state = "Runnable" /\ tasks'[s].assigned_cpu = c /\ tasks'[s].queued_cpu = c
      /\ tasks'[s].generation = tasks[s].generation /\ tasks'[s].affinity = tasks[s].affinity
      /\ tasks'[s].wait_kind = tasks[s].wait_kind /\ tasks'[s].wake_reason = tasks[s].wake_reason
      /\ tasks'[s].base_priority = tasks[s].base_priority
      /\ tasks'[s].effective_priority = tasks[s].effective_priority
      /\ \A r \in Slot : r # s => tasks'[r] = tasks[r]
  BY <1>1 DEF Migrate, TaskType
<1>3. /\ tasks[s].state = "Runnable" /\ b \in Cpu /\ b # c /\ c \in tasks[s].affinity
      /\ UNCHANGED <<current, mutex_owner, mutex_waiters, donation>>
  BY <1>1 DEF Migrate, TaskType, mutexVars
<1>4. queues' = [queues EXCEPT ![b] = Remove(queues[b], e), ![c] = Append(queues[c], e)]
  <2>1. queues \in [Cpu -> Seq(TaskId)]
    BY Types DEF SchedulerInv
  <2>2. queues' = [queues EXCEPT ![b] = Remove(@, e), ![c] = Append(@, e)]
    BY Zenon DEF Migrate, Id, IdOf
  <2> QED BY <1>3, <2>1, <2>2, Zenon
<1>5. RecordOk(tasks[s], donation[s]) /\ TypeOK
  BY DEF SchedulerInv, RecordsOk
<1>6. /\ AlikeBut(tasks, tasks', s)
      /\ \A r \in Slot : r # s => /\ tasks'[r].bypass_count = tasks[r].bypass_count
                                  /\ donation'[r] = donation[r]
      /\ Exact(tasks', mutex_owner', mutex_waiters', donation')
  BY <1>2, <1>3, <1>5, PlainMove, Zenon DEF SchedulerInv
<1>7. RecordOk(tasks'[s], donation'[s]) /\ Reasoned(tasks[s], tasks'[s])
  BY <1>2, <1>3, <1>5 DEF RecordOk, Reasoned
<1>8. QueuesOk(tasks', queues')
  <2>0. /\ tasks[s].queued_cpu = b /\ tasks[s].state = "Runnable" /\ b # c
        /\ tasks'[s].state = "Runnable" /\ tasks'[s].queued_cpu = c
        /\ tasks'[s].generation = tasks[s].generation /\ AlikeBut(tasks, tasks', s)
    BY <1>2, <1>3, <1>6
  <2> HIDE DEF b
  <2>1. /\ e \in ReadyOn(tasks, b) /\ e \notin ReadyOn(tasks, c)
        /\ ReadyOn(tasks', b) = ReadyOn(tasks, b) \ {e}
        /\ ReadyOn(tasks', c) = ReadyOn(tasks, c) \cup {e}
        /\ \A d : d \notin {b, c} => ReadyOn(tasks', d) = ReadyOn(tasks, d)
    BY <1>1, <2>0, ReadyShifts
  <2>2. \A d \in Cpu : Lists(queues[d], ReadyOn(tasks, d))
    BY DEF SchedulerInv, QueuesOk
  <2>3. queues \in [Cpu -> Seq(TaskId)] /\ e \in TaskId
    BY <1>1, Types, IdFacts, Zenon DEF SchedulerInv
  <2> HIDE DEF e
  <2>4. Lists(Remove(queues[b], e), ReadyOn(tasks, b) \ {e})
    BY <1>3, <2>1, <2>2, <2>3, ListsLose
  <2>5. Lists(Append(queues[c], e), ReadyOn(tasks, c) \cup {e})
    BY <2>1, <2>2, <2>3, ListsGain
  <2>6. /\ queues'[b] = Remove(queues[b], e) /\ queues'[c] = Append(queues[c], e)
        /\ \A d \in Cpu : d \notin {b, c} => queues'[d] = queues[d]
    BY <1>3, <1>4, <2>3
  <2> QED BY <2>1, <2>2, <2>4, <2>5, <2>6, Zenon DEF QueuesOk
<1>9. CpusOk(tasks', current')
  BY <1>1, <1>2, <1>3, <1>6, CpusKept, Zenon DEF SchedulerInv
<1>10. tasks[s].wait_kind # "Mutex"
  BY <1>3, <1>5 DEF RecordOk
<1>11. BlockedOnMutex(tasks') = BlockedOnMutex(tasks)
  BY <1>1, <1>2, <1>6, <1>10, WaitersKept, Zenon
<1>12. OwnerOk(tasks', mutex_owner', mutex_waiters')
  BY <1>2, <1>3, <1>5, <1>6, <1>10, Types, OwnerKept, Zenon DEF SchedulerInv
<1> QED BY <1>3, <1>6, <1>7, <1>8, <1>9, <1>11, <1>12, Moved, Zenon DEF SchedulerInv

\* lock_mutex on an owned mutex: the caller joins the waiters.
LEMMA LockBlockInv ==
  ASSUME SchedulerInv, TypeOK', NEW c \in Cpu, LockMutexBlock(c)
  PROVE  SchedulerInv' /\ Progress
<1> DEFINE s == current[c].slot
           e == current[c]
           ts == [tasks EXCEPT ![s] = Waiting(tasks[s], c, "Mutex")]
           ws == Append(mutex_waiters, e)
<1>1. current[c] # NoTask /\ mutex_owner \notin {NoTask, current[c]}
  BY DEF LockMutexBlock
<1>2. /\ s \in Slot /\ e = IdOf(tasks, s) /\ tasks[s].state = "Running" /\ tasks[s].assigned_cpu = c
  BY <1>1, CurrentTask, Zenon
<1>3. /\ tasks \in [Slot -> TaskType] /\ tasks[s] \in TaskType /\ mutex_waiters \in Seq(TaskId)
      /\ mutex_owner \in TaskId \cup {NoTask} /\ e \in TaskId
  BY <1>1, <1>2, Types DEF SchedulerInv
<1>4. /\ tasks' = Recompute(ts, mutex_owner, ws, donation) /\ mutex_waiters' = ws
      /\ current' = [current EXCEPT ![c] = NoTask] /\ UNCHANGED <<queues, mutex_owner, donation>>
  <2>1. ts = [tasks EXCEPT ![s] = Waiting(@, c, "Mutex")]
    BY <1>2, <1>3, Zenon
  <2> QED BY <2>1, Zenon DEF LockMutexBlock
<1>5. RecordOk(tasks[s], donation[s]) /\ TypeOK
  BY <1>2 DEF SchedulerInv, RecordsOk
<1>6. ws \in Seq(TaskId)
  BY <1>3
<1>7. /\ ts[s].state = "Blocked" /\ ts[s].wait_kind = "Mutex"
      /\ ts[s].queued_cpu = tasks[s].queued_cpu /\ ts[s].bypass_count = 0
      /\ ts[s].generation = tasks[s].generation /\ ts[s].affinity = tasks[s].affinity
      /\ ts[s].wake_reason = "None" /\ ts[s].assigned_cpu = c
  <2>1. ts[s] = Waiting(tasks[s], c, "Mutex")
    BY <1>2, <1>3
  <2> HIDE DEF ts
  <2> QED BY <1>3, <2>1, WaitingFields
<1>8. ts \in [Slot -> TaskType] /\ \A r \in Slot : r # s => ts[r] = tasks[r]
  <2>1. Waiting(tasks[s], c, "Mutex") \in TaskType
    BY <1>3, Zenon DEF Waiting, TaskType
  <2> QED BY <1>2, <1>3, <2>1
<1> HIDE DEF ts, ws
<1>9. /\ AlikeBut(tasks, tasks', s)
      /\ \A r \in Slot : r # s => tasks'[r].bypass_count = tasks[r].bypass_count
      /\ Alike(ts[s], tasks'[s]) /\ tasks'[s].bypass_count = ts[s].bypass_count
      /\ Exact(tasks', mutex_owner, ws, donation)
  BY <1>2, <1>4, <1>5, <1>6, <1>8, RecomputedMove, Zenon
<1>10. /\ tasks'[s].state = "Blocked" /\ tasks'[s].wait_kind = "Mutex"
       /\ tasks'[s].generation = tasks[s].generation
  BY <1>7, <1>9, Zenon DEF Alike
<1>11. CpusOk(tasks', current')
  BY <1>1, <1>4, <1>9, <1>10, LeftCpu, Zenon
<1>12. s = e.slot
  OBVIOUS
<1> HIDE DEF s
<1>13. RecordOk(tasks'[s], donation'[s]) /\ Reasoned(tasks[s], tasks'[s])
  <2>1. RecordOk(tasks'[s], donation'[s])
    BY <1>2, <1>4, <1>5, <1>7, <1>9 DEF RecordOk, Alike
  <2>2. Reasoned(tasks[s], tasks'[s])
    BY <1>7, <1>9 DEF Reasoned, Alike
  <2> QED BY <2>1, <2>2
<1>14. QueuesOk(tasks', queues')
  BY <1>2, <1>3, <1>4, <1>9, <1>10, QueuesKept, Zenon DEF SchedulerInv
<1>15. tasks[s].wait_kind # "Mutex"
  BY <1>2, <1>5 DEF RecordOk
<1>16. Lists(mutex_waiters', BlockedOnMutex(tasks'))
  <2>1. e \notin BlockedOnMutex(tasks) /\ BlockedOnMutex(tasks') = BlockedOnMutex(tasks) \cup {e}
    BY <1>2, <1>3, <1>9, <1>10, <1>15, WaitingMoves
  <2>2. Lists(mutex_waiters, BlockedOnMutex(tasks))
    BY DEF SchedulerInv
  <2> HIDE DEF e
  <2>3. Lists(ws, BlockedOnMutex(tasks) \cup {e})
    BY <1>3, <2>1, <2>2, ListsGain DEF ws
  <2> QED BY <1>4, <2>1, <2>3
<1>17. OwnerOk(tasks', mutex_owner', mutex_waiters')
  <2> DEFINE o == mutex_owner
  <2>1. /\ o \in TaskId /\ o = IdOf(tasks, o.slot) /\ tasks[o.slot].state \notin {"Dormant", "Dead"}
        /\ tasks[o.slot].wait_kind # "Mutex"
    BY <1>1, <1>3 DEF SchedulerInv, OwnerOk
  <2>2. o.slot \in Slot /\ o.slot # s
    BY <1>1, <1>2, <2>1 DEF TaskId
  <2> QED BY <1>1, <1>4, <1>9, <2>1, <2>2 DEF OwnerOk, AlikeBut, Alike, IdOf
<1>18. \A r \in Slot : r # s => /\ tasks'[r].bypass_count = tasks[r].bypass_count
                                /\ donation'[r] = donation[r]
  BY <1>4, <1>9
<1> QED BY <1>2, <1>4, <1>9, <1>11, <1>13, <1>14, <1>16, <1>17, <1>18, Moved, Zenon

\* An entry of the wait list names a task blocked on the mutex.
LEMMA WaiterTask ==
  ASSUME SchedulerInv, NEW i \in DOMAIN mutex_waiters
  PROVE  /\ mutex_waiters[i] \in BlockedOnMutex(tasks)
         /\ mutex_waiters[i] \in TaskId /\ mutex_waiters[i].slot \in Slot
         /\ mutex_waiters[i] = IdOf(tasks, mutex_waiters[i].slot)
         /\ tasks[mutex_waiters[i].slot].wait_kind = "Mutex"
<1>1. mutex_waiters \in Seq(TaskId)
  BY Types DEF SchedulerInv
<1>2. i \in 1..Len(mutex_waiters)
  BY <1>1
<1>3. mutex_waiters[i] \in BlockedOnMutex(tasks)
  BY <1>2 DEF SchedulerInv, Lists, In
<1>4. \A id \in TaskId : id.generation = tasks[id.slot].generation => id = IdOf(tasks, id.slot)
  BY DEF TaskId, IdOf
<1> QED BY <1>3, <1>4 DEF BlockedOnMutex, TaskId

\* create_task: the new task is in no list, owns nothing and inherits nothing.
LEMMA CreateInv ==
  ASSUME SchedulerInv, TypeOK', NEW s \in Slot, NEW g \in 1..MaxGeneration,
         NEW p \in Priority, NEW a \in Affinity, CreateTask(s, g, p, a)
  PROVE  SchedulerInv' /\ Progress
<1>1. /\ tasks \in [Slot -> TaskType] /\ mutex_owner \in TaskId \cup {NoTask}
      /\ mutex_waiters \in Seq(TaskId)
  BY Types DEF SchedulerInv
<1>2. p \in Nat /\ p >= 1 /\ a # {} /\ g # 0
  BY PriorityAssumption, AffinityAssumption, MaxGenerationAssumption DEF MIN_PRIORITY, MAX_PRIORITY
<1>3. /\ tasks'[s].generation = g /\ tasks'[s].state = "Dormant" /\ tasks'[s].affinity = a
      /\ tasks'[s].base_priority = p /\ tasks'[s].effective_priority = p
      /\ tasks'[s].assigned_cpu = NoCpu /\ tasks'[s].queued_cpu = NoCpu
      /\ tasks'[s].wake_reason = "None" /\ tasks'[s].wait_kind = "None"
      /\ tasks'[s].bypass_count = 0
      /\ \A r \in Slot : r # s => tasks'[r] = tasks[r]
  BY <1>1 DEF CreateTask, EmptyTask
<1>4. UNCHANGED <<queues, current, mutex_owner, mutex_waiters, donation>>
  BY DEF CreateTask, mutexVars
<1>5. RecordOk(tasks[s], donation[s])
  BY DEF SchedulerInv, RecordsOk
<1>6. /\ tasks[s].state \in {"Dormant", "Dead"} /\ tasks[s].wait_kind = "None"
      /\ tasks[s].wake_reason = "None" /\ donation[s] = 0
  <2>1. tasks[s].state \in {"Dormant", "Dead"}
    BY <1>5 DEF CreateTask, Known, RecordOk
  <2> QED BY <1>5, <2>1 DEF RecordOk
<1>7. AlikeBut(tasks, tasks', s)
  BY <1>3 DEF AlikeBut, Alike
<1>8. RecordOk(tasks'[s], donation'[s]) /\ Reasoned(tasks[s], tasks'[s])
  BY <1>2, <1>3, <1>4, <1>6 DEF RecordOk, Reasoned
<1>9. \A c : ReadyOn(tasks', c) = ReadyOn(tasks, c)
  BY <1>3, <1>6 DEF ReadyOn, TaskId
<1>10. \A c : RunningOn(tasks', c) = RunningOn(tasks, c)
  BY <1>3, <1>6 DEF RunningOn, TaskId
<1>11. BlockedOnMutex(tasks') = BlockedOnMutex(tasks)
  BY <1>3, <1>6 DEF BlockedOnMutex, TaskId
<1>12. QueuesOk(tasks', queues') /\ CpusOk(tasks', current')
  BY <1>4, <1>9, <1>10, Zenon DEF SchedulerInv, QueuesOk, CpusOk
<1>13. mutex_owner # NoTask => mutex_owner.slot \in Slot /\ mutex_owner.slot # s
  BY <1>1, <1>6 DEF SchedulerInv, OwnerOk, TaskId
<1>14. OwnerOk(tasks', mutex_owner', mutex_waiters')
  BY <1>3, <1>4, <1>13 DEF SchedulerInv, OwnerOk, IdOf
<1>15. Exact(tasks', mutex_owner', mutex_waiters', donation')
  <2> DEFINE o == mutex_owner
             ws == mutex_waiters
  <2>1. ASSUME NEW r PROVE InheritedBy(tasks', o, ws, r) = InheritedBy(tasks, o, ws, r)
    <3>1. \A i \in DOMAIN ws : tasks'[ws[i].slot].base_priority = tasks[ws[i].slot].base_priority
      BY <1>3, <1>6, WaiterTask
    <3>2. {tasks'[ws[i].slot].base_priority : i \in DOMAIN ws}
          = {tasks[ws[i].slot].base_priority : i \in DOMAIN ws}
      BY <3>1, Zenon
    <3> QED BY <3>2, Zenon DEF InheritedBy
  <2>2. InheritedBy(tasks, o, ws, s) = {}
    BY <1>13 DEF InheritedBy
  <2>3. Max({p, 0} \cup {}) = p
    BY <1>2 DEF Max
  <2>4. ASSUME NEW r \in Slot, tasks'[r].generation # 0
        PROVE  tasks'[r].effective_priority =
                 Max({tasks'[r].base_priority, donation[r]} \cup InheritedBy(tasks', o, ws, r))
    <3>1. CASE r = s
      BY <1>3, <1>6, <2>1, <2>2, <2>3, <3>1
    <3>2. CASE r # s
      BY <1>3, <2>1, <2>4, <3>2 DEF SchedulerInv, Exact
    <3> QED BY <3>1, <3>2
  <2> QED BY <1>4, <2>4 DEF Exact
<1>16. \A r \in Slot : r # s => /\ tasks'[r].bypass_count = tasks[r].bypass_count
                                /\ donation'[r] = donation[r]
  BY <1>3, <1>4
<1> QED BY <1>4, <1>7, <1>8, <1>11, <1>12, <1>14, <1>15, <1>16, Moved, Zenon DEF SchedulerInv

\* dispatch
LEMMA DispatchInv ==
  ASSUME SchedulerInv, TypeOK', NEW c \in Cpu, Dispatch(c)
  PROVE  SchedulerInv' /\ Progress
<1> DEFINE q == queues[c]
           Bypassed(i) == {s \in Slot :
              /\ tasks[s].effective_priority = tasks[q[i].slot].effective_priority
              /\ \E j \in DOMAIN q \ {i} : q[j].slot = s}
<1>1. PICK i \in DOMAIN q :
        /\ queues' = [queues EXCEPT ![c] = RemoveAt(q, i)]
        /\ current' = [current EXCEPT ![c] = q[i]]
        /\ tasks' = [s \in Slot |->
              IF s = q[i].slot
              THEN [tasks[s] EXCEPT !.state = "Running", !.queued_cpu = NoCpu,
                                    !.assigned_cpu = c, !.bypass_count = 0]
              ELSE IF s \in Bypassed(i) THEN [tasks[s] EXCEPT !.bypass_count = @ + 1]
              ELSE tasks[s]]
  BY Zenon DEF Dispatch
<1>2. current[c] = NoTask /\ UNCHANGED <<mutex_owner, mutex_waiters, donation>>
  BY Zenon DEF Dispatch, mutexVars
<1>3. /\ tasks \in [Slot -> TaskType] /\ queues \in [Cpu -> Seq(TaskId)] /\ q \in Seq(TaskId)
      /\ current \in [Cpu -> TaskId \cup {NoTask}] /\ mutex_waiters \in Seq(TaskId)
      /\ mutex_owner \in TaskId \cup {NoTask}
  BY Types DEF SchedulerInv
<1>4. Lists(q, ReadyOn(tasks, c)) /\ i \in 1..Len(q)
  BY <1>3 DEF SchedulerInv, QueuesOk
<1>5. \A j \in DOMAIN q : q[j] \in ReadyOn(tasks, c)
  BY <1>3, <1>4 DEF Lists, In
<1> DEFINE e == q[i]
           x == e.slot
<1>6. /\ x \in Slot /\ e \in TaskId /\ e = IdOf(tasks, x)
      /\ tasks[x].state = "Runnable" /\ tasks[x].queued_cpu = c
  BY <1>4, <1>5 DEF ReadyOn, TaskId, IdOf
<1>7. \A s \in Bypassed(i) : tasks[s].state = "Runnable"
  BY <1>5 DEF ReadyOn
<1> HIDE DEF q, Bypassed
<1>8. \A s \in Slot : tasks[s] \in TaskType
  BY <1>3
<1>9. /\ tasks'[x].state = "Running" /\ tasks'[x].queued_cpu = NoCpu
      /\ tasks'[x].assigned_cpu = c /\ tasks'[x].bypass_count = 0
      /\ tasks'[x].generation = tasks[x].generation /\ tasks'[x].affinity = tasks[x].affinity
      /\ tasks'[x].wait_kind = tasks[x].wait_kind /\ tasks'[x].wake_reason = tasks[x].wake_reason
      /\ tasks'[x].base_priority = tasks[x].base_priority
      /\ tasks'[x].effective_priority = tasks[x].effective_priority
  <2>1. tasks'[x] = [tasks[x] EXCEPT !.state = "Running", !.queued_cpu = NoCpu,
                                     !.assigned_cpu = c, !.bypass_count = 0]
    BY <1>1, <1>6, Zenon
  <2> QED BY <1>6, <1>8, <2>1 DEF TaskType
<1>10. ASSUME NEW s \in Slot, s # x
       PROVE  /\ Alike(tasks[s], tasks'[s])
              /\ tasks'[s].bypass_count = tasks[s].bypass_count \/ tasks[s].state = "Runnable"
              /\ tasks'[s].base_priority = tasks[s].base_priority
              /\ tasks'[s].effective_priority = tasks[s].effective_priority
  <2>1. CASE s \in Bypassed(i)
    <3>1. tasks'[s] = [tasks[s] EXCEPT !.bypass_count = @ + 1]
      BY <1>1, <1>10, <2>1, Zenon
    <3> QED BY <1>7, <1>8, <2>1, <3>1 DEF Alike, TaskType
  <2>2. CASE s \notin Bypassed(i)
    <3>1. tasks'[s] = tasks[s]
      BY <1>1, <1>10, <2>2, Zenon
    <3> QED BY <3>1 DEF Alike
  <2> QED BY <2>1, <2>2
<1>11. AlikeBut(tasks, tasks', x)
  BY <1>10 DEF AlikeBut
<1>12. RecordsOk(tasks', donation') /\ Progress
  <2>1. RecordOk(tasks[x], donation[x])
    BY <1>6 DEF SchedulerInv, RecordsOk
  <2>2. RecordOk(tasks'[x], donation'[x]) /\ Reasoned(tasks[x], tasks'[x])
    BY <1>2, <1>6, <1>9, <2>1 DEF RecordOk, Reasoned
  <2>3. ASSUME NEW s \in Slot, s # x
        PROVE  RecordOk(tasks'[s], donation'[s]) /\ Reasoned(tasks[s], tasks'[s])
    <3>1. RecordOk(tasks[s], donation[s])
      BY DEF SchedulerInv, RecordsOk
    <3> QED BY <1>2, <1>10, <2>3, <3>1 DEF RecordOk, Reasoned, Alike
  <2> QED BY <2>2, <2>3 DEF RecordsOk, Progress
<1> HIDE DEF x, e
<1>moved. /\ tasks \in [Slot -> TaskType] /\ x \in Slot /\ AlikeBut(tasks, tasks', x)
          /\ tasks'[x].generation = tasks[x].generation
  BY <1>3, <1>6, <1>9, <1>11
<1>id. e = IdOf(tasks, x)
  BY <1>6
<1>13. QueuesOk(tasks', queues')
  <2>0. tasks[x].state = "Runnable" /\ tasks[x].queued_cpu = c /\ tasks'[x].state # "Runnable"
    BY <1>6, <1>9
  <2>1. /\ e \in ReadyOn(tasks, c) /\ ReadyOn(tasks', c) = ReadyOn(tasks, c) \ {e}
        /\ \A d : d # c => ReadyOn(tasks', d) = ReadyOn(tasks, d)
    BY <1>moved, <1>id, <2>0, ReadyLoses
  <2>2. Lists(RemoveAt(q, i), ReadyOn(tasks, c) \ {e})
    BY <1>3, <1>4, ListsLoseAt DEF e
  <2>3. queues'[c] = RemoveAt(q, i) /\ \A d \in Cpu : d # c => queues'[d] = queues[d]
    BY <1>1, <1>3, Zenon
  <2>4. \A d \in Cpu : Lists(queues[d], ReadyOn(tasks, d))
    BY DEF SchedulerInv, QueuesOk
  <2> QED BY <2>1, <2>2, <2>3, <2>4, Zenon DEF QueuesOk
<1>14. CpusOk(tasks', current')
  <2>1. \A d \in Cpu : RunningOn(tasks, d) = {current[d]} \ {NoTask}
    BY DEF SchedulerInv, CpusOk
  <2>0. tasks[x].state # "Running" /\ tasks'[x].state = "Running" /\ tasks'[x].assigned_cpu = c
    BY <1>6, <1>9
  <2>2. RunningOn(tasks', c) = RunningOn(tasks, c) \cup {e}
    BY <1>moved, <1>id, <2>0, RunningMoves
  <2>3. ASSUME NEW d \in Cpu, d # c PROVE RunningOn(tasks', d) = RunningOn(tasks, d)
    <3>1. e \notin RunningOn(tasks, d) /\ RunningOn(tasks', d) = RunningOn(tasks, d) \ {e}
      BY <1>moved, <1>id, <2>0, <2>3, RunningMoves
    <3> QED BY <3>1
  <2>4. current'[c] = e /\ \A d \in Cpu : d # c => current'[d] = current[d]
    BY <1>1, <1>3, Zenon DEF e
  <2>5. e # NoTask
    BY <1>6, NoTaskAssumption
  <2>6. RunningOn(tasks', c) = {current'[c]} \ {NoTask}
    BY <1>2, <2>1, <2>2, <2>4, <2>5
  <2> QED BY <2>1, <2>3, <2>4, <2>6 DEF CpusOk
<1>15. tasks[x].wait_kind # "Mutex"
  BY <1>6 DEF SchedulerInv, RecordsOk, RecordOk
<1>16. BlockedOnMutex(tasks') = BlockedOnMutex(tasks)
  BY <1>3, <1>6, <1>9, <1>11, <1>15, WaitersKept
<1>17. OwnerOk(tasks', mutex_owner', mutex_waiters')
  BY <1>2, <1>3, <1>6, <1>9, <1>11, <1>15, OwnerKept, Zenon DEF SchedulerInv
<1>18. Exact(tasks', mutex_owner', mutex_waiters', donation')
  <2>1. \A r \in Slot : /\ tasks'[r].generation = tasks[r].generation
                        /\ tasks'[r].base_priority = tasks[r].base_priority
                        /\ tasks'[r].effective_priority = tasks[r].effective_priority
    BY <1>9, <1>10 DEF Alike
  <2>2. Exact(tasks', mutex_owner, mutex_waiters, donation)
    BY <1>3, <2>1, ExactKept, Zenon DEF SchedulerInv
  <2> QED BY <1>2, <2>2
<1> QED BY <1>2, <1>12, <1>13, <1>14, <1>16, <1>17, <1>18 DEF SchedulerInv

\* The initial state, given that it is well typed.
LEMMA InvInit ==
  ASSUME Init, TypeOK
  PROVE  SchedulerInv
<1>1. \A s \in Slot : tasks[s] = EmptyTask /\ donation[s] = 0
  BY DEF Init
<1>2. \A id \in TaskId : tasks[id.slot] = EmptyTask
  BY <1>1 DEF TaskId
<1>3. \A c \in Cpu : ReadyOn(tasks, c) = {} /\ RunningOn(tasks, c) = {}
  BY <1>2 DEF ReadyOn, RunningOn, EmptyTask
<1>4. BlockedOnMutex(tasks) = {}
  BY <1>2 DEF BlockedOnMutex, EmptyTask
<1>5. \A S : S = {} => Lists(<<>>, S)
  BY DEF Lists, In, Once
<1>6. QueuesOk(tasks, queues) /\ CpusOk(tasks, current)
  BY <1>3, <1>5 DEF Init, QueuesOk, CpusOk
<1>7. Lists(mutex_waiters, BlockedOnMutex(tasks)) /\ OwnerOk(tasks, mutex_owner, mutex_waiters)
  BY <1>4, <1>5 DEF Init, OwnerOk
<1>8. RecordsOk(tasks, donation)
  BY <1>1 DEF RecordsOk, RecordOk, EmptyTask
<1>9. Exact(tasks, mutex_owner, mutex_waiters, donation)
  BY <1>1 DEF Exact, EmptyTask
<1> QED BY <1>6, <1>7, <1>8, <1>9 DEF SchedulerInv

\* A stuttering step.
LEMMA StutterInv ==
  ASSUME SchedulerInv, UNCHANGED vars
  PROVE  SchedulerInv' /\ Progress
<1>1. /\ tasks' = tasks /\ queues' = queues /\ current' = current /\ mutex_owner' = mutex_owner
      /\ mutex_waiters' = mutex_waiters /\ donation' = donation
  BY DEF vars
<1>2. TypeOK'
  BY <1>1, Zenon DEF SchedulerInv, TypeOK, PlacedId
<1>3. Progress
  BY <1>1 DEF Progress, Reasoned
<1> QED BY <1>1, <1>2, <1>3 DEF SchedulerInv

\* The invariant places every task as validate() asks.
LEMMA InvPlacement ==
  ASSUME SchedulerInv
  PROVE  PlacementOk
<1>1. /\ tasks \in [Slot -> TaskType] /\ current \in [Cpu -> TaskId \cup {NoTask}]
      /\ queues \in [Cpu -> Seq(TaskId)]
  BY Types DEF SchedulerInv
<1>2. \A s \in Slot : tasks[s] \in TaskType /\ RecordOk(tasks[s], donation[s])
  BY <1>1 DEF SchedulerInv, RecordsOk
<1>3. \A id \in TaskId : id.slot \in Slot
  BY DEF TaskId
<1>4. \A id \in TaskId : id.generation = tasks[id.slot].generation => id = Id(id.slot)
  BY DEF TaskId, Id
<1>5. ASSUME NEW c \in Cpu, NEW i \in DOMAIN queues[c]
      PROVE  /\ Names(queues[c][i], "Runnable")
             /\ tasks[queues[c][i].slot].queued_cpu = c /\ tasks[queues[c][i].slot].assigned_cpu = c
             /\ c \in tasks[queues[c][i].slot].affinity
             /\ \A j \in DOMAIN queues[c] : queues[c][j] = queues[c][i] => j = i
  <2> DEFINE q == queues[c]
  <2>1. q \in Seq(TaskId) /\ Lists(q, ReadyOn(tasks, c))
    BY <1>1 DEF SchedulerInv, QueuesOk
  <2> HIDE DEF q
  <2>2. DOMAIN q = 1..Len(q) /\ i \in DOMAIN q
    <3>1. DOMAIN q = 1..Len(q)
      BY <2>1
    <3>2. i \in DOMAIN q
      BY DEF q
    <3> QED BY <3>1, <3>2
  <2>3. q[i] \in ReadyOn(tasks, c)
    BY <2>1, <2>2 DEF Lists, In
  <2>4. \A j \in DOMAIN q : q[j] = q[i] => j = i
    BY <2>1, <2>2, Zenon DEF Lists, Once
  <2>5. /\ q[i] \in TaskId /\ q[i].generation = tasks[q[i].slot].generation
        /\ tasks[q[i].slot].state = "Runnable" /\ tasks[q[i].slot].queued_cpu = c
    BY <2>3 DEF ReadyOn
  <2>6. RecordOk(tasks[q[i].slot], donation[q[i].slot])
    BY <1>2, <1>3, <2>5
  <2>7. q[i] = Id(q[i].slot)
    BY <1>4, <2>5
  <2> QED BY <2>4, <2>5, <2>6, <2>7, Zenon DEF q, Names, Known, RecordOk
<1>6. ASSUME NEW c \in Cpu, current[c] # NoTask
      PROVE  /\ Names(current[c], "Running")
             /\ tasks[current[c].slot].assigned_cpu = c /\ c \in tasks[current[c].slot].affinity
  <2>1. /\ current[c].slot \in Slot /\ current[c] = IdOf(tasks, current[c].slot)
        /\ tasks[current[c].slot].state = "Running" /\ tasks[current[c].slot].assigned_cpu = c
    BY <1>6, CurrentTask, Zenon
  <2> DEFINE e == current[c]
  <2>2. e = Id(e.slot)
    BY <2>1 DEF Id, IdOf
  <2>3. RecordOk(tasks[e.slot], donation[e.slot])
    BY <1>2, <2>1
  <2> HIDE DEF e
  <2> QED BY <2>1, <2>2, <2>3 DEF e, Names, Known, RecordOk
<1>7. QueuedOk
  BY <1>5, <1>6, Zenon DEF QueuedOk
<1>8. ASSUME NEW s \in Slot
      PROVE  /\ tasks[s].state = "Runnable" =>
                  /\ tasks[s].queued_cpu # NoCpu
                  /\ \E i \in DOMAIN queues[tasks[s].queued_cpu] :
                       queues[tasks[s].queued_cpu][i] = Id(s)
             /\ tasks[s].state = "Running" =>
                  /\ tasks[s].assigned_cpu # NoCpu
                  /\ current[tasks[s].assigned_cpu] = Id(s)
  <2>1. Id(s) \in TaskId /\ Id(s).slot = s /\ Id(s).generation = tasks[s].generation
    BY <1>2 DEF Id, TaskId, TaskType
  <2>2. tasks[s].affinity \in SUBSET Cpu /\ RecordOk(tasks[s], donation[s])
    BY <1>2 DEF TaskType
  <2>3. ASSUME tasks[s].state = "Runnable"
        PROVE  /\ tasks[s].queued_cpu # NoCpu
               /\ \E i \in DOMAIN queues[tasks[s].queued_cpu] :
                    queues[tasks[s].queued_cpu][i] = Id(s)
    <3> DEFINE c == tasks[s].queued_cpu
               q == queues[c]
    <3>1. c \in Cpu /\ c # NoCpu
      BY <2>2, <2>3, CpuAssumption DEF RecordOk
    <3>2. Id(s) \in ReadyOn(tasks, c)
      BY <2>1, <2>3 DEF ReadyOn
    <3> HIDE DEF c
    <3>3. q \in Seq(TaskId) /\ Lists(q, ReadyOn(tasks, c))
      BY <1>1, <3>1 DEF SchedulerInv, QueuesOk
    <3> HIDE DEF q
    <3>4. \E i \in 1..Len(q) : q[i] = Id(s)
      BY <3>2, <3>3 DEF Lists, In
    <3>5. DOMAIN q = 1..Len(q)
      BY <3>3
    <3> QED BY <3>1, <3>4, <3>5 DEF c, q
  <2>4. ASSUME tasks[s].state = "Running"
        PROVE  tasks[s].assigned_cpu # NoCpu /\ current[tasks[s].assigned_cpu] = Id(s)
    <3> DEFINE c == tasks[s].assigned_cpu
    <3>1. c \in Cpu /\ c # NoCpu
      BY <2>2, <2>4, CpuAssumption DEF RecordOk
    <3>2. Id(s) \in RunningOn(tasks, c)
      BY <2>1, <2>4 DEF RunningOn
    <3> HIDE DEF c
    <3>3. RunningOn(tasks, c) = {current[c]} \ {NoTask}
      BY <3>1 DEF SchedulerInv, CpusOk
    <3> QED BY <3>1, <3>2, <3>3 DEF c
  <2> QED BY <2>3, <2>4
<1>9. ASSUME NEW s \in Slot
      PROVE  /\ tasks[s].state # "Runnable" =>
                  tasks[s].queued_cpu = NoCpu /\ tasks[s].bypass_count = 0
             /\ tasks[s].state \in {"Dormant", "Dead"} =>
                  tasks[s].assigned_cpu = NoCpu /\ tasks[s].wait_kind = "None" /\ donation[s] = 0
             /\ tasks[s].wake_reason # "None" => tasks[s].state \in {"Runnable", "Running"}
             /\ (tasks[s].state = "Blocked") = (tasks[s].wait_kind # "None")
             /\ Known(s) => tasks[s].affinity # {}
  BY <1>2 DEF RecordOk, Known
<1>10. TasksOk
  BY <1>8, <1>9, Zenon DEF TasksOk
<1> QED BY <1>7, <1>10 DEF PlacementOk

\* The invariant makes the wait list exact.
LEMMA InvWaiters ==
  ASSUME SchedulerInv
  PROVE  WaitersOk
<1>1. /\ tasks \in [Slot -> TaskType] /\ mutex_waiters \in Seq(TaskId)
  BY Types DEF SchedulerInv
<1>2. Lists(mutex_waiters, BlockedOnMutex(tasks)) /\ DOMAIN mutex_waiters = 1..Len(mutex_waiters)
  BY <1>1 DEF SchedulerInv
<1>3. ASSUME NEW i \in DOMAIN mutex_waiters
      PROVE  /\ Names(mutex_waiters[i], "Blocked")
             /\ tasks[mutex_waiters[i].slot].wait_kind = "Mutex"
             /\ \A j \in DOMAIN mutex_waiters : mutex_waiters[j] = mutex_waiters[i] => j = i
  <2> DEFINE w == mutex_waiters[i]
  <2>1. w.slot \in Slot /\ w = IdOf(tasks, w.slot) /\ tasks[w.slot].wait_kind = "Mutex"
    BY WaiterTask, Zenon
  <2>2. w = Id(w.slot)
    BY <2>1 DEF Id, IdOf
  <2>3. \A j \in DOMAIN mutex_waiters : mutex_waiters[j] = w => j = i
    BY <1>2, Zenon DEF Lists, Once
  <2>4. RecordOk(tasks[w.slot], donation[w.slot])
    BY <2>1 DEF SchedulerInv, RecordsOk
  <2> HIDE DEF w
  <2> QED BY <2>1, <2>2, <2>3, <2>4 DEF w, Names, Known, RecordOk
<1>4. ASSUME NEW s \in Slot, tasks[s].wait_kind = "Mutex"
      PROVE  \E i \in DOMAIN mutex_waiters : mutex_waiters[i] = Id(s)
  <2>1. tasks[s] \in TaskType
    BY <1>1
  <2>2. Id(s) \in TaskId /\ Id(s).slot = s /\ Id(s).generation = tasks[s].generation
    BY <2>1 DEF Id, TaskId, TaskType
  <2>3. Id(s) \in BlockedOnMutex(tasks)
    BY <1>4, <2>2 DEF BlockedOnMutex
  <2> QED BY <1>2, <2>3 DEF Lists, In
<1>5. mutex_owner = NoTask => mutex_waiters = <<>>
  BY Zenon DEF SchedulerInv, OwnerOk
<1>6. ASSUME mutex_owner # NoTask
      PROVE  /\ mutex_owner = Id(mutex_owner.slot)
             /\ \/ tasks[mutex_owner.slot].state \in {"Runnable", "Running"}
                \/ tasks[mutex_owner.slot].wait_kind \in {"Event", "ExternalLock"}
  <2> DEFINE s == mutex_owner.slot
  <2>1. /\ mutex_owner = Id(s) /\ tasks[s].state \notin {"Dormant", "Dead"}
        /\ tasks[s].wait_kind # "Mutex"
    BY <1>6, Zenon DEF SchedulerInv, OwnerOk, Id, IdOf
  <2>2. mutex_owner \in TaskId
    BY <1>6, Zenon DEF SchedulerInv, TypeOK
  <2>3. s \in Slot
    BY <2>2 DEF TaskId
  <2> HIDE DEF s
  <2>4. tasks[s] \in TaskType /\ RecordOk(tasks[s], donation[s])
    BY <1>1, <2>3, Zenon DEF SchedulerInv, RecordsOk
  <2> QED BY <2>1, <2>4 DEF TaskType, RecordOk, s
<1> QED BY <1>3, <1>4, <1>5, <1>6, Zenon DEF WaitersOk

\* The invariant makes every priority the one recompute_effective_priorities
\* would compute.
LEMMA InvPriorities ==
  ASSUME SchedulerInv
  PROVE  PriorityExact
<1> DEFINE o == mutex_owner
           ws == mutex_waiters
           E(s) == Max({tasks[s].base_priority, donation[s]} \cup InheritedBy(tasks, o, ws, s))
           us == [s \in Slot |->
                    IF tasks[s].generation = 0 THEN tasks[s]
                    ELSE [tasks[s] EXCEPT !.effective_priority = E(s)]]
<1>1. Recompute(tasks, o, ws, donation) = us
  BY Zenon DEF Recompute, InheritedBy
<1>2. tasks \in [Slot -> TaskType]
  BY Types DEF SchedulerInv
<1>3. \A s \in Slot : tasks[s].generation # 0 => tasks[s].effective_priority = E(s)
  BY Zenon DEF SchedulerInv, Exact
<1> HIDE DEF E
<1>4. ASSUME NEW s \in Slot PROVE us[s] = tasks[s]
  <2>1. CASE tasks[s].generation = 0
    BY <2>1
  <2>2. CASE tasks[s].generation # 0
    <3>1. us[s] = [tasks[s] EXCEPT !.effective_priority = E(s)]
      BY <2>2
    <3>2. tasks[s] \in TaskType /\ E(s) = tasks[s].effective_priority
      BY <1>2, <1>3, <2>2
    <3> HIDE DEF us
    <3> QED BY <3>1, <3>2 DEF TaskType
  <2> QED BY <2>1, <2>2
<1>5. us = [s \in Slot |-> us[s]] /\ tasks = [s \in Slot |-> tasks[s]]
  BY <1>2
<1> HIDE DEF us
<1>6. tasks = us
  BY <1>4, <1>5
<1> QED BY <1>1, <1>6 DEF PriorityExact
=============================================================================
