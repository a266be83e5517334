--------------------------- MODULE LifetimeSteps ---------------------------
(***************************************************************************)
(* The invariant of TaskLifetimes and the operations that keep it, but     *)
(* those of a dispatch under way, for every set of tasks, CPUs, readers    *)
(* and limits.  The scheduler's part of a step is taken from SmpSteps; of  *)
(* it the resources only see which tasks execute and which are dead.       *)
(***************************************************************************)
EXTENDS TaskLifetimes, SmpSteps

\* A leaf is tried with SMT, then with Zenon, then with SMT for longer.
USE SMT, Zenon, SMTT(40)

-----------------------------------------------------------------------------
(* The inductive invariant *)

Executes(t) == t.state \in {"Transfer", "Running"}

PoolTypes ==
    /\ entries \in [PoolSlot -> [phase : {"Free", "Live", "Retired"}, generation : Nat]]
    /\ pins \in [PoolSlot -> Nat]
    /\ bindings \in [Slot -> [handle : Handle, retired : BOOLEAN] \cup {NoBinding}]
    /\ generations \in [Slot -> Nat]
    /\ phase \in {"open", "draining", "dropped"}
    /\ readers \in [Reader -> Handle \cup {NoHandle}]

Hold == [handle : Handle, ticket : Ticket, state : {"exposed", "quiet", "dropped"}]

\* Every ticket has one Dispatch value, made when the ticket was handed out.
HoldsOk ==
    /\ IsFiniteSet(holds) /\ holds \subseteq Hold
    /\ \A h \in holds : h.ticket.transaction <= transaction
    /\ \A h, g \in holds : h.ticket = g.ticket => h = g

\* The binding of one task slot agrees with the scheduler and with the pool.
BindingOk(s) ==
    /\ tasks[s].generation = generations[s]
    /\ ~Bound(s) => ~Live(s) \/ tasks[s].state = "Dead"
    /\ Bound(s) =>
         /\ Live(s) /\ Valid(bindings[s].handle)
         /\ bindings[s].retired = (tasks[s].state = "Dead")
         /\ bindings[s].retired = (entries[bindings[s].handle.slot].phase = "Retired")

\* No two task slots share an object, and every object in the pool has one.
OwnersOk ==
    /\ \A s, t \in Slot :
         Bound(s) /\ Bound(t) /\ bindings[s].handle.slot = bindings[t].handle.slot => s = t
    /\ \A i \in PoolSlot : entries[i].phase # "Free" =>
         \E s \in Slot : Bound(s) /\ bindings[s].handle.slot = i

\* The composition stages dispatches and probes only.
TicketKinds == pending # NoTicket => pending.kind \in {"Dispatch", "OfflineProbe"}

LifeInv ==
    /\ SmpInv /\ PoolTypes /\ HoldsOk /\ TicketKinds
    /\ PinsExact /\ HeldAlive /\ RunsHeld
    /\ \A s \in Slot : BindingOk(s)
    /\ OwnersOk

\* What the resources see of a task that neither begins to execute nor dies.
Keeps(s) ==
    /\ tasks'[s].generation = tasks[s].generation
    /\ tasks'[s].state = "Dead" <=> tasks[s].state = "Dead"
    /\ Executes(tasks'[s]) => Executes(tasks[s])

-----------------------------------------------------------------------------
(* Reclamation, creation and dispatch *)

\* A reclaimed object that nobody has pinned leaves the pool; its task is dead.
LEMMA ReclaimStep ==
  ASSUME LifeInv, NEW s \in Slot, Reclaim(s),
         \A r \in Reader : readers[r] # NoHandle => readers[r].slot # bindings[s].handle.slot,
         \A g \in holds : g.handle.slot # bindings[s].handle.slot
  PROVE  LifeInv'
<1> DEFINE h == bindings[s].handle
           e == [entries[h.slot] EXCEPT !.phase = "Free"]
<1>1. /\ Bound(s) /\ bindings[s].retired /\ pins[h.slot] = 0
      /\ entries' = [entries EXCEPT ![h.slot] = e]
      /\ bindings' = [bindings EXCEPT ![s] = NoBinding]
      /\ UNCHANGED <<schedVars, pins, generations, phase, readers, holds>>
  BY DEF Reclaim, PoolReclaim
<1>2. /\ entries \in [PoolSlot -> [phase : {"Free", "Live", "Retired"}, generation : Nat]]
      /\ bindings \in [Slot -> [handle : Handle, retired : BOOLEAN] \cup {NoBinding}]
  BY DEF LifeInv, PoolTypes
<1>3. h \in Handle /\ h.slot \in PoolSlot
  BY <1>1, <1>2 DEF Bound, Handle
<1>4. e \in [phase : {"Free", "Live", "Retired"}, generation : Nat] /\ e.phase = "Free"
  BY <1>2, <1>3
<1>5. tasks' = tasks /\ transaction' = transaction /\ pending' = pending
  BY <1>1 DEF schedVars
<1>6. SmpInv' /\ TicketKinds'
  BY <1>1 DEF schedVars, LifeInv, SmpInv, TypeOK, RecordsOk, PendingOk, TicketKinds
<1>7. tasks[s].state = "Dead"
  BY <1>1, Zenon DEF LifeInv, BindingOk
<1>8. /\ \A r \in Reader : readers[r] # NoHandle => readers[r].slot # h.slot
      /\ \A g \in holds : g.handle.slot # h.slot
  OBVIOUS
<1>9. \A x \in Slot : Bound(x) /\ x # s => bindings[x].handle.slot # h.slot
  BY <1>1 DEF LifeInv, OwnersOk
<1> HIDE DEF e, h
<1>10. /\ entries'[h.slot] = e /\ \A j \in PoolSlot : j # h.slot => entries'[j] = entries[j]
       /\ bindings'[s] = NoBinding /\ \A x \in Slot : x # s => bindings'[x] = bindings[x]
  BY <1>1, <1>2, <1>3
<1>11. ~Bound(s)' /\ \A x \in Slot : x # s => (Bound(x)' <=> Bound(x))
  BY <1>10 DEF Bound
<1>12. PoolTypes'
  <2>1. /\ entries' \in [PoolSlot -> [phase : {"Free", "Live", "Retired"}, generation : Nat]]
        /\ bindings' \in [Slot -> [handle : Handle, retired : BOOLEAN] \cup {NoBinding}]
    BY <1>1, <1>2, <1>4, Zenon
  <2> QED BY <1>1, <2>1 DEF LifeInv, PoolTypes
<1>13. HoldsOk' /\ PinsExact'
  BY <1>1, <1>5 DEF LifeInv, HoldsOk, PinsExact, Pinned
<1>14. \A g \in Handle : g.slot # h.slot => (Valid(g)' <=> Valid(g))
  BY <1>10 DEF Valid, Handle
<1>15. HeldAlive'
  BY <1>1, <1>8, <1>14 DEF LifeInv, HeldAlive, Pinned, HoldsOk, Hold, PoolTypes
<1>16. RunsHeld'
  <2> SUFFICES ASSUME NEW x \in Slot, Executes(tasks[x])
               PROVE  \E f \in holds : /\ f.ticket.task = Id(x) /\ f.state # "quiet"
                                       /\ f.handle = bindings'[x].handle
    BY <1>1, <1>5, Zenon DEF RunsHeld, Executes, Id
  <2>1. x # s
    BY <1>7 DEF Executes
  <2> QED BY <1>10, <2>1 DEF LifeInv, RunsHeld, Executes
<1>17. ASSUME NEW x \in Slot PROVE BindingOk(x)'
  <2>1. BindingOk(x)
    BY DEF LifeInv
  <2>2. CASE x = s
    BY <1>1, <1>5, <1>7, <1>11, <2>1, <2>2 DEF BindingOk
  <2>3. CASE x # s /\ ~Bound(x)
    BY <1>1, <1>5, <1>11, <2>1, <2>3 DEF BindingOk, Live
  <2>4. CASE x # s /\ Bound(x)
    <3> DEFINE k == bindings[x].handle
    <3>1. k \in Handle /\ k.slot # h.slot
      BY <1>2, <1>9, <2>4 DEF Bound
    <3>2. entries'[k.slot] = entries[k.slot] /\ bindings'[x] = bindings[x]
      BY <1>10, <2>4, <3>1, Zenon DEF Handle
    <3>3. Valid(bindings[x].handle)' <=> Valid(bindings[x].handle)
      BY <3>2 DEF Valid
    <3> QED BY <1>1, <1>5, <1>11, <2>1, <2>4, <3>2, <3>3, Zenon DEF BindingOk, Live
  <2> QED BY <2>2, <2>3, <2>4
<1>18. OwnersOk'
  <2>1. ASSUME NEW x \in Slot, NEW y \in Slot, Bound(x)', Bound(y)',
               bindings'[x].handle.slot = bindings'[y].handle.slot
        PROVE  x = y
    BY <1>10, <1>11, <2>1 DEF LifeInv, OwnersOk
  <2>2. ASSUME NEW j \in PoolSlot, entries'[j].phase # "Free"
        PROVE  \E x \in Slot : Bound(x)' /\ bindings'[x].handle.slot = j
    <3>1. j # h.slot
      BY <1>4, <1>10, <2>2
    <3>2. PICK x \in Slot : Bound(x) /\ bindings[x].handle.slot = j
      BY <1>10, <2>2, <3>1 DEF LifeInv, OwnersOk
    <3>3. x # s
      BY <3>1, <3>2 DEF h
    <3> QED BY <1>10, <1>11, <3>2, <3>3
  <2> QED BY <2>1, <2>2 DEF OwnersOk
<1> QED BY <1>6, <1>12, <1>13, <1>15, <1>16, <1>17, <1>18 DEF LifeInv

\* A new task is bound to a new object, in a pool slot that nobody uses.
LEMMA LifeCreate ==
  ASSUME LifeInv, NEW s \in Slot, NEW p \in Priority, NEW a \in Affinity, Create(s, p, a)
  PROVE  LifeInv'
<1>1. PICK i \in Publishable :
        /\ entries' = [entries EXCEPT ![i] =
                         [phase |-> "Live", generation |-> entries[i].generation + 1]]
        /\ bindings' = [bindings EXCEPT ![s] =
                          [handle |-> [slot |-> i, generation |-> entries[i].generation + 1],
                           retired |-> FALSE]]
  BY Zenon DEF Create, Publish
<1> DEFINE g == entries[i].generation + 1
           h == [slot |-> i, generation |-> g]
           e == [phase |-> "Live", generation |-> g]
           b == [handle |-> h, retired |-> FALSE]
           n == generations[s] + 1
           t == [EmptyTask EXCEPT !.generation = n, !.priority = p, !.affinity = a]
<1>2. /\ entries \in [PoolSlot -> [phase : {"Free", "Live", "Retired"}, generation : Nat]]
      /\ bindings \in [Slot -> [handle : Handle, retired : BOOLEAN] \cup {NoBinding}]
      /\ generations \in [Slot -> Nat]
  BY DEF LifeInv, PoolTypes
<1>a. i \in PoolSlot /\ entries[i].phase = "Free"
  BY DEF Publishable
<1>3. i \in PoolSlot /\ entries[i].phase = "Free" /\ g \in Nat
  BY <1>2, <1>a
<1>4. h \in Handle /\ h.slot = i /\ h.generation = g
  BY <1>3 DEF Handle
<1>5. /\ e \in [phase : {"Free", "Live", "Retired"}, generation : Nat]
      /\ e.phase = "Live" /\ e.generation = g
  BY <1>3
<1>6. b \in [handle : Handle, retired : BOOLEAN] /\ b.handle = h /\ b.retired = FALSE
  BY <1>4
<1>7. /\ generations[s] < MaxGeneration /\ ~Bound(s) /\ CreateTask(s, n, p, a)
      /\ generations' = [generations EXCEPT ![s] = n]
      /\ UNCHANGED <<pins, phase, readers, holds>>
  BY DEF Create
<1>8. n \in 1..MaxGeneration /\ n \in Nat /\ n # 0
  BY <1>2, <1>7, BoundAssumption
<1>9. tasks' = [tasks EXCEPT ![s] = t] /\ pending' = pending /\ transaction' = transaction
  BY <1>7 DEF CreateTask, ticketVars
<1>10. t.state = "Dormant" /\ t.generation = n
  BY DEF EmptyTask
<1>11. entries' = [entries EXCEPT ![i] = e] /\ bindings' = [bindings EXCEPT ![s] = b]
  BY <1>1
<1>12. tasks \in [Slot -> TaskRecord] /\ SmpInv
  BY DEF LifeInv, SmpInv, TypeOK
<1>13. SmpInv'
  BY <1>7, <1>8, <1>12, CreateStep
<1> HIDE DEF g, h, e, b, n, t
<1>14. /\ entries'[i] = e /\ \A j \in PoolSlot : j # i => entries'[j] = entries[j]
       /\ bindings'[s] = b /\ \A x \in Slot : x # s => bindings'[x] = bindings[x]
  BY <1>2, <1>3, <1>11
<1>15. /\ tasks'[s] = t /\ \A x \in Slot : x # s => tasks'[x] = tasks[x]
       /\ generations'[s] = n /\ \A x \in Slot : x # s => generations'[x] = generations[x]
  BY <1>2, <1>7, <1>9, <1>12
<1>16. b # NoBinding
  BY <1>4, <1>6, HandleAssumption DEF NoBinding
<1>17. PoolTypes'
  <2>1. /\ entries' \in [PoolSlot -> [phase : {"Free", "Live", "Retired"}, generation : Nat]]
        /\ bindings' \in [Slot -> [handle : Handle, retired : BOOLEAN] \cup {NoBinding}]
        /\ generations' \in [Slot -> Nat]
    BY <1>2, <1>5, <1>6, <1>7, <1>8, <1>11, Zenon
  <2> QED BY <1>7, <2>1 DEF LifeInv, PoolTypes
<1>18. \A x \in Handle : Valid(x) => x.slot # i /\ Valid(x)'
  BY <1>3, <1>14 DEF Valid, Handle
<1>19. HoldsOk' /\ PinsExact' /\ TicketKinds'
  BY <1>7, <1>9 DEF LifeInv, HoldsOk, PinsExact, Pinned, TicketKinds
<1>20. HeldAlive'
  BY <1>7, <1>18 DEF LifeInv, HeldAlive, Pinned, HoldsOk, Hold, PoolTypes
<1>21. RunsHeld'
  <2> SUFFICES ASSUME NEW x \in Slot, Executes(tasks'[x])
               PROVE  \E f \in holds : /\ f.ticket.task = Id(x)' /\ f.state # "quiet"
                                       /\ f.handle = bindings'[x].handle
    BY <1>7 DEF RunsHeld, Executes
  <2>1. x # s
    BY <1>10, <1>15 DEF Executes
  <2> QED BY <1>14, <1>15, <2>1 DEF LifeInv, RunsHeld, Executes, Id
<1>22. \A x \in Slot : Bound(x) => bindings[x].handle \in Handle /\ Valid(bindings[x].handle)
  BY <1>2 DEF LifeInv, BindingOk, Bound
<1>23. ASSUME NEW x \in Slot PROVE BindingOk(x)'
  <2>1. CASE x = s
    <3>1. entries'[h.slot].phase = "Live" /\ entries'[h.slot].generation = h.generation
      BY <1>4, <1>5, <1>14
    <3>2. tasks'[s].generation = generations'[s] /\ Live(s)' /\ tasks'[s].state = "Dormant"
      BY <1>8, <1>10, <1>15 DEF Live
    <3>3. bindings'[s].handle = h /\ bindings'[s].retired = FALSE
      BY <1>6, <1>14
    <3>4. Bound(s)' /\ Valid(bindings[s].handle)'
      BY <1>14, <1>16, <3>1, <3>3 DEF Bound, Valid
    <3>5. entries'[bindings'[s].handle.slot].phase = "Live"
      BY <3>1, <3>3
    <3> QED BY <2>1, <3>2, <3>3, <3>4, <3>5, Zenon DEF BindingOk
  <2>2. CASE x # s
    <3>1. BindingOk(x)
      BY DEF LifeInv
    <3>2. /\ bindings'[x] = bindings[x] /\ tasks'[x] = tasks[x]
          /\ generations'[x] = generations[x]
      BY <1>14, <1>15, <2>2
    <3>3. CASE Bound(x)
      <4> DEFINE k == bindings[x].handle
      <4>1. k \in Handle /\ k.slot # i /\ Valid(k)
        BY <1>18, <1>22, <3>3
      <4>2. entries'[k.slot] = entries[k.slot]
        BY <1>14, <4>1 DEF Handle
      <4>3. bindings'[x].handle = k /\ Valid(bindings[x].handle)'
        BY <3>2, <4>1, <4>2 DEF Valid
      <4> QED BY <3>1, <3>2, <3>3, <4>2, <4>3 DEF BindingOk, Bound, Live
    <3>4. CASE ~Bound(x)
      BY <3>1, <3>2, <3>4, Zenon DEF BindingOk, Bound, Live
    <3> QED BY <3>3, <3>4
  <2> QED BY <2>1, <2>2
<1>24. OwnersOk'
  <2>1. Bound(s)' /\ \A x \in Slot : x # s => (Bound(x)' <=> Bound(x))
    BY <1>14, <1>16 DEF Bound
  <2>2. bindings'[s].handle.slot = i
    BY <1>4, <1>6, <1>14
  <2>3. \A x \in Slot : Bound(x) => bindings[x].handle.slot # i
    BY <1>18, <1>22
  <2>4. ASSUME NEW x \in Slot, NEW y \in Slot, Bound(x)', Bound(y)',
               bindings'[x].handle.slot = bindings'[y].handle.slot
        PROVE  x = y
    <3>1. CASE x # s /\ y # s
      BY <1>14, <2>1, <2>4, <3>1 DEF LifeInv, OwnersOk
    <3>2. CASE x = s \/ y = s
      BY <1>14, <2>1, <2>2, <2>3, <2>4, <3>2
    <3> QED BY <3>1, <3>2
  <2>5. \A j \in PoolSlot : entries'[j].phase # "Free" =>
          \E x \in Slot : Bound(x)' /\ bindings'[x].handle.slot = j
    <3> SUFFICES ASSUME NEW j \in PoolSlot, entries'[j].phase # "Free"
                 PROVE  \E x \in Slot : Bound(x)' /\ bindings'[x].handle.slot = j
      OBVIOUS
    <3>1. CASE j = i
      BY <2>1, <2>2, <3>1
    <3>2. CASE j # i
      <4>1. PICK x \in Slot : Bound(x) /\ bindings[x].handle.slot = j
        BY <1>14, <3>2 DEF LifeInv, OwnersOk
      <4>2. x # s
        BY <1>7, <4>1
      <4> QED BY <1>14, <2>1, <4>1, <4>2
    <3> QED BY <3>1, <3>2
  <2> QED BY <2>4, <2>5 DEF OwnersOk
<1> QED BY <1>13, <1>17, <1>19, <1>20, <1>21, <1>23, <1>24 DEF LifeInv

\* What a staged dispatch does to the tasks, and the ticket it makes.
LEMMA StageFacts ==
  ASSUME SmpInv, NEW c \in Cpu, StageDispatch(c)
  PROVE  \E s \in Slot :
           /\ tasks[s].state = "Runnable" /\ tasks[s].generation # 0
           /\ tasks'[s].state = "Transfer" /\ tasks'[s].generation = tasks[s].generation
           /\ \A x \in Slot : x # s => Keeps(x)
           /\ pending' \in Ticket /\ pending'.task = Id(s) /\ pending'.kind = "Dispatch"
           /\ pending'.transaction = transaction + 1 /\ transaction' = transaction + 1
<1>1. PICK i \in DOMAIN queues[c] :
        /\ tasks' = [Passed(tasks, queues[c], i) EXCEPT ![queues[c][i].slot].state = "Transfer",
                                                        ![queues[c][i].slot].queued_cpu = NoCpu]
        /\ Install("Dispatch", queues[c][i], c, c)
  BY Zenon DEF StageDispatch
<1> DEFINE id == queues[c][i]
           s == id.slot
           ps == Passed(tasks, queues[c], i)
           u == [ps[s] EXCEPT !.state = "Transfer", !.queued_cpu = NoCpu]
<1>2. tasks \in [Slot -> TaskRecord] /\ queues \in [Cpu -> Seq(TaskId)]
  BY DEF SmpInv, TypeOK
<1>a. queues[c] \in Seq(TaskId)
  BY <1>2
<1>b. id \in TaskId
  BY <1>a
<1>3. id \in TaskId /\ s \in Slot
  BY <1>b DEF TaskId
<1>4. In(queues[c], id)
  BY <1>2 DEF In
<1>5. Ready(tasks, id, c)
  BY <1>3, <1>4 DEF SmpInv, Queued
<1>6. id = Id(s) /\ tasks[s].state = "Runnable"
  BY <1>3, <1>5 DEF Ready, Id, TaskId
<1>7. tasks[s].generation # 0
  BY <1>3, <1>6 DEF SmpInv, RecordsOk, RecordOk
<1>8. ps \in [Slot -> TaskRecord] /\ \A x \in Slot : Alike(tasks[x], ps[x])
  BY <1>2, PassedAlike
<1>9. tasks' = [ps EXCEPT ![s] = u]
  BY <1>1, <1>3, <1>8, Zenon
<1>10. u.state = "Transfer" /\ u.generation = ps[s].generation
  BY <1>3, <1>8 DEF TaskRecord
<1>11. /\ pending' \in Ticket /\ pending'.task = id /\ pending'.kind = "Dispatch"
  BY <1>1, <1>3, Installed, Zenon DEF Kind
<1>12. pending'.transaction = transaction + 1 /\ transaction' = transaction + 1
  <2>1. Install("Dispatch", queues[c][i], c, c)
    BY <1>1, Zenon
  <2> QED BY ONLY <2>1 DEF Install
<1> HIDE DEF u, ps, s, id
<1>13. tasks'[s] = u /\ \A x \in Slot : x # s => tasks'[x] = ps[x]
  BY <1>3, <1>8, <1>9
<1>14. \A x \in Slot : x # s => Keeps(x)
  BY <1>8, <1>13 DEF Keeps, Executes, Alike
<1>15. tasks'[s].generation = tasks[s].generation /\ tasks'[s].state = "Transfer"
  BY <1>3, <1>8, <1>10, <1>13 DEF Alike
<1> QED BY <1>3, <1>6, <1>7, <1>11, <1>12, <1>14, <1>15

\* The dispatch of a task makes one new hold, with a pin on the task's object;
\* what remains to be seen is that the pins still count the holds.
LEMMA StageAdds ==
  ASSUME LifeInv, NEW c \in Cpu, Stage(c)
  PROVE  \E e \in Hold :
           /\ e \notin holds /\ holds' = holds \cup {e} /\ readers' = readers
           /\ pins' = [pins EXCEPT ![e.handle.slot] = @ + 1]
           /\ IsFiniteSet(holds') /\ PinsExact' => LifeInv'
<1>1. SmpInv /\ StageDispatch(c) /\ transaction \in Nat
  BY DEF LifeInv, Stage, SmpInv, TypeOK
<1>2. SmpInv'
  BY <1>1, StageDispatchStep
<1>3. PICK s \in Slot :
        /\ tasks[s].state = "Runnable" /\ tasks[s].generation # 0
        /\ tasks'[s].state = "Transfer" /\ tasks'[s].generation = tasks[s].generation
        /\ \A x \in Slot : x # s => Keeps(x)
        /\ pending' \in Ticket /\ pending'.task = Id(s) /\ pending'.kind = "Dispatch"
        /\ pending'.transaction = transaction + 1 /\ transaction' = transaction + 1
  BY <1>1, StageFacts
<1> DEFINE h == bindings[s].handle
           e == [handle |-> h, ticket |-> pending', state |-> "exposed"]
<1>4. pending'.task.slot = s
  BY <1>3 DEF Id
<1>5. /\ Valid(h) /\ pins' = [pins EXCEPT ![h.slot] = @ + 1] /\ holds' = holds \cup {e}
      /\ UNCHANGED <<entries, bindings, generations, phase, readers>>
  BY <1>4 DEF Stage, PoolPin
<1>6. Bound(s)
  BY <1>3 DEF LifeInv, BindingOk, Live
<1>7. h \in Handle /\ h.slot \in PoolSlot
  BY <1>6 DEF LifeInv, PoolTypes, Bound, Handle
<1>8. e \in Hold /\ e.handle = h /\ e.ticket = pending' /\ e.state = "exposed"
  BY <1>3, <1>7 DEF Hold
<1> HIDE DEF h, e
<1>9. /\ IsFiniteSet(holds) /\ holds \subseteq Hold
      /\ \A g \in holds : g.ticket.transaction <= transaction /\ g.ticket.transaction \in Nat
      /\ \A f, g \in holds : f.ticket = g.ticket => f = g
  BY DEF LifeInv, HoldsOk, Hold, Ticket
<1>10. \A g \in holds : g.ticket # e.ticket
  BY <1>1, <1>3, <1>8, <1>9
<1>11. e \notin holds
  BY <1>10
<1>12. IsFiniteSet(holds') => HoldsOk'
  BY <1>1, <1>3, <1>5, <1>8, <1>9, <1>10 DEF HoldsOk
<1>13. pins \in [PoolSlot -> Nat]
  BY DEF LifeInv, PoolTypes
<1>15. HeldAlive'
  BY <1>5, <1>8 DEF LifeInv, HeldAlive, Valid, Pinned
<1>16. RunsHeld'
  <2> SUFFICES ASSUME NEW x \in Slot, Executes(tasks'[x])
               PROVE  \E g \in holds' : /\ g.ticket.task = Id(x)' /\ g.state # "quiet"
                                        /\ g.handle = bindings[x].handle
    BY <1>5, Zenon DEF RunsHeld, Executes
  <2>1. CASE x = s
    BY <1>3, <1>5, <1>8, <2>1 DEF Id, h
  <2>2. CASE x # s
    <3>1. Executes(tasks[x]) /\ Id(x)' = Id(x)
      BY <1>3, <2>2 DEF Keeps, Id
    <3>2. PICK g \in holds : /\ g.ticket.task = Id(x) /\ g.state # "quiet"
                             /\ g.handle = bindings[x].handle
      BY <3>1 DEF LifeInv, RunsHeld, Executes
    <3> QED BY <1>5, <3>1, <3>2, Zenon
  <2> QED BY <2>1, <2>2
<1>17. \A x \in Slot : BindingOk(x)'
  <2> SUFFICES ASSUME NEW x \in Slot PROVE BindingOk(x)'
    OBVIOUS
  <2>1. BindingOk(x)
    BY DEF LifeInv
  <2>2. /\ tasks'[x].generation = tasks[x].generation
        /\ tasks'[x].state = "Dead" <=> tasks[x].state = "Dead"
    BY <1>3 DEF Keeps
  <2> QED BY <1>5, <2>1, <2>2, Zenon DEF BindingOk, Bound, Live, Valid
<1>18. PoolTypes' /\ OwnersOk' /\ TicketKinds'
  <2>1. pins' \in [PoolSlot -> Nat]
    BY <1>5, <1>7, <1>13
  <2> QED BY <1>3, <1>5, <2>1, Zenon DEF LifeInv, PoolTypes, OwnersOk, Bound, TicketKinds
<1>19. IsFiniteSet(holds') /\ PinsExact' => LifeInv'
  BY <1>2, <1>12, <1>15, <1>16, <1>17, <1>18 DEF LifeInv
<1>20. pins' = [pins EXCEPT ![e.handle.slot] = @ + 1]
  BY <1>5, <1>8
<1> QED BY <1>5, <1>8, <1>11, <1>19, <1>20, Zenon

-----------------------------------------------------------------------------
(* The scheduler's part of a step *)

\* Every step of the composition is a step of the scheduler, or leaves it alone,
\* or cancels a task that was never activated: the controller, the readers and
\* the dispatches do nothing to the scheduler that its operations do not.
LEMMA LifeMoves ==
  LifeInv /\ [LifeNext]_vars => [Next \/ \E s \in Slot : CancelDormant(s)]_schedVars
<1> SUFFICES ASSUME LifeInv, [LifeNext]_vars
             PROVE  Next \/ (\E s \in Slot : CancelDormant(s)) \/ UNCHANGED schedVars
  OBVIOUS
<1>1. ASSUME NEW s \in Slot, LifeTaskOp(s), ~CancelDormant(s)
      PROVE  TaskOp(s) \/ UNCHANGED schedVars
  <2>1. ASSUME NEW p \in Priority, NEW a \in Affinity, Create(s, p, a) PROVE TaskOp(s)
    <3>1. generations[s] + 1 \in 1..MaxGeneration
      BY <2>1, BoundAssumption DEF Create, LifeInv, PoolTypes
    <3> QED BY <2>1, <3>1 DEF Create, TaskOp
  <2>2. ASSUME NEW c \in Cpu, ActivateBound(s, c) PROVE TaskOp(s)
    BY <2>2 DEF ActivateBound, TaskOp
  <2>3. CASE Block(s) \/ Cancel(s) \/ Probe(s)
    BY <2>3 DEF Block, Cancel, Probe, TaskOp
  <2>4. CASE Reclaim(s)
    BY <2>4 DEF Reclaim
  <2> QED BY <1>1, <2>1, <2>2, <2>3, <2>4 DEF LifeTaskOp
<1>2. ASSUME NEW c \in Cpu, Stage(c) \/ Complete(c) PROVE CpuOp(c)
  BY <1>2 DEF Stage, Complete, CpuOp
<1>3. ASSUME NEW r \in Reader, ReaderOp(r) PROVE UNCHANGED schedVars
  BY <1>3 DEF ReaderOp, DropPin, PinTask
<1>4. ASSUME NEW h \in holds, HoldOp(h) PROVE UNCHANGED schedVars
  BY <1>4 DEF HoldOp, Quiesce, DropDispatch, ConfirmQuiescent
<1>5. CASE RunLocal
  BY <1>5 DEF RunLocal, Next
<1>6. CASE Settle
  BY <1>6 DEF Settle, Next
<1>7. CASE BeginShutdown \/ DropController
  BY <1>7 DEF BeginShutdown, DropController
<1>8. CASE Answer /\ UNCHANGED lifeVars
  BY <1>8 DEF Next
<1>9. CASE UNCHANGED vars
  BY <1>9 DEF vars
<1> QED BY <1>1, <1>2, <1>3, <1>4, <1>5, <1>6, <1>7, <1>8, <1>9 DEF LifeNext, Next

-----------------------------------------------------------------------------
(* Steps of the scheduler *)

\* A scheduler operation that leaves the resources alone, and starts and ends
\* no task, keeps the invariant.
LEMMA QuietStep ==
  ASSUME LifeInv, SmpInv', TicketKinds', \A s \in Slot : Keeps(s), transaction' >= transaction,
         UNCHANGED lifeVars
  PROVE  LifeInv'
<1>1. UNCHANGED <<entries, pins, bindings, generations, phase, readers, holds>>
  BY Zenon DEF lifeVars
<1>2. PoolTypes' /\ PinsExact' /\ HeldAlive' /\ OwnersOk'
  <2>1. PoolTypes /\ PinsExact /\ HeldAlive /\ OwnersOk
    BY Zenon DEF LifeInv
  <2> QED BY <1>1, <2>1 DEF PoolTypes, PinsExact, Pinned, HeldAlive, Valid, OwnersOk, Bound
<1>3. HoldsOk'
  <2>1. transaction \in Nat /\ transaction' \in Nat
    BY DEF LifeInv, SmpInv, TypeOK
  <2>2. HoldsOk
    BY Zenon DEF LifeInv
  <2>3. \A h \in holds : h.ticket.transaction \in Nat
    BY <2>2 DEF HoldsOk, Hold, Ticket
  <2> QED BY <1>1, <2>1, <2>2, <2>3 DEF HoldsOk
<1>4. RunsHeld'
  <2>1. RunsHeld
    BY Zenon DEF LifeInv
  <2> QED BY <1>1, <2>1 DEF RunsHeld, Keeps, Executes, Id
<1>5. \A s \in Slot : BindingOk(s)'
  <2>1. \A s \in Slot : BindingOk(s)
    BY Zenon DEF LifeInv
  <2> QED BY <1>1, <2>1 DEF BindingOk, Bound, Live, Valid, Keeps
<1> QED BY <1>2, <1>3, <1>4, <1>5 DEF LifeInv

\* The end of a task, with the retirement of its object.
LEMMA RetireStep ==
  ASSUME LifeInv, SmpInv', TicketKinds', NEW s \in Slot, Retire(s),
         \A x \in Slot : x # s => Keeps(x),
         tasks'[s].generation = tasks[s].generation, tasks'[s].state = "Dead",
         transaction' = transaction
  PROVE  LifeInv'
<1> DEFINE h == bindings[s].handle
<1>1. /\ Bound(s) /\ Valid(h) /\ entries' = [entries EXCEPT ![h.slot].phase = "Retired"]
      /\ bindings' = [bindings EXCEPT ![s].retired = TRUE]
      /\ UNCHANGED <<pins, generations, phase, readers, holds>>
  BY DEF Retire, PoolRetire
<1>2. h \in Handle /\ h.slot \in PoolSlot
  BY <1>1 DEF LifeInv, PoolTypes, Bound, NoBinding, Handle
<1>3. PoolTypes'
  <2> DEFINE e == [entries[h.slot] EXCEPT !.phase = "Retired"]
             b == [bindings[s] EXCEPT !.retired = TRUE]
  <2>1. e \in [phase : {"Free", "Live", "Retired"}, generation : Nat]
    BY <1>2 DEF LifeInv, PoolTypes
  <2>2. bindings[s] \in [handle : Handle, retired : BOOLEAN]
    BY <1>1 DEF LifeInv, PoolTypes, Bound
  <2>3. b \in [handle : Handle, retired : BOOLEAN]
    BY <2>2, Zenon
  <2>4. entries' = [entries EXCEPT ![h.slot] = e] /\ bindings' = [bindings EXCEPT ![s] = b]
    BY <1>1
  <2> HIDE DEF e, b, h
  <2>5. /\ entries' \in [PoolSlot -> [phase : {"Free", "Live", "Retired"}, generation : Nat]]
        /\ bindings' \in [Slot -> [handle : Handle, retired : BOOLEAN] \cup {NoBinding}]
    BY <1>2, <2>1, <2>3, <2>4 DEF LifeInv, PoolTypes
  <2> QED BY <1>1, <2>5 DEF LifeInv, PoolTypes
<1>4. /\ \A i \in PoolSlot : /\ entries'[i].generation = entries[i].generation
                             /\ entries'[i].phase = "Free" <=> entries[i].phase = "Free"
      /\ \A i \in PoolSlot : i # h.slot => entries'[i] = entries[i]
      /\ entries'[h.slot].phase = "Retired"
  BY <1>1, <1>2, Zenon DEF LifeInv, PoolTypes, Valid
<1>5. /\ \A x \in Slot : x # s => bindings'[x] = bindings[x]
      /\ bindings'[s].handle = h /\ bindings'[s].retired = TRUE
      /\ \A x \in Slot : Bound(x)' <=> Bound(x)
  <2>1. bindings \in [Slot -> [handle : Handle, retired : BOOLEAN] \cup {NoBinding}]
    BY DEF LifeInv, PoolTypes
  <2>2. bindings[s] \in [handle : Handle, retired : BOOLEAN]
    BY <1>1, <2>1 DEF Bound
  <2>3. bindings'[s].handle = h /\ bindings'[s].retired = TRUE
    BY <1>1, <2>1, <2>2
  <2>4. \A x \in Slot : x # s => bindings'[x] = bindings[x]
    BY <1>1, <2>1
  <2>5. bindings'[s] # NoBinding
    BY <2>3 DEF NoBinding
  <2> QED BY <1>1, <2>3, <2>4, <2>5 DEF Bound
<1>6. HoldsOk' /\ PinsExact'
  BY <1>1 DEF LifeInv, HoldsOk, PinsExact, Pinned
<1>7. \A g \in Handle : Valid(g)' <=> Valid(g)
  BY <1>4 DEF Valid, Handle
<1>8. HeldAlive'
  BY <1>1, <1>7 DEF LifeInv, HeldAlive, Pinned, HoldsOk, Hold, PoolTypes
<1>9. RunsHeld'
  <2> SUFFICES ASSUME NEW x \in Slot, Executes(tasks'[x])
               PROVE  \E g \in holds : /\ g.ticket.task = Id(x)' /\ g.state # "quiet"
                                       /\ g.handle = bindings'[x].handle
    BY <1>1 DEF RunsHeld, Executes
  <2>1. x # s
    BY DEF Executes
  <2>2. Id(x)' = Id(x) /\ Executes(tasks[x])
    BY <2>1 DEF Keeps, Id
  <2> QED BY <1>5, <2>1, <2>2 DEF LifeInv, RunsHeld, Executes
<1>10. OwnersOk'
  BY <1>4, <1>5 DEF LifeInv, OwnersOk
<1>11. ASSUME NEW x \in Slot PROVE BindingOk(x)'
  <2>1. BindingOk(x) /\ BindingOk(s)
    BY DEF LifeInv
  <2>2. CASE x = s
    <3>1. Bound(s)' /\ Live(s)' /\ Valid(h)' /\ tasks'[s].generation = generations'[s]
      BY <1>1, <1>2, <1>5, <1>7, <2>1, Zenon DEF BindingOk, Live
    <3>2. /\ bindings'[s].retired = TRUE /\ tasks'[s].state = "Dead"
          /\ entries'[bindings'[s].handle.slot].phase = "Retired"
      BY <1>4, <1>5
    <3> QED BY <1>5, <2>2, <3>1, <3>2, Zenon DEF BindingOk
  <2>3. CASE x # s
    <3>1. CASE Bound(x)
      <4>1. bindings[x].handle \in Handle /\ bindings[x].handle.slot # h.slot
        BY <1>1, <2>3, <3>1 DEF LifeInv, OwnersOk, PoolTypes, Bound
      <4>2. bindings[x].handle.slot \in PoolSlot
        BY <4>1 DEF Handle
      <4>3. entries'[bindings[x].handle.slot] = entries[bindings[x].handle.slot]
        BY <1>4, <4>1, <4>2
      <4> QED BY <1>1, <1>5, <1>7, <2>1, <2>3, <3>1, <4>1, <4>3 DEF BindingOk, Keeps, Live
    <3>2. CASE ~Bound(x)
      BY <1>1, <1>5, <2>1, <2>3, <3>2, Zenon DEF BindingOk, Keeps, Live
    <3> QED BY <3>1, <3>2
  <2> QED BY <2>2, <2>3
<1> QED BY <1>3, <1>6, <1>8, <1>9, <1>10, <1>11 DEF LifeInv

\* A step that replaces one record leaves the others.
LEMMA OthersKept ==
  ASSUME tasks \in [Slot -> TaskRecord], NEW s \in Slot, NEW u, tasks' = [tasks EXCEPT ![s] = u]
  PROVE  tasks'[s] = u /\ \A x \in Slot : x # s => Keeps(x)
BY DEF Keeps

\* Activating a bound task.
LEMMA LifeActivate ==
  ASSUME LifeInv, NEW s \in Slot, NEW c \in Cpu, ActivateBound(s, c)
  PROVE  LifeInv'
<1> DEFINE t == [Enqueued(tasks[s], c) EXCEPT !.owner_epoch = 1]
<1>1. /\ Activate(s, c) /\ UNCHANGED lifeVars /\ tasks \in [Slot -> TaskRecord] /\ SmpInv
      /\ transaction \in Nat
  BY DEF ActivateBound, LifeInv, SmpInv, TypeOK
<1>2. /\ tasks' = [tasks EXCEPT ![s] = t] /\ tasks[s].state = "Dormant" /\ tasks[s] \in TaskRecord
      /\ pending' = pending /\ transaction' = transaction
  BY <1>1 DEF Activate, ticketVars
<1>3. t.state = "Runnable" /\ t.generation = tasks[s].generation
  BY <1>2, EnqueuedRecord, EpochRecord
<1>4. SmpInv'
  BY <1>1, ActivateStep
<1> HIDE DEF t
<1>5. \A x \in Slot : Keeps(x)
  BY <1>1, <1>2, <1>3, OthersKept DEF Keeps, Executes
<1>6. TicketKinds' /\ transaction' >= transaction
  BY <1>1, <1>2 DEF LifeInv, TicketKinds
<1> QED BY <1>1, <1>4, <1>5, <1>6, QuietStep

\* Blocking a bound task.
LEMMA LifeBlock ==
  ASSUME LifeInv, NEW s \in Slot, Block(s)
  PROVE  LifeInv'
<1> DEFINE t == [tasks[s] EXCEPT !.state = "Blocked", !.queued_cpu = NoCpu, !.bypass_count = 0]
<1>1. /\ BlockRunnable(s) /\ UNCHANGED lifeVars /\ tasks \in [Slot -> TaskRecord] /\ SmpInv
      /\ transaction \in Nat
  BY DEF Block, LifeInv, SmpInv, TypeOK
<1>2. /\ tasks' = [tasks EXCEPT ![s] = t] /\ tasks[s].state = "Runnable" /\ tasks[s] \in TaskRecord
      /\ pending' = pending /\ transaction' = transaction
  BY <1>1, Zenon DEF BlockRunnable, ticketVars
<1>3. t.state = "Blocked" /\ t.generation = tasks[s].generation
  BY <1>2, BlockedRecord, Zenon
<1>4. SmpInv'
  BY <1>1, BlockStep
<1> HIDE DEF t
<1>5. \A x \in Slot : Keeps(x)
  BY <1>1, <1>2, <1>3, OthersKept DEF Keeps, Executes
<1>6. TicketKinds' /\ transaction' >= transaction
  BY <1>1, <1>2 DEF LifeInv, TicketKinds
<1> QED BY <1>1, <1>4, <1>5, <1>6, QuietStep

\* A probe of an offline CPU moves no task.
LEMMA LifeProbe ==
  ASSUME LifeInv, NEW s \in Slot, Probe(s)
  PROVE  LifeInv'
<1>1. StageOfflineProbe(s) /\ UNCHANGED lifeVars /\ SmpInv /\ transaction \in Nat
  BY DEF Probe, LifeInv, SmpInv, TypeOK
<1>2. /\ tasks' = tasks /\ transaction' = transaction + 1
      /\ pending'.kind = "OfflineProbe" /\ pending'.transaction = transaction'
  BY <1>1 DEF StageOfflineProbe, Install
<1>3. SmpInv'
  BY <1>1, StageProbeStep
<1>4. \A x \in Slot : Keeps(x)
  BY <1>2 DEF Keeps
<1>5. TicketKinds' /\ transaction' >= transaction
  BY <1>1, <1>2 DEF TicketKinds
<1> QED BY <1>1, <1>3, <1>4, <1>5, QuietStep

\* An answer of a CPU moves no task.
LEMMA LifeAnswer ==
  ASSUME LifeInv, Answer, UNCHANGED lifeVars
  PROVE  LifeInv'
<1>1. SmpInv /\ transaction \in Nat /\ UNCHANGED <<tasks, pending, transaction>>
  BY DEF LifeInv, SmpInv, TypeOK, Answer
<1>2. SmpInv'
  BY <1>1, AnswerStep
<1>3. (\A x \in Slot : Keeps(x)) /\ TicketKinds' /\ transaction' >= transaction
  BY <1>1 DEF Keeps, LifeInv, TicketKinds
<1> QED BY <1>2, <1>3, QuietStep

\* The answer to a dispatch starts the task that was in transfer.
LEMMA LifeSettle ==
  ASSUME LifeInv, Settle
  PROVE  LifeInv'
<1>1. UNCHANGED lifeVars /\ SmpInv /\ transaction \in Nat /\ tasks \in [Slot -> TaskRecord]
  BY DEF Settle, LifeInv, SmpInv, TypeOK
<1>2. ASSUME NEW ack \in answered, Acknowledge(ack) PROVE LifeInv'
  <2> DEFINE s == pending.task.slot
             c == pending.target_cpu
             t == Running(tasks[s], c)
  <2>1. /\ pending # NoTicket /\ s \in Slot /\ tasks[s] \in TaskRecord
        /\ pending.kind # "OfflineProbe" => c \in Cpu
        /\ TicketOk(pending, tasks, current, online)
        /\ pending' = NoTicket /\ transaction' = transaction
    BY <1>1, <1>2, CommitFacts
  <2>2. pending.kind \in {"Dispatch", "OfflineProbe"}
    BY <2>1 DEF LifeInv, TicketKinds
  <2>3. CommitDispatch(pending) /\ pending.kind = "Dispatch"
    BY <1>2, <2>2, Zenon DEF Acknowledge, CommitWake, CommitMigration, CommitDispatch, CommitPreempt
  <2>4. SmpInv'
    BY <1>1, <1>2, <2>3, DispatchStep
  <2>5. tasks[s].state = "Transfer" /\ c \in Cpu
    BY <2>1, <2>3 DEF TicketOk
  <2>6. t.state = "Running" /\ t.generation = tasks[s].generation
    BY <2>1, <2>5, RunningRecord
  <2>7. tasks' = [tasks EXCEPT ![s] = t]
    BY <2>3 DEF CommitDispatch
  <2> HIDE DEF t, s, c
  <2>8. \A x \in Slot : Keeps(x)
    BY <1>1, <2>1, <2>5, <2>6, <2>7, OthersKept DEF Keeps, Executes
  <2>9. TicketKinds' /\ transaction' >= transaction
    BY <1>1, <2>1 DEF TicketKinds
  <2> QED BY <1>1, <2>4, <2>8, <2>9, QuietStep
<1>3. CASE Timeout
  <2>1. tasks' = tasks /\ transaction' = transaction /\ pending' = NoTicket
    BY <1>3 DEF Timeout
  <2>2. SmpInv'
    BY <1>1, <1>3, TimeoutStep
  <2>3. (\A x \in Slot : Keeps(x)) /\ TicketKinds' /\ transaction' >= transaction
    BY <1>1, <2>1 DEF Keeps, TicketKinds
  <2> QED BY <1>1, <2>2, <2>3, QuietStep
<1> QED BY <1>2, <1>3 DEF Settle

\* Cancelling a bound task.
LEMMA LifeCancel ==
  ASSUME LifeInv, NEW s \in Slot, Cancel(s)
  PROVE  LifeInv'
<1> DEFINE t == Dead(tasks[s])
<1>1. CancelTask(s) /\ Retire(s) /\ tasks \in [Slot -> TaskRecord] /\ SmpInv
  BY DEF Cancel, LifeInv, SmpInv, TypeOK
<1>2. /\ tasks' = [tasks EXCEPT ![s] = t] /\ tasks[s] \in TaskRecord
      /\ pending' = pending /\ transaction' = transaction
  BY <1>1 DEF CancelTask, ticketVars
<1>3. t.state = "Dead" /\ t.generation = tasks[s].generation
  BY <1>2, DeadRecord
<1>4. SmpInv'
  BY <1>1, CancelStep
<1> HIDE DEF t
<1>5. (\A x \in Slot : x # s => Keeps(x)) /\ tasks'[s] = t
  BY <1>1, <1>2, OthersKept, Zenon
<1>6. TicketKinds'
  BY <1>2 DEF LifeInv, TicketKinds
<1> QED BY <1>1, <1>2, <1>3, <1>4, <1>5, <1>6, RetireStep, Zenon

\* Cancelling a task that was never activated.
LEMMA LifeCancelDormant ==
  ASSUME LifeInv, NEW s \in Slot, CancelDormant(s)
  PROVE  LifeInv'
<1> DEFINE d == Dead(tasks[s])
           t == [d EXCEPT !.owner_epoch = 1]
<1>1. /\ tasks[s].state = "Dormant" /\ Live(s) /\ pending = NoTicket
      /\ tasks' = [tasks EXCEPT ![s] = t] /\ Retire(s)
      /\ UNCHANGED <<queues, current, online, pending, transaction, answered>>
  BY DEF CancelDormant, ticketVars, NoPending
<1>2. /\ SmpInv /\ tasks \in [Slot -> TaskRecord] /\ tasks[s] \in TaskRecord
      /\ queues \in [Cpu -> Seq(TaskId)] /\ current \in [Cpu -> TaskId \cup {NoTask}]
  BY DEF LifeInv, SmpInv, TypeOK
<1>3. /\ d \in TaskRecord /\ d.state = "Dead" /\ d.generation = tasks[s].generation
      /\ d.owner_cpu = NoCpu /\ d.queued_cpu = NoCpu
  BY <1>2, DeadRecord
<1> HIDE DEF d
<1>4. /\ t \in TaskRecord /\ t.state = "Dead" /\ t.generation = tasks[s].generation
      /\ t.owner_cpu = NoCpu /\ t.queued_cpu = NoCpu /\ t.owner_epoch = 1
  BY <1>3, EpochRecord
<1> HIDE DEF t
<1>5. tasks'[s] = t /\ tasks' \in [Slot -> TaskRecord] /\ AlikeBut(tasks, tasks', s)
  BY <1>1, <1>2, <1>4 DEF AlikeBut, Alike
<1>6. RecordOk(tasks[s], online)
  BY <1>2 DEF SmpInv, RecordsOk
<1>7. RecordOk(t, online)
  BY <1>1, <1>4 DEF RecordOk, Live
<1>8. Fence(tasks[s], t)
  BY <1>1, <1>4, <1>6, CpuAssumption DEF Fence, RecordOk
<1>9. Queued(tasks', queues')
  BY <1>1, <1>2, <1>4, <1>5, QueuesKept, Zenon DEF SmpInv
<1>10. OnCpu(tasks', current')
  BY <1>1, <1>2, <1>4, <1>5, CpusKept, Zenon DEF SmpInv
<1>11. SmpInv'
  BY <1>1, <1>2, <1>4, <1>5, <1>7, <1>8, <1>9, <1>10, Moved, Zenon
<1>12. \A x \in Slot : x # s => Keeps(x)
  BY <1>1, <1>2, OthersKept, Zenon
<1>13. TicketKinds'
  BY <1>1 DEF LifeInv, TicketKinds
<1> QED BY <1>1, <1>4, <1>5, <1>11, <1>12, <1>13, RetireStep

\* Completing the task of a CPU.
LEMMA LifeComplete ==
  ASSUME LifeInv, NEW c \in Cpu, Complete(c)
  PROVE  LifeInv'
<1> DEFINE s == current[c].slot
           t == Dead(tasks[s])
<1>1. CompleteCurrent(c) /\ Retire(s) /\ tasks \in [Slot -> TaskRecord] /\ SmpInv
  BY DEF Complete, LifeInv, SmpInv, TypeOK
<1>2. s \in Slot
  BY <1>1 DEF CompleteCurrent, SmpInv, TypeOK, TaskId
<1>3. /\ tasks' = [tasks EXCEPT ![s] = t] /\ tasks[s] \in TaskRecord
      /\ pending' = pending /\ transaction' = transaction
  BY <1>1, <1>2 DEF CompleteCurrent, ticketVars
<1>4. t.state = "Dead" /\ t.generation = tasks[s].generation
  BY <1>3, DeadRecord
<1>5. SmpInv'
  BY <1>1, CompleteStep
<1> HIDE DEF t, s
<1>6. (\A x \in Slot : x # s => Keeps(x)) /\ tasks'[s] = t
  BY <1>1, <1>2, <1>3, OthersKept, Zenon
<1>7. TicketKinds'
  BY <1>3 DEF LifeInv, TicketKinds
<1> QED BY <1>1, <1>2, <1>3, <1>4, <1>5, <1>6, <1>7, RetireStep

\* Running a task to completion on the boot processor.
LEMMA LifeRunLocal ==
  ASSUME LifeInv, RunLocal
  PROVE  LifeInv'
<1>1. PICK i \in DOMAIN queues[0] : DispatchLocal(i) /\ Retire(queues[0][i].slot)
  BY DEF RunLocal
<1> DEFINE s == queues[0][i].slot
           r == Running(tasks[s], 0)
           t == Dead(r)
<1>2. tasks \in [Slot -> TaskRecord] /\ SmpInv /\ 0 \in Cpu /\ queues \in [Cpu -> Seq(TaskId)]
  BY CpuAssumption DEF LifeInv, SmpInv, TypeOK
<1>3. s \in Slot
  BY <1>2, QueueEntries DEF SmpInv
<1>4. /\ tasks' = [tasks EXCEPT ![s] = t] /\ tasks[s] \in TaskRecord
      /\ pending' = pending /\ transaction' = transaction
  BY <1>1, <1>2, <1>3 DEF DispatchLocal, ticketVars
<1>5. r \in TaskRecord /\ r.generation = tasks[s].generation
  BY <1>2, <1>4, RunningRecord
<1> HIDE DEF r
<1>6. t.state = "Dead" /\ t.generation = tasks[s].generation
  BY <1>5, DeadRecord
<1>7. SmpInv'
  BY <1>1, <1>2, LocalStep
<1> HIDE DEF t, s
<1>8. (\A x \in Slot : x # s => Keeps(x)) /\ tasks'[s] = t
  BY <1>2, <1>3, <1>4, OthersKept, Zenon
<1>9. TicketKinds'
  BY <1>4 DEF LifeInv, TicketKinds
<1>10. Retire(s)
  BY <1>1 DEF s
<1> QED BY <1>3, <1>4, <1>6, <1>7, <1>8, <1>9, <1>10, RetireStep

-----------------------------------------------------------------------------
(* Counting pins *)

INSTANCE FiniteSetTheorems

At(H, i) == {h \in H : h.handle.slot = i}
By(rs, i) == {r \in Reader : rs[r] # NoHandle /\ rs[r].slot = i}
One(i, j) == IF i = j THEN 1 ELSE 0

\* A new hold counts at its own pool slot.
LEMMA HoldAdded ==
  ASSUME NEW H, IsFiniteSet(H), NEW e, e \notin H, NEW i
  PROVE  /\ Cardinality(At(H, i)) \in Nat
         /\ Cardinality(At(H \cup {e}, i)) = Cardinality(At(H, i)) + One(e.handle.slot, i)
<1>1. IsFiniteSet(At(H, i)) /\ e \notin At(H, i)
  BY FS_Subset DEF At
<1>2. Cardinality(At(H, i)) \in Nat
  BY <1>1, FS_CardinalityType
<1>3. CASE e.handle.slot = i
  <2>1. At(H \cup {e}, i) = At(H, i) \cup {e}
    BY <1>3 DEF At
  <2>2. Cardinality(At(H, i) \cup {e}) = Cardinality(At(H, i)) + 1
    BY <1>1, FS_AddElement, Zenon
  <2> QED BY <1>2, <1>3, <2>1, <2>2, Zenon DEF One
<1>4. CASE e.handle.slot # i
  <2>1. At(H \cup {e}, i) = At(H, i)
    BY <1>4 DEF At
  <2> QED BY <1>2, <1>4, <2>1 DEF One
<1> QED BY <1>3, <1>4

\* A reader's pin counts at the pool slot it names.
LEMMA ReaderMoved ==
  ASSUME NEW rs \in [Reader -> Handle \cup {NoHandle}], NEW r \in Reader, NEW i,
         NEW h \in Handle, rs[r] = NoHandle, NEW rs2, rs2[r] = h,
         \A x \in Reader : x # r => rs2[x] = rs[x]
  PROVE  /\ IsFiniteSet(By(rs, i)) /\ Cardinality(By(rs, i)) \in Nat
         /\ Cardinality(By(rs2, i)) = Cardinality(By(rs, i)) + One(h.slot, i)
<1>1. IsFiniteSet(By(rs, i)) /\ r \notin By(rs, i)
  BY ReaderAssumption, FS_Subset DEF By
<1>2. Cardinality(By(rs, i)) \in Nat
  BY <1>1, FS_CardinalityType
<1>3. rs2[r] = h /\ h # NoHandle /\ \A x \in Reader : x # r => rs2[x] = rs[x]
  BY HandleAssumption
<1>4. CASE h.slot = i
  <2>1. By(rs2, i) = By(rs, i) \cup {r}
    BY <1>3, <1>4 DEF By
  <2>2. Cardinality(By(rs, i) \cup {r}) = Cardinality(By(rs, i)) + 1
    BY <1>1, FS_AddElement, Zenon
  <2> QED BY <1>1, <1>2, <1>4, <2>1, <2>2, Zenon DEF One
<1>5. CASE h.slot # i
  <2>1. By(rs2, i) = By(rs, i)
    BY <1>3, <1>5 DEF By
  <2> QED BY <1>1, <1>2, <1>5, <2>1 DEF One
<1> QED BY <1>4, <1>5

\* The pin counts, in these terms, before and after a step.
Counts(pn, rs, H) ==
    \A i \in PoolSlot : pn[i] = Cardinality(By(rs, i)) + Cardinality(At(H, i))

LEMMA PinsCounted ==
  (PinsExact <=> Counts(pins, readers, holds)) /\ (PinsExact' <=> Counts(pins', readers', holds'))
<1>1. \A i : {r \in Pinned : readers[r].slot = i} = By(readers, i)
  BY DEF Pinned, By
<1>2. \A i : {r \in Pinned' : readers'[r].slot = i} = By(readers', i)
  BY DEF Pinned, By
<1>3. PinsExact <=> Counts(pins, readers, holds)
  BY <1>1, Zenon DEF PinsExact, At, Counts
<1>4. PinsExact' <=> Counts(pins', readers', holds')
  BY <1>2, Zenon DEF PinsExact, At, Counts
<1> QED BY <1>3, <1>4

\* The holds are counted by natural numbers.
LEMMA HoldsCounted ==
  ASSUME LifeInv, NEW i
  PROVE  IsFiniteSet(At(holds, i)) /\ Cardinality(At(holds, i)) \in Nat
<1>1. IsFiniteSet(holds) /\ At(holds, i) \subseteq holds
  BY DEF LifeInv, HoldsOk, At
<1>2. IsFiniteSet(At(holds, i))
  BY <1>1, FS_Subset
<1> QED BY <1>2, FS_CardinalityType

\* No pins, no reader and no hold.
LEMMA Unpinned ==
  ASSUME LifeInv, NEW i \in PoolSlot, pins[i] = 0
  PROVE  /\ \A r \in Reader : readers[r] # NoHandle => readers[r].slot # i
         /\ \A h \in holds : h.handle.slot # i
<1>1. IsFiniteSet(By(readers, i)) /\ IsFiniteSet(At(holds, i))
  BY ReaderAssumption, FS_Subset DEF By, At, LifeInv, HoldsOk
<1>2. Cardinality(By(readers, i)) \in Nat /\ Cardinality(At(holds, i)) \in Nat
  BY <1>1, FS_CardinalityType
<1>3. pins[i] = Cardinality(By(readers, i)) + Cardinality(At(holds, i))
  BY PinsCounted, Zenon DEF LifeInv, Counts
<1>4. Cardinality(By(readers, i)) = 0 /\ Cardinality(At(holds, i)) = 0
  BY <1>2, <1>3
<1>5. By(readers, i) = {} /\ At(holds, i) = {}
  BY <1>1, <1>4, FS_EmptySet, Zenon
<1> QED BY <1>5 DEF By, At

-----------------------------------------------------------------------------
(* Readers *)

\* A step of a reader or of a dispatch only touches the pins.
LEMMA HeldStep ==
  ASSUME LifeInv, UNCHANGED <<schedVars, entries, bindings, generations>>,
         phase' \in {"open", "draining", "dropped"}, pins' \in [PoolSlot -> Nat],
         readers' \in [Reader -> Handle \cup {NoHandle}],
         HoldsOk', PinsExact', HeldAlive', RunsHeld'
  PROVE  LifeInv'
<1>1. UNCHANGED <<tasks, queues, current, online, pending, transaction, answered>>
  BY DEF schedVars
<1>2. SmpInv' /\ TicketKinds'
  BY <1>1 DEF LifeInv, SmpInv, TypeOK, RecordsOk, PendingOk, TicketKinds
<1>3. PoolTypes' /\ OwnersOk'
  <2>1. PoolTypes /\ OwnersOk
    BY Zenon DEF LifeInv
  <2> QED BY <2>1, Zenon DEF PoolTypes, OwnersOk, Bound
<1>4. \A s \in Slot : BindingOk(s)'
  <2>1. \A s \in Slot : BindingOk(s)
    BY Zenon DEF LifeInv
  <2> QED BY <1>1, <2>1, Zenon DEF BindingOk, Bound, Live, Valid
<1> QED BY <1>2, <1>3, <1>4 DEF LifeInv

\* Shutting down and dropping the controller change nothing but its phase.
LEMMA LifePhase ==
  ASSUME LifeInv, BeginShutdown \/ DropController
  PROVE  LifeInv'
<1>1. /\ UNCHANGED <<schedVars, entries, pins, bindings, generations, readers, holds>>
      /\ phase' \in {"open", "draining", "dropped"}
  BY DEF BeginShutdown, DropController
<1>2. tasks' = tasks /\ transaction' = transaction
  BY <1>1 DEF schedVars
<1>3. HoldsOk' /\ PinsExact' /\ HeldAlive' /\ RunsHeld'
  BY <1>1, <1>2, Zenon DEF LifeInv, HoldsOk, PinsExact, HeldAlive, RunsHeld, Pinned, Valid, Id
<1>4. pins' \in [PoolSlot -> Nat] /\ readers' \in [Reader -> Handle \cup {NoHandle}]
  BY <1>1 DEF LifeInv, PoolTypes
<1> QED BY <1>1, <1>3, <1>4, HeldStep

\* A pin that a reader takes is counted.
LEMMA LifePin ==
  ASSUME LifeInv, NEW r \in Reader, NEW s \in Slot, PinTask(r, s)
  PROVE  LifeInv'
<1> DEFINE h == bindings[s].handle
<1>1. /\ Bound(s) /\ readers[r] = NoHandle /\ Valid(h)
      /\ pins' = [pins EXCEPT ![h.slot] = @ + 1] /\ readers' = [readers EXCEPT ![r] = h]
      /\ UNCHANGED <<schedVars, entries, bindings, generations, phase, holds>>
  BY DEF PinTask, PoolPin
<1>a. PoolTypes /\ HeldAlive
  BY Zenon DEF LifeInv
<1>2. h \in Handle /\ h.slot \in PoolSlot
  BY <1>1, <1>a DEF PoolTypes, Bound, Handle
<1> HIDE DEF h
<1>3. /\ pins \in [PoolSlot -> Nat] /\ readers \in [Reader -> Handle \cup {NoHandle}]
      /\ phase' \in {"open", "draining", "dropped"}
  BY <1>1, <1>a DEF PoolTypes
<1>4. pins' \in [PoolSlot -> Nat] /\ readers' \in [Reader -> Handle \cup {NoHandle}]
  BY <1>1, <1>2, <1>3
<1>5. tasks' = tasks /\ transaction' = transaction
  BY <1>1 DEF schedVars
<1>6. PinsExact'
  <2>1. Counts(pins, readers, holds)
    BY PinsCounted, Zenon DEF LifeInv
  <2> SUFFICES ASSUME NEW i \in PoolSlot
               PROVE  pins'[i] = Cardinality(By(readers', i)) + Cardinality(At(holds', i))
    BY PinsCounted, Zenon DEF Counts
  <2>2. pins'[i] = pins[i] + One(h.slot, i)
    BY <1>1, <1>2, <1>3 DEF One
  <2>a. /\ readers \in [Reader -> Handle \cup {NoHandle}] /\ h \in Handle
        /\ readers[r] = NoHandle /\ readers'[r] = h
        /\ \A x \in Reader : x # r => readers'[x] = readers[x]
    BY <1>1, <1>2, <1>3
  <2>3. /\ Cardinality(By(readers, i)) \in Nat
        /\ Cardinality(By(readers', i)) = Cardinality(By(readers, i)) + One(h.slot, i)
    BY <2>a, ReaderMoved
  <2>4. pins[i] = Cardinality(By(readers, i)) + Cardinality(At(holds, i)) /\ pins[i] \in Nat
    BY <1>3, <2>1 DEF Counts
  <2>5. One(h.slot, i) \in Nat
    BY DEF One
  <2>6. Cardinality(At(holds, i)) \in Nat
    BY HoldsCounted
  <2> QED BY <1>1, <2>2, <2>3, <2>4, <2>5, <2>6
<1>7. HeldAlive'
  <2>1. \A x \in Reader : x # r => readers'[x] = readers[x]
    BY <1>1, <1>3
  <2>2. readers'[r] = h
    BY <1>1, <1>3
  <2>3. entries' = entries /\ holds' = holds /\ Valid(h) /\ HeldAlive
    BY <1>1, <1>a
  <2> QED BY ONLY <2>1, <2>2, <2>3 DEF HeldAlive, Pinned, Valid
<1>8. HoldsOk' /\ RunsHeld'
  BY <1>1, <1>5, Zenon DEF LifeInv, HoldsOk, RunsHeld, Id
<1> QED BY <1>1, <1>3, <1>4, <1>6, <1>7, <1>8, HeldStep

\* A pin that a reader drops is counted no more.
LEMMA LifeDrop ==
  ASSUME LifeInv, NEW r \in Reader, DropPin(r)
  PROVE  LifeInv'
<1> DEFINE h == readers[r]
<1>1. /\ h # NoHandle /\ pins' = [pins EXCEPT ![h.slot] = @ - 1]
      /\ readers' = [readers EXCEPT ![r] = NoHandle]
      /\ UNCHANGED <<schedVars, entries, bindings, generations, phase, holds>>
  BY DEF DropPin
<1>2. /\ pins \in [PoolSlot -> Nat] /\ readers \in [Reader -> Handle \cup {NoHandle}]
      /\ phase' \in {"open", "draining", "dropped"}
  BY <1>1 DEF LifeInv, PoolTypes
<1>3. h \in Handle /\ h.slot \in PoolSlot
  BY <1>1, <1>2 DEF Handle
<1>4. /\ readers' \in [Reader -> Handle \cup {NoHandle}] /\ readers'[r] = NoHandle
      /\ readers[r] = h /\ \A x \in Reader : x # r => readers[x] = readers'[x]
  BY <1>1, <1>2
<1> HIDE DEF h
<1>5. tasks' = tasks /\ transaction' = transaction
  BY <1>1 DEF schedVars
<1>6. ASSUME NEW i \in PoolSlot
      PROVE  /\ pins'[i] = Cardinality(By(readers', i)) + Cardinality(At(holds', i))
             /\ pins'[i] \in Nat
  <2>1. Counts(pins, readers, holds)
    BY PinsCounted, Zenon DEF LifeInv
  <2>2. pins'[i] = pins[i] - One(h.slot, i)
    BY <1>1, <1>2, <1>3 DEF One
  <2>3. /\ Cardinality(By(readers', i)) \in Nat
        /\ Cardinality(By(readers, i)) = Cardinality(By(readers', i)) + One(h.slot, i)
    BY <1>3, <1>4, ReaderMoved
  <2>4. pins[i] = Cardinality(By(readers, i)) + Cardinality(At(holds, i)) /\ pins[i] \in Nat
    BY <1>2, <2>1 DEF Counts
  <2>5. One(h.slot, i) \in Nat
    BY DEF One
  <2>6. Cardinality(At(holds, i)) \in Nat
    BY HoldsCounted
  <2> QED BY <1>1, <2>2, <2>3, <2>4, <2>5, <2>6
<1>7. PinsExact' /\ pins' \in [PoolSlot -> Nat]
  <2>1. PinsExact'
    BY <1>6, PinsCounted, Zenon DEF Counts
  <2> QED BY <1>1, <1>2, <1>6, <2>1, Zenon
<1>8. HeldAlive'
  <2>1. \A x \in Reader : x # r => readers'[x] = readers[x]
    BY <1>1, <1>2
  <2> QED BY <1>1, <1>4, <2>1 DEF LifeInv, HeldAlive, Pinned, Valid
<1>9. HoldsOk' /\ RunsHeld'
  BY <1>1, <1>5 DEF LifeInv, HoldsOk, RunsHeld, Id
<1> QED BY <1>1, <1>2, <1>4, <1>7, <1>8, <1>9, HeldStep
=============================================================================
