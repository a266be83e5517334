SPECIFICATION LifeFair
CONSTANTS
    Slot = {t1, t2}
    Cpu = {0, 1}
    Priority = {1}
    Affinity <- BothCpus
    MaxGeneration = 2
    MaxTransaction = 2
    Request = {q1}
    NoTask = NoTask
    NoCpu = NoCpu
    NoTicket = NoTicket
    CAPACITY = 2
    Reader = {r1}
    pins_per_object = 2
    generations_per_slot = 3
    NoHandle = NoHandle
INVARIANTS LifeTypeOK PinsExact HeldAlive RunsHeld BindingsOk
PROPERTY ShutdownDrains
CHECK_DEADLOCK FALSE
