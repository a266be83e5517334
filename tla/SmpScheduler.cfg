SPECIFICATION Spec
CONSTANTS
    Slot = {t1, t2, t3}
    Cpu = {0, 1}
    Priority = {1}
    Affinity <- BothCpus
    MaxGeneration = 2
    MaxTransaction = 3
    Request = {q1, q2}
    NoTask = NoTask
    NoCpu = NoCpu
    NoTicket = NoTicket
SYMMETRY Symmetry
INVARIANTS PlacementOk CommitReady BypassBound
PROPERTY EpochFences
CHECK_DEADLOCK FALSE
