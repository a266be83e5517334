SPECIFICATION FairSpec
CONSTANTS
    Thread = {a, b, c}
    NoOwner = NoOwner
    Window = 3
    Bounded = {TRUE, FALSE}
    MaxTicket = 3
INVARIANTS LockInv MutualExclusion NoFault NoSkippedTicket NoOrphanedTicket
PROPERTIES ImplementsFifo WaiterProgress
CHECK_DEADLOCK FALSE
