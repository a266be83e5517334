SPECIFICATION Spec
CONSTANTS
    Thread = {a, b, c}
    NoOwner = NoOwner
    Window = 2
    Bounded = {TRUE, FALSE}
    MaxTicket = 3
INVARIANT NoOrphanedTicket
CHECK_DEADLOCK FALSE
