SPECIFICATION Spec
CONSTANTS
    Thread = {a, b, c}
    NoOwner = NoOwner
    Window = 2
    Calls = {"bounded", "lock"}
    MaxTicket = 3
INVARIANT NoOrphanedWriter
CHECK_DEADLOCK FALSE
