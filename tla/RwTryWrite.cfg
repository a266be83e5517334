SPECIFICATION Spec
CONSTANTS
    Thread = {a, b, c}
    NoOwner = NoOwner
    Window = 2
    Calls = {"try", "bounded", "lock"}
    MaxTicket = 3
INVARIANT OwnerCanRelease
CHECK_DEADLOCK FALSE
