SPECIFICATION FairSpec
CONSTANTS
    Thread = {a, b, c}
    NoOwner = NoOwner
    Window = 2
    Calls = {"try", "bounded", "lock"}
    MaxTicket = 4
INVARIANTS RwInv RwExclusion CountsExact TicketedOwnerCanRelease
PROPERTY WriterProgress
CHECK_DEADLOCK FALSE
