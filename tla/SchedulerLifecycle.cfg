SPECIFICATION FairSpec
CONSTANTS
    Slot = {t1, t2}
    Cpu = {0, 1}
    Priority = {1}
    Donation = {2}
    Affinity <- PinnedAndFree
    MaxGeneration = 2
    Reason = {"Signalled", "TimedOut"}
    NoTask = NoTask
    NoCpu = NoCpu
INVARIANTS PlacementOk PriorityExact
PROPERTIES WakeOnce NoStarvation
