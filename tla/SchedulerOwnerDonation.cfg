SPECIFICATION Spec
CONSTANTS
    Slot = {t1, t2}
    Cpu = {0}
    Priority = {1, 2}
    Donation = {2}
    Affinity <- OnlyCpu0
    MaxGeneration = 1
    Reason = {"Signalled"}
    NoTask = NoTask
    NoCpu = NoCpu
INVARIANT OwnerPriority
