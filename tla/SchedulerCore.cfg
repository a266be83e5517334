SPECIFICATION Spec
CONSTANTS
    Slot = {t1, t2, t3}
    Cpu = {0, 1}
    Priority = {1, 2}
    Donation = {}
    Affinity <- BothCpus
    MaxGeneration = 1
    Reason = {"Signalled"}
    NoTask = NoTask
    NoCpu = NoCpu
SYMMETRY SlotSymmetry
INVARIANTS TypeOK PlacementOk WaitersOk PriorityExact BypassRank
