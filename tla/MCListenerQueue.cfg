CONSTANTS
    l1 = l1
    l2 = l2
    r1 = r1
    a = a
    b = b
    Lock = {l1}
    Remote = {}
    Process = {a}
    Overlap = 1
    MaxBlock = 3
    MaxBlocksPerQuery = 2
    Faults = {"queue"}
    MaxFaults = 1

SPECIFICATION ListenerSpec
INVARIANT ProcessedLocksHaveJobs
SYMMETRY LockSymmetry
CHECK_DEADLOCK FALSE
