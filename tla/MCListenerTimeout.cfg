CONSTANTS
    l1 = l1
    l2 = l2
    r1 = r1
    a = a
    b = b
    Lock = {l1}
    Remote = {}
    Process = {a}
    Overlap = 1
    MaxBlock = 4
    MaxBlocksPerQuery = 2
    Faults = {"timeout"}
    MaxFaults = 2

SPECIFICATION ListenerSpec
INVARIANT NoBlockSkipped
SYMMETRY LockSymmetry
CHECK_DEADLOCK FALSE
