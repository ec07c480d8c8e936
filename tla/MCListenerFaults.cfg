CONSTANTS
    l1 = l1
    l2 = l2
    r1 = r1
    a = a
    b = b
    Lock = {l1}
    Remote = {r1}
    Process = {a, b}
    Overlap = 1
    MaxBlock = 3
    MaxBlocksPerQuery = 2
    Faults = {"rpc", "timeout", "boot", "queue", "crash", "orphan"}
    MaxFaults = 2

SPECIFICATION ListenerSpec
INVARIANT ListenerTypeOK
INVARIANT AtMostOneJob
SYMMETRY LockSymmetry
CHECK_DEADLOCK FALSE
