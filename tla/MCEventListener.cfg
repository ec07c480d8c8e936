CONSTANTS
    l1 = l1
    l2 = l2
    r1 = r1
    a = a
    b = b
    Lock = {l1, l2}
    Remote = {r1}
    Process = {a}
    Overlap = 2
    MaxBlock = 3
    MaxBlocksPerQuery = 2
    Faults = {"rpc", "timeout"}
    MaxFaults = 1

SPECIFICATION FairListenerSpec
INVARIANT NoBlockSkipped
PROPERTY EveryLockGetsJob
CHECK_DEADLOCK FALSE
