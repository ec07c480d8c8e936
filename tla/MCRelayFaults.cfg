CONSTANTS
    l1 = l1
    l2 = l2
    p1 = p1
    p2 = p2
    s1 = s1
    m1 = m1
    api = api
    standalone = standalone
    Lock = {l1, l2}
    SourceBlock = {1}
    BlockOf <- OneBlock
    Prover = {p1}
    Sender = {s1}
    Monitor = {m1}
    Process = {api, standalone}
    HomeOf <- TwoProcesses
    WholeBlocks = FALSE
    Faults = {"crash", "wait", "unlock"}
    MaxFaults = 1

SPECIFICATION RelaySpec
INVARIANT RowsNeverAhead
INVARIANT RootLocksRecorded
SYMMETRY LockSymmetry
CHECK_DEADLOCK FALSE
