CONSTANTS
    l1 = l1
    l2 = l2
    p1 = p1
    p2 = p2
    s1 = s1
    m1 = m1
    api = api
    standalone = standalone
    Lock = {l1, l2}
    SourceBlock = {1, 2}
    BlockOf <- TwoBlocks
    Prover = {p1}
    Sender = {s1}
    Monitor = {m1}
    Process = {api}
    HomeOf <- OneProcess
    WholeBlocks = TRUE
    Faults = {"db", "rpc"}
    MaxFaults = 1

SPECIFICATION FairRelaySpec
PROPERTY EveryLockUnlocked
CHECK_DEADLOCK FALSE
