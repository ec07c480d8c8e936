CONSTANTS
    l1 = l1
    l2 = l2
    p1 = p1
    p2 = p2
    s1 = s1
    m1 = m1
    api = api
    standalone = standalone
    Lock = {l1, l2}
    SourceBlock = {1}
    BlockOf <- OneBlock
    Prover = {p1, p2}
    Sender = {s1}
    Monitor = {}
    Process = {api}
    HomeOf <- OneProcess
    WholeBlocks = TRUE
    Faults = {"db", "rpc"}
    MaxFaults = 2

SPECIFICATION FairRelaySpec
INVARIANT RelayTypeOK
INVARIANT RootCoversBlock
PROPERTY EveryLockUnlocked
CHECK_DEADLOCK FALSE
