SPECIFICATION MCSpec
CONSTANTS
    t1 = t1
    t2 = t2
    u1 = u1
    Token = {t1, t2}
    User = {u1}
    EthBridge = EthBridge
    MegaBridge = MegaBridge
    ZeroAddress = ZeroAddress
    Recipient = {u1, EthBridge, MegaBridge, ZeroAddress}
    Airdrop = {t2}
    MaxBlock = 2
    Submitter = {s1, s2}
    EthSubmittable <- MCEthSubmittable
    MegaSubmittable <- MCMegaSubmittable
    BunnzId = {0, 1, 2, 3}
    Holder = {h1, h2}
    Nobody = Nobody
    MaxSupply = 2
    MaxBatch = 2
    MaxNesting = 2
SYMMETRY MCSymmetry
INVARIANTS EthTypeOK EthLockedIsHeld EthEvidenceKept
INVARIANTS MegaTypeOK MegaLockedIsHeld MegaEvidenceKept
PROPERTIES EthConsumedRootFrozen EthReleaseJustified
PROPERTIES MegaConsumedRootFrozen MegaReleaseJustified
INVARIANTS EnumerationMatches MintedSupplyExact AirdropsWithinCap
