SPECIFICATION MCSpec
CONSTANTS
    Token = {t1, t2}
    User = {u1, u2}
    EthBridge = EthBridge
    MegaBridge = MegaBridge
    ZeroAddress = ZeroAddress
    Recipient = {u1, u2, EthBridge, MegaBridge}
    MaxBlock = 2
    Submitter = {s1}
    EthSubmittable = {}
    MegaSubmittable = {}
    Airdrop = {t2}
SYMMETRY MCSymmetry
INVARIANTS ProvenLockRedeemable TokenInOnePlace
PROPERTIES LockHashesFresh ImplementsCustody CoveredStaysCovered
