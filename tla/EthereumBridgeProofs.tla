------------------------- MODULE EthereumBridgeProofs -------------------------
(***************************************************************************)
(* Proofs about EthereumBridge, for every set of tokens and users, any     *)
(* number of blocks and whatever records the root submitter passes.        *)
(***************************************************************************)
EXTENDS EthereumBridge, BridgeLemmas

\* Every step of the bridge is one of eight kinds; the two lock functions
\* and the two unlock functions fall together.
LEMMA EthStepKinds ==
    ASSUME NEW STATE remote, remote \subseteq LockData, EthNext(remote)
    PROVE  \/ \E t \in Token, to \in Recipient : EthTransfer(t, to)
           \/ EthMineBlock
           \/ \E locks : CallLocks(locks, ethBlockNumber, EthBridge) /\ EthTakeLocks(locks)
           \/ \E caller \in Submitter, n \in Block, leaves \in SUBSET remote, locks \in SUBSET remote :
                 /\ \A d \in leaves : d.blockNumber = n
                 /\ KeyedByHash(locks)
                 /\ SetMegaEthBlockRoot(caller, n, RootOf(leaves), locks)
           \/ \E n \in Block : ClearMegaEthBlockRoot(n)
           \/ \E locks \in SUBSET ethLockData : EthRelease(locks)
           \/ \E paused \in BOOLEAN : EthSetPaused(paused)
           \/ \E new \in Submitter : EthSetRootSubmitter(new)
PROOF
<1>1. ASSUME NEW sender \in User, NEW t \in Token, NEW recipient \in Recipient,
             LockNFT(sender, t, recipient)
      PROVE  \E locks : CallLocks(locks, ethBlockNumber, EthBridge) /\ EthTakeLocks(locks)
  BY <1>1, SingleCallLocks DEF LockNFT
<1>2. ASSUME NEW sender \in User, NEW recipient \in Recipient,
             NEW S \in SUBSET Token \ {{}}, NEW pos \in BatchOrder(S),
             BatchLockNFT(sender, pos, recipient)
      PROVE  \E locks : CallLocks(locks, ethBlockNumber, EthBridge) /\ EthTakeLocks(locks)
  <2> DEFINE locks == {LockRecord(t, sender, recipient, ethBlockNumber, EthBridge, pos[t]) : t \in S}
  <2>1. pos \in [S -> Int] /\ DOMAIN pos = S
    BY DEF BatchOrder
  <2>2. CallLocks(locks, ethBlockNumber, EthBridge)
    BY <2>1, CallLocksIntro
  <2> QED
    BY <2>1, <2>2, <1>2 DEF BatchLockNFT
<1>3. ASSUME EthSubmitRoot(remote)
      PROVE  \E caller \in Submitter, n \in Block, leaves \in SUBSET remote, locks \in SUBSET remote :
                 /\ \A d \in leaves : d.blockNumber = n
                 /\ KeyedByHash(locks)
                 /\ SetMegaEthBlockRoot(caller, n, RootOf(leaves), locks)
  BY <1>3 DEF EthSubmitRoot
<1>4. ASSUME NEW d \in ethLockData, EthUnlockNFTWithProof(d)
      PROVE  \E locks \in SUBSET ethLockData : EthRelease(locks)
  BY <1>4 DEF EthUnlockNFTWithProof
<1>5. ASSUME NEW locks \in SUBSET ethLockData, EthBatchUnlockNFTWithProof(locks)
      PROVE  EthRelease(locks)
  BY <1>5 DEF EthBatchUnlockNFTWithProof
<1> QED
  BY <1>1, <1>2, <1>3, <1>4, <1>5 DEF EthNext, EthPause, EthUnpause

------------------------------------------------------------------------------
\* The inductive invariant: the three invariants of EthereumBridge together.
EthInv == EthTypeOK /\ EthLockedIsHeld /\ EthEvidenceKept

\* It holds initially.
LEMMA EthInitInv == EthInit => EthInv
<1> SUFFICES ASSUME EthInit PROVE EthInv
  OBVIOUS
<1>1. EthTypeOK
  <2>1. ethOwnerOf \in [Token -> Address]
    BY DEF EthInit, Address
  <2>2. ethBlockNumber \in 1..(MaxBlock + 1)
    BY MaxBlockAssumption DEF EthInit
  <2> QED
    BY <2>1, <2>2 DEF EthInit, EthTypeOK, NoRoot
<1>2. EthLockedIsHeld
  BY DEF EthInit, EthLockedIsHeld, KeyedByHash
<1>3. EthEvidenceKept
  BY DEF EthInit, EthEvidenceKept
<1> QED
  BY <1>1, <1>2, <1>3 DEF EthInv

\* A transfer of a token between accounts preserves it.
LEMMA EthTransferInv ==
    ASSUME EthInv, NEW t \in Token, NEW to \in Recipient, EthTransfer(t, to)
    PROVE  EthInv'
<1> USE DEF EthInv, EthTransfer
<1>1. EthTypeOK'
  BY AddressAssumption DEF EthTypeOK, Address
<1>2. EthLockedIsHeld'
  BY AddressAssumption DEF EthTypeOK, EthLockedIsHeld
<1>3. EthEvidenceKept'
  BY DEF EthEvidenceKept
<1> QED
  BY <1>1, <1>2, <1>3

\* The loop body of the lock functions preserves it.
LEMMA EthTakeLocksInv ==
    ASSUME EthInv, NEW locks, CallLocks(locks, ethBlockNumber, EthBridge), EthTakeLocks(locks)
    PROVE  EthInv'
<1> USE DEF EthInv
<1>1. /\ locks \subseteq LockData
      /\ KeyedByHash(locks)
      /\ TokensOf(locks) \subseteq Token
  BY CallLocksType DEF EthTakeLocks
<1>2. EthTypeOK'
  BY <1>1 DEF EthTakeLocks, EthTypeOK, Store, Address
<1>3. EthLockedIsHeld'
  <2>1. \A t \in ethLockedTokens' : ethOwnerOf'[t] = EthBridge
    BY <1>1 DEF EthTakeLocks, EthTypeOK, EthLockedIsHeld
  <2>2. KeyedByHash(ethLockData')
    BY <1>1, StoreKeyed DEF EthTakeLocks, EthLockedIsHeld
  <2> QED
    BY <2>1, <2>2 DEF EthLockedIsHeld, KeyedByHash
<1>4. EthEvidenceKept'
  BY DEF EthTakeLocks, EthEvidenceKept
<1> QED
  BY <1>2, <1>3, <1>4

\* Posting a root preserves it.
LEMMA EthSetRootInv ==
    ASSUME EthInv, NEW caller, NEW n \in Block,
           NEW leaves \in SUBSET LockData, NEW locks \in SUBSET LockData,
           KeyedByHash(locks),
           SetMegaEthBlockRoot(caller, n, RootOf(leaves), locks)
    PROVE  EthInv'
<1> USE DEF EthInv, SetMegaEthBlockRoot, EthRootFree
<1>1. EthTypeOK'
  <2>1. megaEthBlockRoots' \in [Block -> SUBSET Leaf]
    BY RootOfType DEF EthTypeOK
  <2> QED
    BY <2>1 DEF EthTypeOK, Store
<1>2. EthLockedIsHeld'
  <2>1. KeyedByHash(ethLockData')
    BY StoreKeyed DEF EthLockedIsHeld
  <2> QED
    BY <2>1 DEF EthLockedIsHeld, KeyedByHash
<1>3. EthEvidenceKept'
  BY DEF EthTypeOK, EthEvidenceKept, NoRoot
<1> QED
  BY <1>1, <1>2, <1>3

\* Clearing an unused root preserves it.
LEMMA EthClearRootInv ==
    ASSUME EthInv, NEW n \in Block, ClearMegaEthBlockRoot(n)
    PROVE  EthInv'
<1> USE DEF EthInv, ClearMegaEthBlockRoot, EthClearable
<1>1. EthTypeOK'
  BY DEF EthTypeOK, NoRoot
<1>2. EthLockedIsHeld'
  BY DEF EthLockedIsHeld, KeyedByHash
<1>3. EthEvidenceKept'
  BY DEF EthTypeOK, EthEvidenceKept
<1> QED
  BY <1>1, <1>2, <1>3

\* The unlock functions preserve it.
LEMMA EthReleaseInv ==
    ASSUME EthInv, NEW locks \in SUBSET ethLockData, EthRelease(locks)
    PROVE  EthInv'
<1> USE DEF EthInv
<1>1. locks \subseteq LockData
  BY DEF EthTypeOK
<1>2. \A d \in locks :
        /\ d.tokenId \in Token
        /\ d.lockHash \in Hash
        /\ d.blockNumber \in Block
        /\ d.recipient \in Address
        /\ LeafOf(d) \in megaEthBlockRoots[d.blockNumber]
  BY <1>1 DEF EthRelease, EthUnlockable, EthProven, EthReleasable, LockData, Address
<1>3. EthTypeOK'
  <2>1. \A t \in TokensOf(locks) : RecipientIn(locks, t) \in Address
    BY <1>2, RecipientRecorded
  <2>2. ethOwnerOf' \in [Token -> Address]
    BY <2>1 DEF EthRelease, EthTypeOK
  <2>3. /\ ethBlockRootConsumed' \subseteq Block
        /\ ethProcessedLocks' \subseteq Hash
        /\ ethLockedTokens' \subseteq Token
        /\ ethLockData' \subseteq LockData
    BY <1>2 DEF EthRelease, EthStillLocked, EthTypeOK, HashesOf, Erase
  <2> QED
    BY <2>2, <2>3 DEF EthRelease, EthTypeOK
<1>4. EthLockedIsHeld'
  <2>1. \A t \in ethLockedTokens' : ethOwnerOf'[t] = EthBridge
    BY DEF EthRelease, EthStillLocked, EthTypeOK, EthLockedIsHeld
  <2>2. KeyedByHash(ethLockData')
    BY EraseKeyed DEF EthRelease, EthLockedIsHeld
  <2> QED
    BY <2>1, <2>2 DEF EthLockedIsHeld, KeyedByHash
<1>5. EthEvidenceKept'
  <2>1. \A n \in ethBlockRootConsumed' : megaEthBlockRoots'[n] # NoRoot
    BY <1>2 DEF EthRelease, EthEvidenceKept, NoRoot
  <2>2. ASSUME NEW h \in ethProcessedLocks'
        PROVE  \E n \in ethBlockRootConsumed' :
                 \E leaf \in megaEthBlockRoots'[n] :
                    leaf.lockHash = h /\ leaf.blockNumber = n
    <3>1. CASE h \in ethProcessedLocks
      BY <3>1 DEF EthRelease, EthEvidenceKept
    <3>2. CASE h \in HashesOf(locks)
      <4>1. PICK d \in locks : d.lockHash = h
        BY <3>2 DEF HashesOf
      <4>2. LeafOf(d) \in megaEthBlockRoots'[d.blockNumber]
        BY <1>2 DEF EthRelease
      <4>3. d.blockNumber \in ethBlockRootConsumed'
        BY DEF EthRelease
      <4> QED
        BY <4>1, <4>2, <4>3 DEF LeafOf
    <3> QED
      BY <3>1, <3>2 DEF EthRelease
  <2> QED
    BY <2>1, <2>2 DEF EthEvidenceKept
<1> QED
  BY <1>3, <1>4, <1>5

\* Mining, pausing and a new root submitter preserve it.
LEMMA EthOtherInv ==
    ASSUME EthInv,
           \/ EthMineBlock
           \/ \E paused \in BOOLEAN : EthSetPaused(paused)
           \/ \E new \in Submitter : EthSetRootSubmitter(new)
           \/ UNCHANGED ethVars
    PROVE  EthInv'
<1>1. UNCHANGED <<ethOwnerOf, ethLockedTokens, ethProcessedLocks,
                  megaEthBlockRoots, ethBlockRootConsumed, ethLockData, ethLockLog>>
  BY DEF EthMineBlock, EthSetPaused, EthSetRootSubmitter, ethVars
<1>2. ethBlockNumber' \in 1..(MaxBlock + 1)
  BY MaxBlockAssumption
     DEF EthInv, EthTypeOK, EthMineBlock, EthSetPaused, EthSetRootSubmitter, ethVars
<1>3. ethPaused' \in BOOLEAN /\ ethRootSubmitter' \in Submitter
  BY DEF EthInv, EthTypeOK, EthMineBlock, EthSetPaused, EthSetRootSubmitter, ethVars
<1> QED
  BY <1>1, <1>2, <1>3
     DEF EthInv, EthTypeOK, EthLockedIsHeld, EthEvidenceKept, KeyedByHash

\* Every step of the bridge preserves it.
LEMMA EthStepInv ==
    ASSUME EthInv, NEW STATE remote, remote \subseteq LockData, EthNext(remote)
    PROVE  EthInv'
BY EthStepKinds, EthTransferInv, EthTakeLocksInv, EthSetRootInv,
   EthClearRootInv, EthReleaseInv, EthOtherInv

------------------------------------------------------------------------------
\* The three invariants hold in every reachable state of EthereumBridge.
THEOREM EthInvariant == EthSpec => []EthInv
<1>1. EthInit => EthInv
  BY EthInitInv
<1>2. EthInv /\ [EthNext(EthSubmittable)]_ethVars => EthInv'
  BY EthStepInv, EthOtherInv, EthSubmittableAssumption
<1> QED
  BY <1>1, <1>2, PTL DEF EthSpec

\* Type correctness of EthereumBridge.
THEOREM EthTypeCorrect == EthSpec => []EthTypeOK
<1>1. EthInv => EthTypeOK
  BY DEF EthInv
<1> QED
  BY <1>1, EthInvariant, PTL

\* Locked tokens are in the bridge's custody, whatever roots are submitted.
THEOREM EthCustodySafe == EthSpec => []EthLockedIsHeld
<1>1. EthInv => EthLockedIsHeld
  BY DEF EthInv
<1> QED
  BY <1>1, EthInvariant, PTL

\* The evidence for every unlock stays on chain.
THEOREM EthEvidenceSafe == EthSpec => []EthEvidenceKept
<1>1. EthInv => EthEvidenceKept
  BY DEF EthInv
<1> QED
  BY <1>1, EthInvariant, PTL

\* A consumed root can neither be cleared nor replaced.
LEMMA EthFrozenStep ==
    ASSUME EthInv, [EthNext(EthSubmittable)]_ethVars
    PROVE  \A n \in ethBlockRootConsumed :
             /\ n \in ethBlockRootConsumed'
             /\ megaEthBlockRoots'[n] = megaEthBlockRoots[n]
<1> SUFFICES ASSUME NEW n \in ethBlockRootConsumed
             PROVE  /\ n \in ethBlockRootConsumed'
                    /\ megaEthBlockRoots'[n] = megaEthBlockRoots[n]
  OBVIOUS
<1>0. n \in Block /\ megaEthBlockRoots[n] # NoRoot
  BY DEF EthInv, EthTypeOK, EthEvidenceKept
<1>1. ASSUME NEW caller, NEW m \in Block, NEW root, NEW locks,
             SetMegaEthBlockRoot(caller, m, root, locks)
      PROVE  n \in ethBlockRootConsumed' /\ megaEthBlockRoots'[n] = megaEthBlockRoots[n]
  BY <1>0, <1>1 DEF SetMegaEthBlockRoot, EthRootFree, EthInv, EthTypeOK
<1>2. ASSUME NEW m \in Block, ClearMegaEthBlockRoot(m)
      PROVE  n \in ethBlockRootConsumed' /\ megaEthBlockRoots'[n] = megaEthBlockRoots[n]
  BY <1>0, <1>2 DEF ClearMegaEthBlockRoot, EthClearable, EthInv, EthTypeOK
<1>3. ASSUME NEW locks, EthRelease(locks)
      PROVE  n \in ethBlockRootConsumed' /\ megaEthBlockRoots'[n] = megaEthBlockRoots[n]
  BY <1>3 DEF EthRelease
<1>4. ASSUME NEW locks, EthTakeLocks(locks)
      PROVE  n \in ethBlockRootConsumed' /\ megaEthBlockRoots'[n] = megaEthBlockRoots[n]
  BY <1>4 DEF EthTakeLocks
<1>5. ASSUME NEW t, NEW to, EthTransfer(t, to)
      PROVE  n \in ethBlockRootConsumed' /\ megaEthBlockRoots'[n] = megaEthBlockRoots[n]
  BY <1>5 DEF EthTransfer
<1>6. ASSUME \/ EthMineBlock
             \/ \E paused \in BOOLEAN : EthSetPaused(paused)
             \/ \E new \in Submitter : EthSetRootSubmitter(new)
             \/ UNCHANGED ethVars
      PROVE  n \in ethBlockRootConsumed' /\ megaEthBlockRoots'[n] = megaEthBlockRoots[n]
  BY <1>6 DEF EthMineBlock, EthSetPaused, EthSetRootSubmitter, ethVars
<1> QED
  BY <1>1, <1>2, <1>3, <1>4, <1>5, <1>6, EthStepKinds, EthSubmittableAssumption

\* A root an unlock has used never changes again.
THEOREM EthRootsFrozen == EthSpec => EthConsumedRootFrozen
<1>1. EthInv /\ [EthNext(EthSubmittable)]_ethVars
        => [\A n \in ethBlockRootConsumed :
              /\ n \in ethBlockRootConsumed'
              /\ megaEthBlockRoots'[n] = megaEthBlockRoots[n]]_ethVars
  BY EthFrozenStep
<1> QED
  BY <1>1, EthInvariant, PTL DEF EthSpec, EthConsumedRootFrozen

\* A token leaves the bridge only against a recorded, proven and unspent
\* lock, and goes to the recipient of that lock.
LEMMA EthJustifiedStep ==
    ASSUME EthInv, [EthNext(EthSubmittable)]_ethVars,
           NEW t \in ethLockedTokens \ ethLockedTokens'
    PROVE  \E d \in ethLockData :
             /\ d.tokenId = t
             /\ ethOwnerOf'[t] = d.recipient
             /\ LeafOf(d) \in megaEthBlockRoots[d.blockNumber]
             /\ d.lockHash \in ethProcessedLocks' \ ethProcessedLocks
<1>1. PICK locks \in SUBSET ethLockData : EthRelease(locks)
  <2>1. ~UNCHANGED ethLockedTokens
    OBVIOUS
  <2>2. ASSUME NEW taken, EthTakeLocks(taken) PROVE FALSE
    BY <2>2 DEF EthTakeLocks
  <2> QED
    BY <2>1, <2>2, EthStepKinds, EthSubmittableAssumption
       DEF EthTransfer, EthMineBlock, SetMegaEthBlockRoot, EthRootFree, ClearMegaEthBlockRoot, EthClearable,
           EthSetPaused, EthSetRootSubmitter, ethVars
<1>2. t \in TokensOf(locks) /\ t \in Token
  BY <1>1 DEF EthRelease, EthStillLocked, EthInv, EthTypeOK
<1>3. PICK d \in locks : d.tokenId = t /\ RecipientIn(locks, t) = d.recipient
  BY <1>2, RecipientRecorded
<1>4. ethOwnerOf'[t] = d.recipient
  BY <1>1, <1>2, <1>3 DEF EthRelease
<1>5. /\ d \in ethLockData
      /\ LeafOf(d) \in megaEthBlockRoots[d.blockNumber]
      /\ d.lockHash \notin ethProcessedLocks
      /\ d.lockHash \in ethProcessedLocks'
  BY <1>1 DEF EthRelease, EthUnlockable, EthRecorded, EthProven, HashesOf
<1> QED
  BY <1>3, <1>4, <1>5

\* Every token that leaves the bridge does so against a lock that was recorded
\* and proven, and that this very unlock spends.
THEOREM EthReleasesJustified == EthSpec => EthReleaseJustified
<1>1. EthInv /\ [EthNext(EthSubmittable)]_ethVars
        => [\A t \in ethLockedTokens \ ethLockedTokens' :
              \E d \in ethLockData :
                 /\ d.tokenId = t
                 /\ ethOwnerOf'[t] = d.recipient
                 /\ LeafOf(d) \in megaEthBlockRoots[d.blockNumber]
                 /\ d.lockHash \in ethProcessedLocks' \ ethProcessedLocks]_ethVars
  BY EthJustifiedStep
<1> QED
  BY <1>1, EthInvariant, PTL DEF EthSpec, EthReleaseJustified
==============================================================================
