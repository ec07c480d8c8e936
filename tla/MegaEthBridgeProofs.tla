------------------------- MODULE MegaEthBridgeProofs -------------------------
(***************************************************************************)
(* Proofs about MegaEthBridge, for every set of tokens and users, any      *)
(* number of blocks and whatever records the root submitter passes.        *)
(***************************************************************************)
EXTENDS MegaEthBridge, BridgeLemmas

\* Every step of the bridge is one of nine kinds; the two lock functions
\* and the two unlock functions fall together.
LEMMA MegaStepKinds ==
    ASSUME NEW STATE remote, remote \subseteq LockData, MegaNext(remote)
    PROVE  \/ \E t \in Token, to \in Recipient : MegaTransfer(t, to)
           \/ \E t \in Airdrop, to \in User : MegaAirdrop(t, to)
           \/ MegaMineBlock
           \/ \E locks : CallLocks(locks, megaBlockNumber, MegaBridge) /\ MegaTakeLocks(locks)
           \/ \E caller \in Submitter, n \in Block, leaves \in SUBSET remote, locks \in SUBSET remote :
                 /\ \A d \in leaves : d.blockNumber = n
                 /\ KeyedByHash(locks)
                 /\ SetBlockRoot(caller, n, RootOf(leaves), locks)
           \/ \E n \in Block : ClearBlockRoot(n)
           \/ \E locks \in SUBSET megaLockData : MegaRelease(locks)
           \/ \E paused \in BOOLEAN : MegaSetPaused(paused)
           \/ \E new \in Submitter : MegaSetRootSubmitter(new)
PROOF
<1>1. ASSUME NEW sender \in User, NEW t \in Token, NEW recipient \in Recipient,
             LockNFTForEthereum(sender, t, recipient)
      PROVE  \E locks : CallLocks(locks, megaBlockNumber, MegaBridge) /\ MegaTakeLocks(locks)
  BY <1>1, SingleCallLocks DEF LockNFTForEthereum
<1>2. ASSUME NEW sender \in User, NEW recipient \in Recipient,
             NEW S \in SUBSET Token \ {{}}, NEW pos \in BatchOrder(S),
             BatchLockNFTForEthereum(sender, pos, recipient)
      PROVE  \E locks : CallLocks(locks, megaBlockNumber, MegaBridge) /\ MegaTakeLocks(locks)
  <2> DEFINE locks == {LockRecord(t, sender, recipient, megaBlockNumber, MegaBridge, pos[t]) : t \in S}
  <2>1. pos \in [S -> Int] /\ DOMAIN pos = S
    BY DEF BatchOrder
  <2>2. CallLocks(locks, megaBlockNumber, MegaBridge)
    BY <2>1, CallLocksIntro
  <2> QED
    BY <2>1, <2>2, <1>2 DEF BatchLockNFTForEthereum
<1>3. ASSUME MegaSubmitRoot(remote)
      PROVE  \E caller \in Submitter, n \in Block, leaves \in SUBSET remote, locks \in SUBSET remote :
                 /\ \A d \in leaves : d.blockNumber = n
                 /\ KeyedByHash(locks)
                 /\ SetBlockRoot(caller, n, RootOf(leaves), locks)
  BY <1>3 DEF MegaSubmitRoot
<1>4. ASSUME NEW d \in megaLockData, MegaUnlockNFTWithProof(d)
      PROVE  \E locks \in SUBSET megaLockData : MegaRelease(locks)
  BY <1>4 DEF MegaUnlockNFTWithProof
<1>5. ASSUME NEW locks \in SUBSET megaLockData, MegaBatchUnlockNFTWithProof(locks)
      PROVE  MegaRelease(locks)
  BY <1>5 DEF MegaBatchUnlockNFTWithProof
<1> QED
  BY <1>1, <1>2, <1>3, <1>4, <1>5 DEF MegaNext, MegaPause, MegaUnpause

------------------------------------------------------------------------------
\* The inductive invariant: the three invariants of MegaEthBridge together.
MegaInv == MegaTypeOK /\ MegaLockedIsHeld /\ MegaEvidenceKept

\* It holds initially.
LEMMA MegaInitInv == MegaInit => MegaInv
<1> SUFFICES ASSUME MegaInit PROVE MegaInv
  OBVIOUS
<1>1. MegaTypeOK
  <2>1. megaOwnerOf \in [Token -> Address \cup {ZeroAddress}]
    BY DEF MegaInit
  <2>2. megaBlockNumber \in 1..(MaxBlock + 1)
    BY MaxBlockAssumption DEF MegaInit
  <2> QED
    BY <2>1, <2>2 DEF MegaInit, MegaTypeOK, NoRoot
<1>2. MegaLockedIsHeld
  BY DEF MegaInit, MegaLockedIsHeld, KeyedByHash
<1>3. MegaEvidenceKept
  BY DEF MegaInit, MegaEvidenceKept
<1> QED
  BY <1>1, <1>2, <1>3 DEF MegaInv

\* A transfer of a token between accounts preserves it.
LEMMA MegaTransferInv ==
    ASSUME MegaInv, NEW t \in Token, NEW to \in Recipient, MegaTransfer(t, to)
    PROVE  MegaInv'
<1> USE DEF MegaInv, MegaTransfer
<1>1. MegaTypeOK'
  BY AddressAssumption DEF MegaTypeOK, Address
<1>2. MegaLockedIsHeld'
  <2>1. \A u \in megaLockedTokens : u # t
    BY AddressAssumption DEF MegaLockedIsHeld
  <2>2. to # ZeroAddress
    OBVIOUS
  <2> QED
    BY <2>1, <2>2 DEF MegaTypeOK, MegaLockedIsHeld
<1>3. MegaEvidenceKept'
  BY DEF MegaEvidenceKept
<1> QED
  BY <1>1, <1>2, <1>3

\* An airdrop preserves it.
LEMMA MegaAirdropInv ==
    ASSUME MegaInv, NEW t \in Airdrop, NEW to \in User, MegaAirdrop(t, to)
    PROVE  MegaInv'
<1> USE DEF MegaInv, MegaAirdrop
<1>1. MegaTypeOK'
  BY DEF MegaTypeOK, Address
<1>2. MegaLockedIsHeld'
  <2>1. \A u \in megaLockedTokens : u # t
    BY AddressAssumption DEF MegaLockedIsHeld
  <2>2. to # ZeroAddress
    BY AddressAssumption
  <2> QED
    BY <2>1, <2>2, AirdropAssumption DEF MegaTypeOK, MegaLockedIsHeld
<1>3. MegaEvidenceKept'
  BY DEF MegaEvidenceKept
<1> QED
  BY <1>1, <1>2, <1>3

\* The loop body of the lock functions preserves it.
LEMMA MegaTakeLocksInv ==
    ASSUME MegaInv, NEW locks, CallLocks(locks, megaBlockNumber, MegaBridge), MegaTakeLocks(locks)
    PROVE  MegaInv'
<1> USE DEF MegaInv
<1>1. /\ locks \subseteq LockData
      /\ KeyedByHash(locks)
      /\ TokensOf(locks) \subseteq Token
  BY CallLocksType DEF MegaTakeLocks
<1>2. MegaTypeOK'
  BY <1>1 DEF MegaTakeLocks, MegaTypeOK, Store, Address
<1>3. MegaLockedIsHeld'
  <2>1. /\ \A t \in megaLockedTokens' : megaOwnerOf'[t] = MegaBridge
        /\ \A t \in activeOnMegaETH' : megaOwnerOf'[t] # ZeroAddress
    BY <1>1, AddressAssumption DEF MegaTakeLocks, MegaTypeOK, MegaLockedIsHeld
  <2>2. KeyedByHash(megaLockData')
    BY <1>1, StoreKeyed DEF MegaTakeLocks, MegaLockedIsHeld
  <2> QED
    BY <2>1, <2>2 DEF MegaLockedIsHeld, KeyedByHash
<1>4. MegaEvidenceKept'
  BY DEF MegaTakeLocks, MegaEvidenceKept
<1> QED
  BY <1>2, <1>3, <1>4

\* Posting a root preserves it.
LEMMA MegaSetRootInv ==
    ASSUME MegaInv, NEW caller, NEW n \in Block,
           NEW leaves \in SUBSET LockData, NEW locks \in SUBSET LockData,
           KeyedByHash(locks),
           SetBlockRoot(caller, n, RootOf(leaves), locks)
    PROVE  MegaInv'
<1> USE DEF MegaInv, SetBlockRoot, MegaRootFree
<1>1. MegaTypeOK'
  <2>1. blockRoots' \in [Block -> SUBSET Leaf]
    BY RootOfType DEF MegaTypeOK
  <2> QED
    BY <2>1 DEF MegaTypeOK, Store
<1>2. MegaLockedIsHeld'
  <2>1. KeyedByHash(megaLockData')
    BY StoreKeyed DEF MegaLockedIsHeld
  <2> QED
    BY <2>1 DEF MegaLockedIsHeld, KeyedByHash
<1>3. MegaEvidenceKept'
  BY DEF MegaTypeOK, MegaEvidenceKept, NoRoot
<1> QED
  BY <1>1, <1>2, <1>3

\* Clearing an unused root preserves it.
LEMMA MegaClearRootInv ==
    ASSUME MegaInv, NEW n \in Block, ClearBlockRoot(n)
    PROVE  MegaInv'
<1> USE DEF MegaInv, ClearBlockRoot, MegaClearable
<1>1. MegaTypeOK'
  BY DEF MegaTypeOK, NoRoot
<1>2. MegaLockedIsHeld'
  BY DEF MegaLockedIsHeld, KeyedByHash
<1>3. MegaEvidenceKept'
  BY DEF MegaTypeOK, MegaEvidenceKept
<1> QED
  BY <1>1, <1>2, <1>3

\* The unlock functions preserve it.
LEMMA MegaReleaseInv ==
    ASSUME MegaInv, NEW locks \in SUBSET megaLockData, MegaRelease(locks)
    PROVE  MegaInv'
<1> USE DEF MegaInv
<1>1. locks \subseteq LockData
  BY DEF MegaTypeOK
<1>2. \A d \in locks :
        /\ d.tokenId \in Token
        /\ d.lockHash \in Hash
        /\ d.blockNumber \in Block
        /\ d.recipient \in Address
        /\ LeafOf(d) \in blockRoots[d.blockNumber]
  BY <1>1 DEF MegaRelease, MegaUnlockable, MegaProven, MegaMintable,
              MegaReturnable, LockData, Address
<1>3. MegaTypeOK'
  <2>1. \A t \in TokensOf(locks) : RecipientIn(locks, t) \in Address
    BY <1>2, RecipientRecorded
  <2>2. megaOwnerOf' \in [Token -> Address \cup {ZeroAddress}]
    BY <2>1 DEF MegaRelease, MegaTypeOK
  <2>3. /\ megaBlockRootConsumed' \subseteq Block
        /\ megaProcessedLocks' \subseteq Hash
        /\ megaLockedTokens' \subseteq Token
        /\ activeOnMegaETH' \subseteq Token
        /\ megaLockData' \subseteq LockData
    BY <1>2 DEF MegaRelease, MegaTypeOK, HashesOf, TokensOf, Erase
  <2> QED
    BY <2>2, <2>3 DEF MegaRelease, MegaTypeOK
<1>4. MegaLockedIsHeld'
  <2>1. \A t \in megaLockedTokens' : megaOwnerOf'[t] = MegaBridge
    BY DEF MegaRelease, MegaTypeOK, MegaLockedIsHeld
  <2>2. \A t \in TokensOf(locks) : RecipientIn(locks, t) # ZeroAddress
    BY <1>2, RecipientRecorded, AddressAssumption DEF Address
  <2>3. \A t \in activeOnMegaETH' : megaOwnerOf'[t] # ZeroAddress
    BY <2>2, <1>3 DEF MegaRelease, MegaTypeOK, MegaLockedIsHeld
  <2>4. KeyedByHash(megaLockData')
    BY EraseKeyed DEF MegaRelease, MegaLockedIsHeld
  <2> QED
    BY <2>1, <2>3, <2>4 DEF MegaLockedIsHeld, KeyedByHash
<1>5. MegaEvidenceKept'
  <2>1. \A n \in megaBlockRootConsumed' : blockRoots'[n] # NoRoot
    BY <1>2 DEF MegaRelease, MegaEvidenceKept, NoRoot
  <2>2. ASSUME NEW h \in megaProcessedLocks'
        PROVE  \E n \in megaBlockRootConsumed' :
                 \E leaf \in blockRoots'[n] :
                    leaf.lockHash = h /\ leaf.blockNumber = n
    <3>1. CASE h \in megaProcessedLocks
      BY <3>1 DEF MegaRelease, MegaEvidenceKept
    <3>2. CASE h \in HashesOf(locks)
      <4>1. PICK d \in locks : d.lockHash = h
        BY <3>2 DEF HashesOf
      <4>2. LeafOf(d) \in blockRoots'[d.blockNumber]
        BY <1>2 DEF MegaRelease
      <4>3. d.blockNumber \in megaBlockRootConsumed'
        BY DEF MegaRelease
      <4> QED
        BY <4>1, <4>2, <4>3 DEF LeafOf
    <3> QED
      BY <3>1, <3>2 DEF MegaRelease
  <2> QED
    BY <2>1, <2>2 DEF MegaEvidenceKept
<1> QED
  BY <1>3, <1>4, <1>5

\* Mining, pausing and a new root submitter preserve it.
LEMMA MegaOtherInv ==
    ASSUME MegaInv,
           \/ MegaMineBlock
           \/ \E paused \in BOOLEAN : MegaSetPaused(paused)
           \/ \E new \in Submitter : MegaSetRootSubmitter(new)
           \/ UNCHANGED megaVars
    PROVE  MegaInv'
<1>1. UNCHANGED <<megaOwnerOf, activeOnMegaETH, megaLockedTokens, megaProcessedLocks,
                  blockRoots, megaBlockRootConsumed, megaLockData, megaLockLog>>
  BY DEF MegaMineBlock, MegaSetPaused, MegaSetRootSubmitter, megaVars
<1>2. megaBlockNumber' \in 1..(MaxBlock + 1)
  BY MaxBlockAssumption
     DEF MegaInv, MegaTypeOK, MegaMineBlock, MegaSetPaused, MegaSetRootSubmitter, megaVars
<1>3. megaPaused' \in BOOLEAN /\ megaRootSubmitter' \in Submitter
  BY DEF MegaInv, MegaTypeOK, MegaMineBlock, MegaSetPaused, MegaSetRootSubmitter, megaVars
<1> QED
  BY <1>1, <1>2, <1>3
     DEF MegaInv, MegaTypeOK, MegaLockedIsHeld, MegaEvidenceKept, KeyedByHash

\* Every step of the bridge preserves it.
LEMMA MegaStepInv ==
    ASSUME MegaInv, NEW STATE remote, remote \subseteq LockData, MegaNext(remote)
    PROVE  MegaInv'
BY MegaStepKinds, MegaTransferInv, MegaAirdropInv, MegaTakeLocksInv, MegaSetRootInv,
   MegaClearRootInv, MegaReleaseInv, MegaOtherInv

------------------------------------------------------------------------------
\* The three invariants hold in every reachable state of MegaEthBridge.
THEOREM MegaInvariant == MegaSpec => []MegaInv
<1>1. MegaInit => MegaInv
  BY MegaInitInv
<1>2. MegaInv /\ [MegaNext(MegaSubmittable)]_megaVars => MegaInv'
  BY MegaStepInv, MegaOtherInv, MegaSubmittableAssumption
<1> QED
  BY <1>1, <1>2, PTL DEF MegaSpec

\* Type correctness of MegaEthBridge.
THEOREM MegaTypeCorrect == MegaSpec => []MegaTypeOK
<1>1. MegaInv => MegaTypeOK
  BY DEF MegaInv
<1> QED
  BY <1>1, MegaInvariant, PTL

\* Locked tokens are in the bridge's custody, whatever roots are submitted.
THEOREM MegaCustodySafe == MegaSpec => []MegaLockedIsHeld
<1>1. MegaInv => MegaLockedIsHeld
  BY DEF MegaInv
<1> QED
  BY <1>1, MegaInvariant, PTL

\* The evidence for every unlock stays on chain.
THEOREM MegaEvidenceSafe == MegaSpec => []MegaEvidenceKept
<1>1. MegaInv => MegaEvidenceKept
  BY DEF MegaInv
<1> QED
  BY <1>1, MegaInvariant, PTL

\* A consumed root can neither be cleared nor replaced.
LEMMA MegaFrozenStep ==
    ASSUME MegaInv, [MegaNext(MegaSubmittable)]_megaVars
    PROVE  \A n \in megaBlockRootConsumed :
             /\ n \in megaBlockRootConsumed'
             /\ blockRoots'[n] = blockRoots[n]
<1> SUFFICES ASSUME NEW n \in megaBlockRootConsumed
             PROVE  /\ n \in megaBlockRootConsumed'
                    /\ blockRoots'[n] = blockRoots[n]
  OBVIOUS
<1>0. n \in Block /\ blockRoots[n] # NoRoot
  BY DEF MegaInv, MegaTypeOK, MegaEvidenceKept
<1>1. ASSUME NEW caller, NEW m \in Block, NEW root, NEW locks,
             SetBlockRoot(caller, m, root, locks)
      PROVE  n \in megaBlockRootConsumed' /\ blockRoots'[n] = blockRoots[n]
  BY <1>0, <1>1 DEF SetBlockRoot, MegaRootFree, MegaInv, MegaTypeOK
<1>2. ASSUME NEW m \in Block, ClearBlockRoot(m)
      PROVE  n \in megaBlockRootConsumed' /\ blockRoots'[n] = blockRoots[n]
  BY <1>0, <1>2 DEF ClearBlockRoot, MegaClearable, MegaInv, MegaTypeOK
<1>3. ASSUME NEW locks, MegaRelease(locks)
      PROVE  n \in megaBlockRootConsumed' /\ blockRoots'[n] = blockRoots[n]
  BY <1>3 DEF MegaRelease
<1>4. ASSUME NEW locks, MegaTakeLocks(locks)
      PROVE  n \in megaBlockRootConsumed' /\ blockRoots'[n] = blockRoots[n]
  BY <1>4 DEF MegaTakeLocks
<1>5. ASSUME NEW t, NEW to, MegaTransfer(t, to)
      PROVE  n \in megaBlockRootConsumed' /\ blockRoots'[n] = blockRoots[n]
  BY <1>5 DEF MegaTransfer
<1>6. ASSUME NEW t, NEW to, MegaAirdrop(t, to)
      PROVE  n \in megaBlockRootConsumed' /\ blockRoots'[n] = blockRoots[n]
  BY <1>6 DEF MegaAirdrop
<1>7. ASSUME \/ MegaMineBlock
             \/ \E paused \in BOOLEAN : MegaSetPaused(paused)
             \/ \E new \in Submitter : MegaSetRootSubmitter(new)
             \/ UNCHANGED megaVars
      PROVE  n \in megaBlockRootConsumed' /\ blockRoots'[n] = blockRoots[n]
  BY <1>7 DEF MegaMineBlock, MegaSetPaused, MegaSetRootSubmitter, megaVars
<1> QED
  BY <1>1, <1>2, <1>3, <1>4, <1>5, <1>6, <1>7, MegaStepKinds, MegaSubmittableAssumption

\* A root an unlock has used never changes again.
THEOREM MegaRootsFrozen == MegaSpec => MegaConsumedRootFrozen
<1>1. MegaInv /\ [MegaNext(MegaSubmittable)]_megaVars
        => [\A n \in megaBlockRootConsumed :
              /\ n \in megaBlockRootConsumed'
              /\ blockRoots'[n] = blockRoots[n]]_megaVars
  BY MegaFrozenStep
<1> QED
  BY <1>1, MegaInvariant, PTL DEF MegaSpec, MegaConsumedRootFrozen

\* A token is minted by the bridge or leaves it only against a recorded,
\* proven and unspent lock, and goes to the recipient of that lock.
MegaPaidOut(t) ==
    \/ /\ megaOwnerOf[t] = ZeroAddress
       /\ megaOwnerOf'[t] # ZeroAddress
       /\ t \notin Airdrop
    \/ t \in megaLockedTokens \ megaLockedTokens'

LEMMA MegaJustifiedStep ==
    ASSUME MegaInv, [MegaNext(MegaSubmittable)]_megaVars,
           NEW t \in Token, MegaPaidOut(t)
    PROVE  \E d \in megaLockData :
             /\ d.tokenId = t
             /\ megaOwnerOf'[t] = d.recipient
             /\ LeafOf(d) \in blockRoots[d.blockNumber]
             /\ d.lockHash \in megaProcessedLocks' \ megaProcessedLocks
<1>1. PICK locks \in SUBSET megaLockData : MegaRelease(locks)
  <2>1. ~UNCHANGED <<megaOwnerOf, megaLockedTokens>>
    BY DEF MegaPaidOut
  <2>2. ASSUME NEW taken, CallLocks(taken, megaBlockNumber, MegaBridge),
               MegaTakeLocks(taken)
        PROVE  FALSE
    <3>1. \A u \in TokensOf(taken) : megaOwnerOf[u] # ZeroAddress
      BY <2>2, CallLocksType, AddressAssumption DEF MegaTakeLocks, TokensOf
    <3> QED
      BY <2>2, <3>1 DEF MegaTakeLocks, MegaPaidOut, MegaInv, MegaTypeOK
  <2>3. ASSUME NEW u \in Token, NEW to, MegaTransfer(u, to)
        PROVE  FALSE
    BY <2>3, AddressAssumption DEF MegaTransfer, MegaPaidOut, MegaInv, MegaTypeOK
  <2>4. ASSUME NEW u \in Airdrop, NEW to, MegaAirdrop(u, to)
        PROVE  FALSE
    BY <2>4, AirdropAssumption DEF MegaAirdrop, MegaPaidOut, MegaInv, MegaTypeOK
  <2> QED
    BY <2>1, <2>2, <2>3, <2>4, MegaStepKinds, MegaSubmittableAssumption
       DEF MegaMineBlock, SetBlockRoot, MegaRootFree, ClearBlockRoot, MegaClearable,
           MegaSetPaused, MegaSetRootSubmitter, megaVars
<1>2. t \in TokensOf(locks)
  BY <1>1 DEF MegaRelease, MegaPaidOut, MegaInv, MegaTypeOK
<1>3. PICK d \in locks : d.tokenId = t /\ RecipientIn(locks, t) = d.recipient
  BY <1>2, RecipientRecorded
<1>4. megaOwnerOf'[t] = d.recipient
  BY <1>1, <1>2, <1>3 DEF MegaRelease
<1>5. /\ d \in megaLockData
      /\ LeafOf(d) \in blockRoots[d.blockNumber]
      /\ d.lockHash \notin megaProcessedLocks
      /\ d.lockHash \in megaProcessedLocks'
  BY <1>1 DEF MegaRelease, MegaUnlockable, MegaRecorded, MegaProven, HashesOf
<1> QED
  BY <1>3, <1>4, <1>5

\* Every token that leaves the bridge does so against a lock that was recorded
\* and proven, and that this very unlock spends.
THEOREM MegaReleasesJustified == MegaSpec => MegaReleaseJustified
<1>1. MegaInv /\ [MegaNext(MegaSubmittable)]_megaVars
        => [\A t \in Token :
              \/ /\ megaOwnerOf[t] = ZeroAddress
                 /\ megaOwnerOf'[t] # ZeroAddress
                 /\ t \notin Airdrop
              \/ t \in megaLockedTokens \ megaLockedTokens'
              =>
              \E d \in megaLockData :
                 /\ d.tokenId = t
                 /\ megaOwnerOf'[t] = d.recipient
                 /\ LeafOf(d) \in blockRoots[d.blockNumber]
                 /\ d.lockHash \in megaProcessedLocks' \ megaProcessedLocks]_megaVars
  BY MegaJustifiedStep DEF MegaPaidOut
<1> QED
  BY <1>1, MegaInvariant, PTL DEF MegaSpec, MegaReleaseJustified
==============================================================================
