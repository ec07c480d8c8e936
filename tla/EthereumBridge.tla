---------------------------- MODULE EthereumBridge ----------------------------
(***************************************************************************)
(* EthereumBridge.sol with the ERC-721 collection it holds tokens of.      *)
(* One action is one transaction that succeeds; a call whose require fails *)
(* reverts and changes nothing, so a failed require is a disabled action.  *)
(*                                                                         *)
(* EthNext(remote) takes the lock records the root submitter may pass.     *)
(* EthSpec gives it EthSubmittable, any set of records, true or not; the   *)
(* Bridge module gives it the locks made on MegaETH.                       *)
(***************************************************************************)
EXTENDS BridgeTypes

CONSTANT EthSubmittable  \* what a submitter may pass in EthSpec

ASSUME EthSubmittableAssumption == EthSubmittable \subseteq LockData

VARIABLES
    ethOwnerOf,          \* ownerOf of the collection on Ethereum
    ethLockedTokens,     \* tokens t with lockedTokens[t]
    ethProcessedLocks,   \* hashes h with processedLocks[h]
    megaEthBlockRoots,   \* megaEthBlockRoots[n], as a set of leaves
    ethBlockRootConsumed,\* blocks n with blockRootConsumed[n]
    ethLockData,         \* the lockData mapping
    ethPaused,
    ethRootSubmitter,
    ethBlockNumber,      \* block.number
    ethLockLog           \* NFTLocked events emitted so far

ethVars == <<ethOwnerOf, ethLockedTokens, ethProcessedLocks, megaEthBlockRoots,
             ethBlockRootConsumed, ethLockData, ethPaused, ethRootSubmitter,
             ethBlockNumber, ethLockLog>>

EthTypeOK ==
    /\ ethOwnerOf \in [Token -> Address]
    /\ ethLockedTokens \subseteq Token
    /\ ethProcessedLocks \subseteq Hash
    /\ megaEthBlockRoots \in [Block -> SUBSET Leaf]
    /\ ethBlockRootConsumed \subseteq Block
    /\ ethLockData \subseteq LockData
    /\ ethPaused \in BOOLEAN
    /\ ethRootSubmitter \in Submitter
    /\ ethBlockNumber \in 1..(MaxBlock + 1)
    /\ ethLockLog \subseteq LockData

EthInit ==
    /\ ethOwnerOf \in [Token -> User]
    /\ ethLockedTokens = {}
    /\ ethProcessedLocks = {}
    /\ megaEthBlockRoots = [n \in Block |-> NoRoot]
    /\ ethBlockRootConsumed = {}
    /\ ethLockData = {}
    /\ ethPaused = FALSE
    /\ ethRootSubmitter \in Submitter
    /\ ethBlockNumber = 1
    /\ ethLockLog = {}

------------------------------------------------------------------------------
\* The collection and the chain.

\* A holder transfers a token; the bridge contract is a possible destination.
EthTransfer(t, to) ==
    /\ ethOwnerOf[t] \in User
    /\ to \notin {ethOwnerOf[t], ZeroAddress}
    /\ ethOwnerOf' = [ethOwnerOf EXCEPT ![t] = to]
    /\ UNCHANGED <<ethLockedTokens, ethProcessedLocks, megaEthBlockRoots,
                   ethBlockRootConsumed, ethLockData, ethPaused,
                   ethRootSubmitter, ethBlockNumber, ethLockLog>>

EthMineBlock ==
    /\ ethBlockNumber <= MaxBlock
    /\ ethBlockNumber' = ethBlockNumber + 1
    /\ UNCHANGED <<ethOwnerOf, ethLockedTokens, ethProcessedLocks,
                   megaEthBlockRoots, ethBlockRootConsumed, ethLockData,
                   ethPaused, ethRootSubmitter, ethLockLog>>

------------------------------------------------------------------------------
\* Locking.

\* The loop body of the two lock functions, for all the locks of one call.
EthTakeLocks(locks) ==
    /\ ~ethPaused
    /\ ethBlockNumber \in Block
    /\ \A d \in locks :
         /\ d.tokenId \notin ethLockedTokens
         /\ d.recipient # ZeroAddress
         /\ ethOwnerOf[d.tokenId] = d.owner
    /\ ethOwnerOf' = [t \in Token |->
                        IF t \in TokensOf(locks) THEN EthBridge ELSE ethOwnerOf[t]]
    /\ ethLockedTokens' = ethLockedTokens \cup TokensOf(locks)
    /\ ethLockData' = Store(ethLockData, locks)
    /\ ethLockLog' = ethLockLog \cup locks
    /\ UNCHANGED <<ethProcessedLocks, megaEthBlockRoots, ethBlockRootConsumed,
                   ethPaused, ethRootSubmitter, ethBlockNumber>>

LockNFT(sender, t, recipient) ==
    EthTakeLocks({LockRecord(t, sender, recipient, ethBlockNumber,
                             EthBridge, Single)})

BatchLockNFT(sender, pos, recipient) ==
    EthTakeLocks({LockRecord(t, sender, recipient, ethBlockNumber,
                             EthBridge, pos[t]) : t \in DOMAIN pos})

------------------------------------------------------------------------------
\* Roots of MegaETH blocks.

SlipEthRootOverwrites(n) == TRUE
EthRootFree(n) == megaEthBlockRoots[n] = NoRoot

SetMegaEthBlockRoot(caller, n, root, locks) ==
    /\ caller = ethRootSubmitter
    /\ EthRootFree(n)
    /\ \A d \in locks : d.blockNumber = n
    /\ megaEthBlockRoots' = [megaEthBlockRoots EXCEPT ![n] = root]
    /\ ethLockData' = Store(ethLockData, locks)
    /\ UNCHANGED <<ethOwnerOf, ethLockedTokens, ethProcessedLocks,
                   ethBlockRootConsumed, ethPaused, ethRootSubmitter,
                   ethBlockNumber, ethLockLog>>

SlipEthClearConsumed(n) == megaEthBlockRoots[n] # NoRoot
EthClearable(n) == megaEthBlockRoots[n] # NoRoot /\ n \notin ethBlockRootConsumed

ClearMegaEthBlockRoot(n) ==
    /\ EthClearable(n)
    /\ megaEthBlockRoots' = [megaEthBlockRoots EXCEPT ![n] = NoRoot]
    /\ UNCHANGED <<ethOwnerOf, ethLockedTokens, ethProcessedLocks,
                   ethBlockRootConsumed, ethLockData, ethPaused,
                   ethRootSubmitter, ethBlockNumber, ethLockLog>>

------------------------------------------------------------------------------
\* Unlocking.

\* The requires of an unlock, with the arguments taken from the recorded lock:
\* any other argument is a mismatch and reverts.
EthRecorded(d) ==
    /\ d \in ethLockData
    /\ d.lockHash \notin ethProcessedLocks
    /\ d.tokenId \in ethLockedTokens

SlipEthUnproven(d) == megaEthBlockRoots[d.blockNumber] # NoRoot
EthProven(d) ==
    /\ megaEthBlockRoots[d.blockNumber] # NoRoot
    /\ LeafOf(d) \in megaEthBlockRoots[d.blockNumber]

\* transferFrom(bridge, recipient, token) of the collection succeeds.
EthReleasable(d) ==
    /\ ethOwnerOf[d.tokenId] = EthBridge
    /\ d.recipient # ZeroAddress

EthUnlockable(d) == EthRecorded(d) /\ EthProven(d) /\ EthReleasable(d)

\* lockedTokens[tokenId] = false
SlipEthFlagKept(locks) == ethLockedTokens
EthStillLocked(locks) == ethLockedTokens \ TokensOf(locks)

EthRelease(locks) ==
    /\ ~ethPaused
    /\ DistinctTokens(locks)
    /\ \A d \in locks : EthUnlockable(d)
    /\ ethBlockRootConsumed' = ethBlockRootConsumed \cup {d.blockNumber : d \in locks}
    /\ ethProcessedLocks' = ethProcessedLocks \cup HashesOf(locks)
    /\ ethLockedTokens' = EthStillLocked(locks)
    /\ ethLockData' = Erase(ethLockData, HashesOf(locks))
    /\ ethOwnerOf' = [t \in Token |-> IF t \in TokensOf(locks)
                                        THEN RecipientIn(locks, t)
                                        ELSE ethOwnerOf[t]]
    /\ UNCHANGED <<megaEthBlockRoots, ethPaused, ethRootSubmitter,
                   ethBlockNumber, ethLockLog>>

EthUnlockNFTWithProof(d) == EthRelease({d})
EthBatchUnlockNFTWithProof(locks) == locks # {} /\ EthRelease(locks)

------------------------------------------------------------------------------
\* Administration by the owner.

EthSetPaused(paused) ==
    /\ ethPaused # paused
    /\ ethPaused' = paused
    /\ UNCHANGED <<ethOwnerOf, ethLockedTokens, ethProcessedLocks,
                   megaEthBlockRoots, ethBlockRootConsumed, ethLockData,
                   ethRootSubmitter, ethBlockNumber, ethLockLog>>
EthPause == EthSetPaused(TRUE)
EthUnpause == EthSetPaused(FALSE)

EthSetRootSubmitter(newRootSubmitter) ==
    /\ newRootSubmitter # ethRootSubmitter
    /\ ethRootSubmitter' = newRootSubmitter
    /\ UNCHANGED <<ethOwnerOf, ethLockedTokens, ethProcessedLocks,
                   megaEthBlockRoots, ethBlockRootConsumed, ethLockData,
                   ethPaused, ethBlockNumber, ethLockLog>>

------------------------------------------------------------------------------
\* The submitter of remote reads the root's leaves and the lock data it passes
\* separately, so the two may differ; either may miss some locks of the block.
EthSubmitRoot(remote) ==
    \E caller \in Submitter, n \in Block :
        LET inBlock == {d \in remote : d.blockNumber = n}
        IN  \E leaves, locks \in SUBSET inBlock :
              /\ KeyedByHash(locks)
              /\ SetMegaEthBlockRoot(caller, n, RootOf(leaves), locks)

EthNext(remote) ==
    \/ \E t \in Token, to \in Recipient : EthTransfer(t, to)
    \/ EthMineBlock
    \/ \E sender \in User, t \in Token, recipient \in Recipient :
          LockNFT(sender, t, recipient)
    \/ \E sender \in User, recipient \in Recipient, S \in SUBSET Token \ {{}} :
          \E pos \in BatchOrder(S) : BatchLockNFT(sender, pos, recipient)
    \/ EthSubmitRoot(remote)
    \/ \E n \in Block : ClearMegaEthBlockRoot(n)
    \/ \E d \in ethLockData : EthUnlockNFTWithProof(d)
    \/ \E locks \in SUBSET ethLockData : EthBatchUnlockNFTWithProof(locks)
    \/ EthPause
    \/ EthUnpause
    \/ \E new \in Submitter : EthSetRootSubmitter(new)

EthSpec == EthInit /\ [][EthNext(EthSubmittable)]_ethVars

------------------------------------------------------------------------------
\* Properties that hold whatever the root submitter passes.

\* Every token marked locked is in the bridge's custody, so that the
\* transferFrom of its unlock cannot fail; and two recorded locks never share
\* a hash, although local locks and submitted ones are written to one mapping.
EthLockedIsHeld ==
    /\ \A t \in ethLockedTokens : ethOwnerOf[t] = EthBridge
    /\ KeyedByHash(ethLockData)

\* The evidence for an unlock is kept: the root a processed lock was proven
\* against is still there, still contains its leaf, and is marked consumed,
\* so that clearMegaEthBlockRoot cannot take it away afterwards.
EthEvidenceKept ==
    /\ \A n \in ethBlockRootConsumed : megaEthBlockRoots[n] # NoRoot
    /\ \A h \in ethProcessedLocks :
         \E n \in ethBlockRootConsumed :
            \E leaf \in megaEthBlockRoots[n] : leaf.lockHash = h /\ leaf.blockNumber = n

\* A root that an unlock has used never changes again, neither by a second
\* submission nor by clear-and-resubmit.
EthConsumedRootFrozen ==
    [][\A n \in ethBlockRootConsumed :
          /\ n \in ethBlockRootConsumed'
          /\ megaEthBlockRoots'[n] = megaEthBlockRoots[n]]_ethVars

\* A token leaves the bridge's custody only against a recorded lock of that
\* token, proven by a root, never spent before and spent by this very step;
\* it goes to the recipient of that lock.
EthReleaseJustified ==
    [][\A t \in ethLockedTokens \ ethLockedTokens' :
          \E d \in ethLockData :
             /\ d.tokenId = t
             /\ ethOwnerOf'[t] = d.recipient
             /\ LeafOf(d) \in megaEthBlockRoots[d.blockNumber]
             /\ d.lockHash \in ethProcessedLocks' \ ethProcessedLocks]_ethVars
==============================================================================
