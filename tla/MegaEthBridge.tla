---------------------------- MODULE MegaEthBridge ----------------------------
(***************************************************************************)
(* MegaEthBridge.sol with the Bad_Bunnz collection it mints and holds      *)
(* tokens of.  One action is one transaction that succeeds; a call whose   *)
(* require fails reverts, so a failed require is a disabled action.        *)
(*                                                                         *)
(* MegaNext(remote) takes the lock records the root submitter may pass, as *)
(* EthNext does in EthereumBridge.                                         *)
(***************************************************************************)
EXTENDS BridgeTypes

CONSTANTS
    MegaSubmittable, \* what a submitter may pass in MegaSpec
    Airdrop          \* tokens the collection's owner may airdrop on MegaETH

ASSUME MegaSubmittableAssumption == MegaSubmittable \subseteq LockData
ASSUME AirdropAssumption == Airdrop \subseteq Token

VARIABLES
    megaOwnerOf,          \* ownerOf on MegaETH, ZeroAddress before the mint
    activeOnMegaETH,      \* tokens t with activeOnMegaETH[t]
    megaLockedTokens,     \* tokens t with lockedTokens[t]
    megaProcessedLocks,   \* hashes h with processedLocks[h]
    blockRoots,           \* blockRoots[n], as a set of leaves
    megaBlockRootConsumed,\* blocks n with blockRootConsumed[n]
    megaLockData,         \* the lockData mapping
    megaPaused,
    megaRootSubmitter,
    megaBlockNumber,      \* block.number
    megaLockLog           \* NFTLocked events emitted so far

megaVars == <<megaOwnerOf, activeOnMegaETH, megaLockedTokens,
              megaProcessedLocks, blockRoots, megaBlockRootConsumed,
              megaLockData, megaPaused, megaRootSubmitter, megaBlockNumber,
              megaLockLog>>

MegaTypeOK ==
    /\ megaOwnerOf \in [Token -> Address \cup {ZeroAddress}]
    /\ activeOnMegaETH \subseteq Token
    /\ megaLockedTokens \subseteq Token
    /\ megaProcessedLocks \subseteq Hash
    /\ blockRoots \in [Block -> SUBSET Leaf]
    /\ megaBlockRootConsumed \subseteq Block
    /\ megaLockData \subseteq LockData
    /\ megaPaused \in BOOLEAN
    /\ megaRootSubmitter \in Submitter
    /\ megaBlockNumber \in 1..(MaxBlock + 1)
    /\ megaLockLog \subseteq LockData

MegaInit ==
    /\ megaOwnerOf = [t \in Token |-> ZeroAddress]
    /\ activeOnMegaETH = {}
    /\ megaLockedTokens = {}
    /\ megaProcessedLocks = {}
    /\ blockRoots = [n \in Block |-> NoRoot]
    /\ megaBlockRootConsumed = {}
    /\ megaLockData = {}
    /\ megaPaused = FALSE
    /\ megaRootSubmitter \in Submitter
    /\ megaBlockNumber = 1
    /\ megaLockLog = {}

------------------------------------------------------------------------------
\* The collection and the chain.

MegaTransfer(t, to) ==
    /\ megaOwnerOf[t] \in User
    /\ to \notin {megaOwnerOf[t], ZeroAddress}
    /\ megaOwnerOf' = [megaOwnerOf EXCEPT ![t] = to]
    /\ UNCHANGED <<activeOnMegaETH, megaLockedTokens, megaProcessedLocks,
                   blockRoots, megaBlockRootConsumed, megaLockData, megaPaused,
                   megaRootSubmitter, megaBlockNumber, megaLockLog>>

\* Bad_Bunnz.airdrop of one token; _safeMint refuses a token that exists.
MegaAirdrop(t, to) ==
    /\ megaOwnerOf[t] = ZeroAddress
    /\ to \in User
    /\ megaOwnerOf' = [megaOwnerOf EXCEPT ![t] = to]
    /\ UNCHANGED <<activeOnMegaETH, megaLockedTokens, megaProcessedLocks,
                   blockRoots, megaBlockRootConsumed, megaLockData, megaPaused,
                   megaRootSubmitter, megaBlockNumber, megaLockLog>>

MegaMineBlock ==
    /\ megaBlockNumber <= MaxBlock
    /\ megaBlockNumber' = megaBlockNumber + 1
    /\ UNCHANGED <<megaOwnerOf, activeOnMegaETH, megaLockedTokens,
                   megaProcessedLocks, blockRoots, megaBlockRootConsumed,
                   megaLockData, megaPaused, megaRootSubmitter, megaLockLog>>

------------------------------------------------------------------------------
\* Locking.

\* The loop body of the two lock functions, for all the locks of one call.
MegaTakeLocks(locks) ==
    /\ ~megaPaused
    /\ megaBlockNumber \in Block
    /\ \A d \in locks :
         /\ d.tokenId \notin megaLockedTokens
         /\ d.recipient # ZeroAddress
         /\ megaOwnerOf[d.tokenId] = d.owner
    /\ megaOwnerOf' = [t \in Token |->
                         IF t \in TokensOf(locks) THEN MegaBridge ELSE megaOwnerOf[t]]
    /\ megaLockedTokens' = megaLockedTokens \cup TokensOf(locks)
    /\ megaLockData' = Store(megaLockData, locks)
    /\ megaLockLog' = megaLockLog \cup locks
    /\ UNCHANGED <<activeOnMegaETH, megaProcessedLocks, blockRoots,
                   megaBlockRootConsumed, megaPaused, megaRootSubmitter,
                   megaBlockNumber>>

LockNFTForEthereum(sender, t, recipient) ==
    /\ t \in activeOnMegaETH
    /\ MegaTakeLocks({LockRecord(t, sender, recipient, megaBlockNumber,
                                 MegaBridge, Single)})

\* Unlike lockNFTForEthereum, the batch does not require activeOnMegaETH.
BatchLockNFTForEthereum(sender, pos, recipient) ==
    MegaTakeLocks({LockRecord(t, sender, recipient, megaBlockNumber,
                              MegaBridge, pos[t]) : t \in DOMAIN pos})

------------------------------------------------------------------------------
\* Roots of Ethereum blocks.

SlipMegaRootOverwrites(n) == TRUE
MegaRootFree(n) == blockRoots[n] = NoRoot

SetBlockRoot(caller, n, root, locks) ==
    /\ caller = megaRootSubmitter
    /\ MegaRootFree(n)
    /\ \A d \in locks : d.blockNumber = n
    /\ blockRoots' = [blockRoots EXCEPT ![n] = root]
    /\ megaLockData' = Store(megaLockData, locks)
    /\ UNCHANGED <<megaOwnerOf, activeOnMegaETH, megaLockedTokens,
                   megaProcessedLocks, megaBlockRootConsumed, megaPaused,
                   megaRootSubmitter, megaBlockNumber, megaLockLog>>

SlipMegaClearConsumed(n) == blockRoots[n] # NoRoot
MegaClearable(n) == blockRoots[n] # NoRoot /\ n \notin megaBlockRootConsumed

ClearBlockRoot(n) ==
    /\ MegaClearable(n)
    /\ blockRoots' = [blockRoots EXCEPT ![n] = NoRoot]
    /\ UNCHANGED <<megaOwnerOf, activeOnMegaETH, megaLockedTokens,
                   megaProcessedLocks, megaBlockRootConsumed, megaLockData,
                   megaPaused, megaRootSubmitter, megaBlockNumber, megaLockLog>>

------------------------------------------------------------------------------
\* Unlocking.

\* The requires of an unlock, with the arguments taken from the recorded lock.
MegaRecorded(d) ==
    /\ d \in megaLockData
    /\ d.lockHash \notin megaProcessedLocks

SlipMegaUnproven(d) == blockRoots[d.blockNumber] # NoRoot
MegaProven(d) ==
    /\ blockRoots[d.blockNumber] # NoRoot
    /\ LeafOf(d) \in blockRoots[d.blockNumber]

\* First arrival: bridgeMint, whose _safeMint refuses a token that exists and
\* a contract without onERC721Received, such as this bridge.
SlipMegaMintToAnyone(d) ==
    /\ d.tokenId \notin activeOnMegaETH
    /\ megaOwnerOf[d.tokenId] = ZeroAddress
MegaMintable(d) ==
    /\ d.tokenId \notin activeOnMegaETH
    /\ megaOwnerOf[d.tokenId] = ZeroAddress
    /\ d.recipient \in Address \ {MegaBridge}

\* Return: transferFrom(bridge, recipient, token).
MegaReturnable(d) ==
    /\ d.tokenId \in activeOnMegaETH
    /\ d.tokenId \in megaLockedTokens
    /\ megaOwnerOf[d.tokenId] = MegaBridge
    /\ d.recipient # ZeroAddress

SlipMegaAlwaysMints(d) == MegaRecorded(d) /\ MegaProven(d) /\ MegaMintable(d)
MegaUnlockable(d) ==
    /\ MegaRecorded(d)
    /\ MegaProven(d)
    /\ MegaMintable(d) \/ MegaReturnable(d)

MegaRelease(locks) ==
    /\ ~megaPaused
    /\ DistinctTokens(locks)
    /\ \A d \in locks : MegaUnlockable(d)
    /\ megaBlockRootConsumed' = megaBlockRootConsumed \cup {d.blockNumber : d \in locks}
    /\ megaProcessedLocks' = megaProcessedLocks \cup HashesOf(locks)
    /\ activeOnMegaETH' = activeOnMegaETH \cup TokensOf(locks)
    /\ megaLockedTokens' = megaLockedTokens \ TokensOf(locks)
    /\ megaLockData' = Erase(megaLockData, HashesOf(locks))
    /\ megaOwnerOf' = [t \in Token |-> IF t \in TokensOf(locks)
                                         THEN RecipientIn(locks, t)
                                         ELSE megaOwnerOf[t]]
    /\ UNCHANGED <<blockRoots, megaPaused, megaRootSubmitter,
                   megaBlockNumber, megaLockLog>>

MegaUnlockNFTWithProof(d) == MegaRelease({d})
MegaBatchUnlockNFTWithProof(locks) == locks # {} /\ MegaRelease(locks)

------------------------------------------------------------------------------
\* Administration by the owner.

MegaSetPaused(paused) ==
    /\ megaPaused # paused
    /\ megaPaused' = paused
    /\ UNCHANGED <<megaOwnerOf, activeOnMegaETH, megaLockedTokens,
                   megaProcessedLocks, blockRoots, megaBlockRootConsumed,
                   megaLockData, megaRootSubmitter, megaBlockNumber, megaLockLog>>
MegaPause == MegaSetPaused(TRUE)
MegaUnpause == MegaSetPaused(FALSE)

MegaSetRootSubmitter(newRootSubmitter) ==
    /\ newRootSubmitter # megaRootSubmitter
    /\ megaRootSubmitter' = newRootSubmitter
    /\ UNCHANGED <<megaOwnerOf, activeOnMegaETH, megaLockedTokens,
                   megaProcessedLocks, blockRoots, megaBlockRootConsumed,
                   megaLockData, megaPaused, megaBlockNumber, megaLockLog>>

------------------------------------------------------------------------------
MegaSubmitRoot(remote) ==
    \E caller \in Submitter, n \in Block :
        LET inBlock == {d \in remote : d.blockNumber = n}
        IN  \E leaves, locks \in SUBSET inBlock :
              /\ KeyedByHash(locks)
              /\ SetBlockRoot(caller, n, RootOf(leaves), locks)

MegaNext(remote) ==
    \/ \E t \in Token, to \in Recipient : MegaTransfer(t, to)
    \/ \E t \in Airdrop, to \in User : MegaAirdrop(t, to)
    \/ MegaMineBlock
    \/ \E sender \in User, t \in Token, recipient \in Recipient :
          LockNFTForEthereum(sender, t, recipient)
    \/ \E sender \in User, recipient \in Recipient, S \in SUBSET Token \ {{}} :
          \E pos \in BatchOrder(S) : BatchLockNFTForEthereum(sender, pos, recipient)
    \/ MegaSubmitRoot(remote)
    \/ \E n \in Block : ClearBlockRoot(n)
    \/ \E d \in megaLockData : MegaUnlockNFTWithProof(d)
    \/ \E locks \in SUBSET megaLockData : MegaBatchUnlockNFTWithProof(locks)
    \/ MegaPause
    \/ MegaUnpause
    \/ \E new \in Submitter : MegaSetRootSubmitter(new)

MegaSpec == MegaInit /\ [][MegaNext(MegaSubmittable)]_megaVars

------------------------------------------------------------------------------
\* Properties that hold whatever the root submitter passes.

\* Every token marked locked is in the bridge's custody, every active token
\* has been minted, and recorded locks are keyed by their hash.
MegaLockedIsHeld ==
    /\ \A t \in megaLockedTokens : megaOwnerOf[t] = MegaBridge
    /\ \A t \in activeOnMegaETH : megaOwnerOf[t] # ZeroAddress
    /\ KeyedByHash(megaLockData)

\* The root a processed lock was proven against is still there, still
\* contains its leaf, and is marked consumed so that it cannot be cleared.
MegaEvidenceKept ==
    /\ \A n \in megaBlockRootConsumed : blockRoots[n] # NoRoot
    /\ \A h \in megaProcessedLocks :
         \E n \in megaBlockRootConsumed :
            \E leaf \in blockRoots[n] : leaf.lockHash = h /\ leaf.blockNumber = n

\* A root that an unlock has used never changes again.
MegaConsumedRootFrozen ==
    [][\A n \in megaBlockRootConsumed :
          /\ n \in megaBlockRootConsumed'
          /\ blockRoots'[n] = blockRoots[n]]_megaVars

\* A token is minted or leaves the bridge's custody only against a recorded
\* lock of that token, proven by a root and spent by this very step; it goes
\* to the recipient of that lock.  An airdrop is the only other mint.
MegaReleaseJustified ==
    [][\A t \in Token :
          \/ /\ megaOwnerOf[t] = ZeroAddress
             /\ megaOwnerOf'[t] # ZeroAddress
             /\ t \notin Airdrop
          \/ t \in megaLockedTokens \ megaLockedTokens'
          =>
          \E d \in megaLockData :
             /\ d.tokenId = t
             /\ megaOwnerOf'[t] = d.recipient
             /\ LeafOf(d) \in blockRoots[d.blockNumber]
             /\ d.lockHash \in megaProcessedLocks' \ megaProcessedLocks]_megaVars
==============================================================================
