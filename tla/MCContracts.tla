------------------------------ MODULE MCContracts ------------------------------
(***************************************************************************)
(* Each contract on its own, the bridges under a root submitter that may   *)
(* pass records of locks that never happened.  The contract is chosen      *)
(* once, by the initial state; the others stay as they were deployed, but  *)
(* that both bridges are given the same root submitter (so that Submitter  *)
(* is symmetric).                                                          *)
(***************************************************************************)
EXTENDS EthereumBridge, MegaEthBridge, BunnzCollection, TLC

CONSTANTS t1, t2, u1

VARIABLE side   \* the contract of this behaviour

\* Two conflicting records under one hash, one of the same token in another
\* block, and one of the other token whose hash collides with the hash of a
\* lock made on the contract itself.
MCFrom(t, recipient, n, bridge) == LockRecord(t, u1, recipient, n, bridge, Single)
MCRecords(here, there) ==
    LET lock == MCFrom(t1, u1, 1, there)
    IN  {lock, [lock EXCEPT !.recipient = ZeroAddress],
         MCFrom(t1, here, 2, there), MCFrom(t2, u1, 1, here)}

MCEthSubmittable == MCRecords(EthBridge, MegaBridge)
MCMegaSubmittable == MCRecords(MegaBridge, EthBridge)

MCSymmetry == Permutations(Submitter) \cup Permutations(Holder)

MCInit ==
    /\ EthInit
    /\ MegaInit
    /\ CollectionInit
    /\ ethRootSubmitter = megaRootSubmitter
    /\ side \in {EthBridge, MegaBridge, Nobody}

\* Bound: nobody names the contract of the other chain as a recipient.
MCNamed ==
    {ethOwnerOf'[t] : t \in Token} \cup {megaOwnerOf'[t] : t \in Token}
        \cup {d.recipient : d \in ethLockLog' \cup megaLockLog'}

MCOnEthereum ==
    /\ side = EthBridge
    /\ EthNext(EthSubmittable)
    /\ megaRootSubmitter' = ethRootSubmitter'
    /\ UNCHANGED <<megaOwnerOf, activeOnMegaETH, megaLockedTokens,
                   megaProcessedLocks, blockRoots, megaBlockRootConsumed,
                   megaLockData, megaPaused, megaBlockNumber, megaLockLog,
                   bunnzVars, side>>
    /\ MegaBridge \notin MCNamed

MCOnMegaETH ==
    /\ side = MegaBridge
    /\ MegaNext(MegaSubmittable)
    /\ ethRootSubmitter' = megaRootSubmitter'
    /\ UNCHANGED <<ethOwnerOf, ethLockedTokens, ethProcessedLocks,
                   megaEthBlockRoots, ethBlockRootConsumed, ethLockData,
                   ethPaused, ethBlockNumber, ethLockLog, bunnzVars, side>>
    /\ EthBridge \notin MCNamed

MCOnCollection == side = Nobody /\ CollectionNext /\ UNCHANGED <<ethVars, megaVars, side>>

MCNext == MCOnEthereum \/ MCOnMegaETH \/ MCOnCollection

MCSpec == MCInit /\ [][MCNext]_<<ethVars, megaVars, bunnzVars, side>>
==============================================================================
