-------------------------------- MODULE Bridge --------------------------------
(***************************************************************************)
(* The two contracts together.  Each chain sees the other only through the *)
(* roots its submitter posts.  The submitter here reports locks that were  *)
(* really made, in blocks that are closed (the relayer waits for           *)
(* confirmations), but it may have seen only some of the locks of a block. *)
(***************************************************************************)
EXTENDS EthereumBridge, MegaEthBridge

vars == <<ethVars, megaVars>>

\* What proof generation and submission read: the NFTLocked events of closed
\* blocks of the source chain.
SlipEthUnconfirmedLocks == ethLockLog
SlipMegaUnconfirmedLocks == megaLockLog
EthClosedLocks == {d \in ethLockLog : d.blockNumber < ethBlockNumber}
MegaClosedLocks == {d \in megaLockLog : d.blockNumber < megaBlockNumber}

Init == EthInit /\ MegaInit

EthStep == EthNext(MegaClosedLocks) /\ UNCHANGED megaVars
MegaStep == MegaNext(EthClosedLocks) /\ UNCHANGED ethVars

Next == EthStep \/ MegaStep

Spec == Init /\ [][Next]_vars

\* A root with its lock data covers locks that can all be redeemed with it.
Covers(root, mapping, locks) ==
    \A d \in locks : LeafOf(d) \in root /\ d \in mapping

------------------------------------------------------------------------------
\* The tokens that reach MegaETH only through the bridge.  One that the
\* collection's owner airdrops there exists on both chains at once, and the
\* batch lock of MegaETH takes it although the bridge never brought it.
Bridged == Token \ Airdrop
OfBridged(locks) == {d \in locks : d.tokenId \in Bridged}

\* Locks that have not been redeemed on the other chain.
ToMega == {d \in ethLockLog : d.lockHash \notin megaProcessedLocks}
ToEth == {d \in megaLockLog : d.lockHash \notin ethProcessedLocks}

\* Where a token is, in the terms of TokenCustody.
CustodyOf(t) ==
    IF t \notin ethLockedTokens
    THEN [place |-> "ethereum", who |-> ethOwnerOf[t]]
    ELSE IF t \in TokensOf(ToMega)
    THEN [place |-> "toMegaeth", who |-> RecipientIn(ToMega, t)]
    ELSE IF t \in TokensOf(ToEth)
    THEN [place |-> "toEthereum", who |-> RecipientIn(ToEth, t)]
    ELSE [place |-> "megaeth", who |-> megaOwnerOf[t]]

Custody == INSTANCE TokenCustody
             WITH Token <- Bridged, custody <- [t \in Bridged |-> CustodyOf(t)]

\* The contracts, the submitter and the two chains together implement the
\* abstract custody of the bridged tokens, whatever else is airdropped and
\* locked in one batch with them.
ImplementsCustody == Custody!CustodySpec

\* Every bridged token is in exactly one place: free on Ethereum, free on
\* MegaETH, under one lock that MegaETH has not redeemed, or under one lock
\* that Ethereum has not redeemed.  A lock redeemed twice, a lock that redeems
\* nothing, or a token usable on both chains violates it.
TokenInOnePlace ==
    /\ DistinctTokens(OfBridged(ToMega))
    /\ DistinctTokens(OfBridged(ToEth))
    /\ \A t \in Bridged :
         LET freeOnEth == t \notin ethLockedTokens
             freeOnMega == t \in activeOnMegaETH \ megaLockedTokens
             toMega == t \in TokensOf(ToMega)
             toEth == t \in TokensOf(ToEth)
         IN  /\ freeOnEth \/ freeOnMega \/ toMega \/ toEth
             /\ freeOnEth => ~freeOnMega /\ ~toMega /\ ~toEth
             /\ freeOnMega => ~toMega /\ ~toEth
             /\ ~(toMega /\ toEth)

\* The hash of a new lock was never used before: not by an earlier lock of
\* the same chain (of a bridged token), nor by one already redeemed on the
\* other.  Two locks of one token by one owner to one recipient differ in
\* block.number only if the token cannot make the round trip within a block.
LockHashesFresh ==
    [][/\ \A d \in ethLockLog' :
             (d.tokenId \in ethLockedTokens' \ ethLockedTokens
                /\ d.blockNumber = ethBlockNumber)
             => d.lockHash \notin megaProcessedLocks
       /\ \A d \in megaLockLog' :
             (d.tokenId \in megaLockedTokens' \ megaLockedTokens
                /\ d.blockNumber = megaBlockNumber)
             => d.lockHash \notin ethProcessedLocks
       /\ \A t \in Bridged \cap (ethLockedTokens' \ ethLockedTokens) :
             \E d \in ethLockLog' \ ethLockLog : d.tokenId = t
       /\ \A t \in Bridged \cap (megaLockedTokens' \ megaLockedTokens) :
             \E d \in megaLockLog' \ megaLockLog : d.tokenId = t]_vars

\* A recorded and proven lock of a bridged token can be redeemed: the
\* remaining requires of the unlock and the token transfer it makes cannot
\* fail.  The one exception is a first arrival whose recipient is the MegaETH
\* bridge itself, which _safeMint refuses.
ProvenLockRedeemable ==
    /\ \A d \in OfBridged(ethLockData) :
          EthProven(d) /\ d \in ToEth => EthUnlockable(d)
    /\ \A d \in OfBridged(megaLockData) :
          MegaProven(d) /\ d \in ToMega =>
             \/ MegaUnlockable(d)
             \/ d.recipient = MegaBridge /\ d.tokenId \notin activeOnMegaETH

\* A root that covered the locks of its block when it was posted covers them
\* until they are redeemed: no lock joins a block behind its root, and no
\* record is overwritten or erased by another.  As a consumed root cannot be
\* replaced, a lock it does not cover would be left behind for good.
CoveredStaysCovered ==
    [][\A n \in Block :
         LET inBlock(locks) == {d \in locks : d.blockNumber = n}
         IN  /\ blockRoots[n] # NoRoot /\ blockRoots'[n] = blockRoots[n]
                /\ Covers(blockRoots[n], megaLockData, inBlock(ToMega))
                => Covers(blockRoots[n], megaLockData', inBlock(ToMega'))
             /\ megaEthBlockRoots[n] # NoRoot
                /\ megaEthBlockRoots'[n] = megaEthBlockRoots[n]
                /\ Covers(megaEthBlockRoots[n], ethLockData, inBlock(ToEth))
                => Covers(megaEthBlockRoots[n], ethLockData', inBlock(ToEth'))]_vars
==============================================================================
