----------------------------- MODULE BridgeProofs -----------------------------
(***************************************************************************)
(* Proofs about the two contracts together, for any tokens, users and      *)
(* blocks: a bridged token is in one place, and what follows from it.      *)
(* Nothing is assumed of the tokens that the collection's owner airdrops   *)
(* on MegaETH: they may be locked in one batch with bridged ones.          *)
(***************************************************************************)
EXTENDS Bridge, EthereumBridgeProofs, MegaEthBridgeProofs

\* The hash of a lock determines its fields.
HashOfFields(d) ==
    /\ d.lockHash[1] = d.tokenId
    /\ d.lockHash[2] = d.owner
    /\ d.lockHash[3] = d.recipient
    /\ d.lockHash[4] = d.blockNumber

\* Two locks with one hash are one lock.
LEMMA SameHashSameLock ==
    ASSUME NEW c \in LockData, NEW d \in LockData, HashOfFields(c), HashOfFields(d),
           c.lockHash = d.lockHash
    PROVE  c = d
<1>1. /\ c.tokenId = d.tokenId /\ c.owner = d.owner /\ c.recipient = d.recipient
      /\ c.blockNumber = d.blockNumber
  BY DEF HashOfFields
<1>2. ASSUME NEW e \in LockData
      PROVE  e = [tokenId |-> e.tokenId, owner |-> e.owner, recipient |-> e.recipient,
                  blockNumber |-> e.blockNumber, lockHash |-> e.lockHash]
  BY DEF LockData
<1> QED
  BY <1>1, <1>2

\* The locks of one call: one owner, one recipient, the current block.
LEMMA CallLocksFields ==
    ASSUME NEW n \in Block, NEW bridge \in {EthBridge, MegaBridge},
           NEW locks, CallLocks(locks, n, bridge)
    PROVE  \E sender \in User, recipient \in Recipient :
             \A d \in locks : /\ d.owner = sender
                              /\ d.recipient = recipient
                              /\ d.blockNumber = n
                              /\ HashOfFields(d)
<1>1. PICK sender \in User, recipient \in Recipient, S \in SUBSET Token :
        \E pos \in [S -> Int] :
            locks = {LockRecord(t, sender, recipient, n, bridge, pos[t]) : t \in S}
  BY DEF CallLocks
<1>2. PICK pos \in [S -> Int] :
        locks = {LockRecord(t, sender, recipient, n, bridge, pos[t]) : t \in S}
  BY <1>1
<1>3. \A t \in S : LET d == LockRecord(t, sender, recipient, n, bridge, pos[t])
                  IN  /\ d.owner = sender
                      /\ d.recipient = recipient
                      /\ d.blockNumber = n
                      /\ HashOfFields(d)
  BY DEF LockRecord, LockHash, HashOfFields
<1> QED
  BY <1>2, <1>3

------------------------------------------------------------------------------
\* TokenInOnePlace in terms of the locks on their way and the free tokens.
OnePlace(toMega, toEth, freeOnEth, freeOnMega) ==
    /\ DistinctTokens(toMega)
    /\ DistinctTokens(toEth)
    /\ Bridged = freeOnEth \cup freeOnMega \cup TokensOf(toMega) \cup TokensOf(toEth)
    /\ freeOnEth \cap (freeOnMega \cup TokensOf(toMega) \cup TokensOf(toEth)) = {}
    /\ freeOnMega \cap (TokensOf(toMega) \cup TokensOf(toEth)) = {}
    /\ TokensOf(toMega) \cap TokensOf(toEth) = {}

FreeOnEth == Bridged \ ethLockedTokens
FreeOnMega == Bridged \cap (activeOnMegaETH \ megaLockedTokens)
InOnePlace == OnePlace(OfBridged(ToMega), OfBridged(ToEth), FreeOnEth, FreeOnMega)

\* The locks of bridged tokens, among all locks of a call or on their way.
LEMMA OfBridgedLocks ==
    ASSUME NEW A, NEW locks
    PROVE  /\ OfBridged(A \cup locks) = OfBridged(A) \cup OfBridged(locks)
           /\ OfBridged(A \ locks) = OfBridged(A) \ OfBridged(locks)
           /\ OfBridged(locks) \subseteq locks
           /\ locks \subseteq A => OfBridged(locks) \subseteq OfBridged(A)
           /\ TokensOf(OfBridged(locks)) = Bridged \cap TokensOf(locks)
           /\ DistinctTokens(locks) => DistinctTokens(OfBridged(locks))
BY DEF OfBridged, TokensOf, DistinctTokens

\* The two chains play the same part.
LEMMA OnePlaceSymmetric ==
    ASSUME NEW A, NEW B, NEW F, NEW G, OnePlace(A, B, F, G)
    PROVE  OnePlace(B, A, G, F)
BY DEF OnePlace

\* Free tokens depart under new locks.
LEMMA OnePlaceDepart ==
    ASSUME NEW A, NEW B, NEW F, NEW G, OnePlace(A, B, F, G),
           NEW locks, DistinctTokens(locks), TokensOf(locks) \subseteq F
    PROVE  OnePlace(A \cup locks, B, F \ TokensOf(locks), G)
<1>1. TokensOf(A \cup locks) = TokensOf(A) \cup TokensOf(locks)
  BY DEF TokensOf
<1>2. TokensOf(A) \cap TokensOf(locks) = {}
  BY DEF OnePlace
<1>3. DistinctTokens(A \cup locks)
  BY <1>2 DEF OnePlace, DistinctTokens, TokensOf
<1> HIDE DEF TokensOf
<1> QED
  BY <1>1, <1>2, <1>3 DEF OnePlace

\* Tokens arrive: their locks are redeemed.
LEMMA OnePlaceArrive ==
    ASSUME NEW A, NEW B, NEW F, NEW G, OnePlace(A, B, F, G),
           NEW locks \in SUBSET A
    PROVE  OnePlace(A \ locks, B, F, G \cup TokensOf(locks))
<1>1. TokensOf(A) = TokensOf(A \ locks) \cup TokensOf(locks)
  BY DEF TokensOf
<1>2. TokensOf(A \ locks) \cap TokensOf(locks) = {}
  BY DEF OnePlace, DistinctTokens, TokensOf
<1>3. DistinctTokens(A \ locks)
  BY DEF OnePlace, DistinctTokens
<1> HIDE DEF TokensOf
<1> QED
  BY <1>1, <1>2, <1>3 DEF OnePlace

\* It is TokenInOnePlace.
LEMMA OnePlaceMeans == TokenInOnePlace <=> InOnePlace
<1>0. /\ TokensOf(OfBridged(ToMega)) = Bridged \cap TokensOf(ToMega)
      /\ TokensOf(OfBridged(ToEth)) = Bridged \cap TokensOf(ToEth)
  BY OfBridgedLocks
<1>1. /\ TokensOf(OfBridged(ToMega)) \subseteq Bridged
      /\ TokensOf(OfBridged(ToEth)) \subseteq Bridged
  BY <1>0
<1>2. /\ \A t \in Bridged : t \in TokensOf(ToMega) <=> t \in TokensOf(OfBridged(ToMega))
      /\ \A t \in Bridged : t \in TokensOf(ToEth) <=> t \in TokensOf(OfBridged(ToEth))
  BY <1>0
<1> HIDE DEF Bridged, OfBridged, TokensOf
<1>3. TokenInOnePlace => InOnePlace
  BY <1>1, <1>2 DEF TokenInOnePlace, InOnePlace, OnePlace, FreeOnEth, FreeOnMega
<1>4. InOnePlace => TokenInOnePlace
  BY <1>1, <1>2 DEF TokenInOnePlace, InOnePlace, OnePlace, FreeOnEth, FreeOnMega
<1> QED
  BY <1>3, <1>4

------------------------------------------------------------------------------
\* Every record and every leaf is of a lock that was made; a posted or
\* processed lock is in a block that is closed.
RecordsTrue ==
    /\ \A d \in ethLockLog \cup megaLockLog : HashOfFields(d) /\ d.recipient # ZeroAddress
    /\ ethLockData \cup megaLockData \subseteq ethLockLog \cup megaLockLog

\* Every leaf of a root is that of a closed lock of its block.
RootsTrue ==
    /\ \A n \in Block : \A leaf \in megaEthBlockRoots[n] :
          \E d \in MegaClosedLocks : leaf = LeafOf(d) /\ d.blockNumber = n
    /\ \A n \in Block : \A leaf \in blockRoots[n] :
          \E d \in EthClosedLocks : leaf = LeafOf(d) /\ d.blockNumber = n

\* Every processed hash is that of a closed lock.
ProcessedTrue ==
    /\ ethProcessedLocks \subseteq HashesOf(MegaClosedLocks)
    /\ megaProcessedLocks \subseteq HashesOf(EthClosedLocks)

\* Only the bridge mints a bridged token.
MintedIsActive == \A t \in Bridged : megaOwnerOf[t] # ZeroAddress => t \in activeOnMegaETH

BridgeInv ==
    /\ EthInv /\ MegaInv
    /\ RecordsTrue /\ RootsTrue /\ ProcessedTrue
    /\ MintedIsActive
    /\ InOnePlace

\* It holds initially.
LEMMA BridgeInitInv == Init => BridgeInv
<1> SUFFICES ASSUME Init PROVE BridgeInv
  OBVIOUS
<1>1. EthInv /\ MegaInv
  BY EthInitInv, MegaInitInv DEF Init
<1>2. RecordsTrue /\ ProcessedTrue /\ MintedIsActive
  BY DEF Init, EthInit, MegaInit, RecordsTrue, ProcessedTrue, MintedIsActive, HashesOf, Bridged
<1>3. RootsTrue
  BY DEF Init, EthInit, MegaInit, RootsTrue, NoRoot
<1>4. InOnePlace
  BY DEF Init, EthInit, MegaInit, InOnePlace, OnePlace, FreeOnEth, FreeOnMega, ToMega,
         ToEth, OfBridged, DistinctTokens, TokensOf
<1> QED
  BY <1>1, <1>2, <1>3, <1>4 DEF BridgeInv

------------------------------------------------------------------------------
\* What the invariant says of the two functions that move tokens.

\* A lock of the current block was not redeemed: redeemed locks are closed.
LEMMA EthHashFresh ==
    ASSUME BridgeInv, NEW d, HashOfFields(d), d.blockNumber = ethBlockNumber
    PROVE  d.lockHash \notin megaProcessedLocks
<1> SUFFICES ASSUME d.lockHash \in megaProcessedLocks PROVE FALSE
  OBVIOUS
<1>1. PICK m \in EthClosedLocks : m.lockHash = d.lockHash
  BY DEF BridgeInv, ProcessedTrue, HashesOf
<1>2. HashOfFields(m) /\ m.blockNumber < ethBlockNumber /\ ethBlockNumber \in Int
  BY MaxBlockAssumption DEF BridgeInv, RecordsTrue, EthClosedLocks, EthInv, EthTypeOK
<1> QED
  BY <1>1, <1>2 DEF HashOfFields

\* A proven lock is a closed lock of the other chain.
LEMMA EthProvenIsReal ==
    ASSUME BridgeInv, NEW d \in ethLockData, EthProven(d)
    PROVE  d \in MegaClosedLocks
<1>1. d \in LockData /\ HashOfFields(d) /\ d.blockNumber \in Block
  BY DEF BridgeInv, RecordsTrue, EthInv, EthTypeOK, LockData
<1>2. PICK m \in MegaClosedLocks : LeafOf(d) = LeafOf(m)
  BY <1>1 DEF BridgeInv, RootsTrue, EthProven
<1>3. m \in LockData /\ HashOfFields(m) /\ m.lockHash = d.lockHash
  BY <1>2 DEF BridgeInv, RecordsTrue, MegaClosedLocks, MegaInv, MegaTypeOK, LeafOf
<1> QED
  BY <1>1, <1>3, SameHashSameLock

\* The locks an unlock redeems were on their way here.
LEMMA EthRedeemsArrivals ==
    ASSUME BridgeInv, NEW locks \in SUBSET ethLockData, EthRelease(locks)
    PROVE  locks \subseteq MegaClosedLocks \cap ToEth
<1> SUFFICES ASSUME NEW d \in locks PROVE d \in MegaClosedLocks \cap ToEth
  OBVIOUS
<1>1. d \in MegaClosedLocks /\ d.lockHash \notin ethProcessedLocks
  BY EthProvenIsReal DEF EthRelease, EthUnlockable, EthRecorded
<1> QED
  BY <1>1 DEF MegaClosedLocks, ToEth

\* A lock of the current block was not redeemed: redeemed locks are closed.
LEMMA MegaHashFresh ==
    ASSUME BridgeInv, NEW d, HashOfFields(d), d.blockNumber = megaBlockNumber
    PROVE  d.lockHash \notin ethProcessedLocks
<1> SUFFICES ASSUME d.lockHash \in ethProcessedLocks PROVE FALSE
  OBVIOUS
<1>1. PICK m \in MegaClosedLocks : m.lockHash = d.lockHash
  BY DEF BridgeInv, ProcessedTrue, HashesOf
<1>2. HashOfFields(m) /\ m.blockNumber < megaBlockNumber /\ megaBlockNumber \in Int
  BY MaxBlockAssumption DEF BridgeInv, RecordsTrue, MegaClosedLocks, MegaInv, MegaTypeOK
<1> QED
  BY <1>1, <1>2 DEF HashOfFields

\* A proven lock is a closed lock of the other chain.
LEMMA MegaProvenIsReal ==
    ASSUME BridgeInv, NEW d \in megaLockData, MegaProven(d)
    PROVE  d \in EthClosedLocks
<1>1. d \in LockData /\ HashOfFields(d) /\ d.blockNumber \in Block
  BY DEF BridgeInv, RecordsTrue, MegaInv, MegaTypeOK, LockData
<1>2. PICK m \in EthClosedLocks : LeafOf(d) = LeafOf(m)
  BY <1>1 DEF BridgeInv, RootsTrue, MegaProven
<1>3. m \in LockData /\ HashOfFields(m) /\ m.lockHash = d.lockHash
  BY <1>2 DEF BridgeInv, RecordsTrue, EthClosedLocks, EthInv, EthTypeOK, LeafOf
<1> QED
  BY <1>1, <1>3, SameHashSameLock

\* The locks an unlock redeems were on their way here.
LEMMA MegaRedeemsArrivals ==
    ASSUME BridgeInv, NEW locks \in SUBSET megaLockData, MegaRelease(locks)
    PROVE  locks \subseteq EthClosedLocks \cap ToMega
<1> SUFFICES ASSUME NEW d \in locks PROVE d \in EthClosedLocks \cap ToMega
  OBVIOUS
<1>1. d \in EthClosedLocks /\ d.lockHash \notin megaProcessedLocks
  BY MegaProvenIsReal DEF MegaRelease, MegaUnlockable, MegaRecorded
<1> QED
  BY <1>1 DEF EthClosedLocks, ToMega

------------------------------------------------------------------------------
\* A lock call sends free tokens on their way.
LEMMA EthTakeLocksKeeps ==
    ASSUME BridgeInv, NEW locks, CallLocks(locks, ethBlockNumber, EthBridge),
           EthTakeLocks(locks),
           UNCHANGED megaVars
    PROVE  /\ BridgeInv'
           /\ ToMega' = ToMega \cup locks /\ ToMega \cap OfBridged(locks) = {}
           /\ ToEth' = ToEth
           /\ TokensOf(OfBridged(locks)) \subseteq FreeOnEth
<1>0. /\ TokensOf(OfBridged(locks)) = Bridged \cap TokensOf(locks)
      /\ OfBridged(ToMega \cup locks) = OfBridged(ToMega) \cup OfBridged(locks)
      /\ OfBridged(locks) \subseteq locks
      /\ DistinctTokens(locks) => DistinctTokens(OfBridged(locks))
  BY OfBridgedLocks
<1>1. /\ locks \subseteq LockData /\ TokensOf(locks) \subseteq Token /\ DistinctTokens(locks)
      /\ \A d \in locks : d.owner \in User
      /\ ethBlockNumber \in Block
  BY CallLocksType DEF EthTakeLocks
<1>2. \A d \in locks :
        HashOfFields(d) /\ d.recipient # ZeroAddress /\ d.blockNumber = ethBlockNumber
  BY <1>1, CallLocksFields DEF EthTakeLocks
<1>3. \A d \in locks : d.lockHash \notin megaProcessedLocks
  BY <1>2, EthHashFresh
<1>4. UNCHANGED <<megaProcessedLocks, ethProcessedLocks, megaLockLog, ethBlockNumber,
                  megaBlockNumber>> /\ ethLockLog' = ethLockLog \cup locks
  BY DEF EthTakeLocks, megaVars
<1>5. ToMega' = ToMega \cup locks /\ ToEth' = ToEth
  BY <1>3, <1>4 DEF ToMega, ToEth
<1>6. TokensOf(OfBridged(locks)) \subseteq FreeOnEth
  BY <1>0, <1>1 DEF EthTakeLocks, FreeOnEth, TokensOf
<1>7. FreeOnEth' = FreeOnEth \ TokensOf(OfBridged(locks)) /\ FreeOnMega' = FreeOnMega
  BY <1>0 DEF EthTakeLocks, megaVars, FreeOnEth, FreeOnMega
<1>8. ToMega \cap OfBridged(locks) = {}
  BY <1>6 DEF BridgeInv, InOnePlace, OnePlace, TokensOf, OfBridged
<1>9. InOnePlace'
  BY <1>1, <1>5, <1>6, <1>7, <1>0, OnePlaceDepart, OnePlaceSymmetric
     DEF BridgeInv, InOnePlace
<1>10. RecordsTrue'
  BY <1>2, <1>4 DEF BridgeInv, RecordsTrue, EthTakeLocks, Store, megaVars
<1>11. EthClosedLocks \subseteq EthClosedLocks' /\ MegaClosedLocks' = MegaClosedLocks
  BY <1>4 DEF EthClosedLocks, MegaClosedLocks
<1>12. RootsTrue' /\ ProcessedTrue'
  BY <1>4, <1>11 DEF BridgeInv, RootsTrue, ProcessedTrue, EthTakeLocks, megaVars, HashesOf
<1>13. MintedIsActive'
  BY DEF BridgeInv, MintedIsActive, megaVars
<1>14. EthInv' /\ MegaInv'
  BY EthTakeLocksInv, MegaOtherInv DEF BridgeInv
<1> QED
  BY <1>5, <1>6, <1>8, <1>9, <1>10, <1>12, <1>13, <1>14 DEF BridgeInv

\* An unlock call frees tokens that were on their way.
LEMMA EthReleaseKeeps ==
    ASSUME BridgeInv, NEW locks \in SUBSET ethLockData, EthRelease(locks),
           UNCHANGED megaVars
    PROVE  /\ BridgeInv'
           /\ locks \subseteq ToEth /\ ToEth' = ToEth \ locks /\ ToMega' = ToMega
<1>0. /\ TokensOf(OfBridged(locks)) = Bridged \cap TokensOf(locks)
      /\ OfBridged(ToEth \ locks) = OfBridged(ToEth) \ OfBridged(locks)
      /\ locks \subseteq ToEth => OfBridged(locks) \subseteq OfBridged(ToEth)
      /\ OfBridged(locks) \subseteq locks
      /\ DistinctTokens(locks) => DistinctTokens(OfBridged(locks))
  BY OfBridgedLocks
<1>1. locks \subseteq MegaClosedLocks /\ locks \subseteq ToEth
  BY EthRedeemsArrivals
<1>2. /\ UNCHANGED <<megaProcessedLocks, ethLockLog, megaLockLog, ethBlockNumber, megaBlockNumber>>
      /\ ethProcessedLocks' = ethProcessedLocks \cup HashesOf(locks)
  BY DEF EthRelease, megaVars
<1>3. ToEth' = ToEth \ locks /\ ToMega' = ToMega
  <2>1. \A d \in ToEth : d.lockHash \in HashesOf(locks) => d \in locks
    <3>1. \A d \in megaLockLog : d \in LockData /\ HashOfFields(d)
      BY DEF BridgeInv, MegaInv, MegaTypeOK, RecordsTrue
    <3> QED
      BY <1>1, <3>1, SameHashSameLock DEF ToEth, HashesOf
  <2> QED
    BY <1>1, <1>2, <2>1 DEF ToMega, ToEth, HashesOf
<1>4. FreeOnEth' = FreeOnEth \cup TokensOf(OfBridged(locks)) /\ FreeOnMega' = FreeOnMega
  <2>1. TokensOf(locks) \subseteq Token
    BY DEF TokensOf, BridgeInv, EthInv, EthTypeOK, LockData
  <2> QED
    BY <1>0, <2>1 DEF EthRelease, EthStillLocked, megaVars, FreeOnEth, FreeOnMega
<1>5. InOnePlace'
  BY <1>1, <1>3, <1>4, <1>0, OnePlaceArrive, OnePlaceSymmetric
     DEF BridgeInv, InOnePlace
<1>6. RecordsTrue'
  BY <1>2 DEF BridgeInv, RecordsTrue, EthRelease, Erase, megaVars
<1>7. EthClosedLocks' = EthClosedLocks /\ MegaClosedLocks' = MegaClosedLocks
  BY <1>2 DEF EthClosedLocks, MegaClosedLocks
<1>8. RootsTrue' /\ ProcessedTrue'
  BY <1>1, <1>2, <1>7 DEF BridgeInv, RootsTrue, ProcessedTrue, EthRelease, megaVars,
                          HashesOf
<1>9. MintedIsActive'
  BY DEF BridgeInv, MintedIsActive, EthRelease, megaVars
<1>10. EthInv' /\ MegaInv'
  BY EthReleaseInv, MegaOtherInv DEF BridgeInv
<1> QED
  BY <1>1, <1>3, <1>5, <1>6, <1>8, <1>9, <1>10 DEF BridgeInv

------------------------------------------------------------------------------
\* A lock call sends free tokens on their way.
LEMMA MegaTakeLocksKeeps ==
    ASSUME BridgeInv, NEW locks, CallLocks(locks, megaBlockNumber, MegaBridge),
           MegaTakeLocks(locks),
           UNCHANGED ethVars
    PROVE  /\ BridgeInv'
           /\ ToEth' = ToEth \cup locks /\ ToEth \cap OfBridged(locks) = {}
           /\ ToMega' = ToMega
           /\ TokensOf(OfBridged(locks)) \subseteq FreeOnMega
<1>0. /\ TokensOf(OfBridged(locks)) = Bridged \cap TokensOf(locks)
      /\ OfBridged(ToEth \cup locks) = OfBridged(ToEth) \cup OfBridged(locks)
      /\ OfBridged(locks) \subseteq locks
      /\ DistinctTokens(locks) => DistinctTokens(OfBridged(locks))
  BY OfBridgedLocks
<1>1. /\ locks \subseteq LockData /\ TokensOf(locks) \subseteq Token /\ DistinctTokens(locks)
      /\ \A d \in locks : d.owner \in User
      /\ megaBlockNumber \in Block
  BY CallLocksType DEF MegaTakeLocks
<1>2. \A d \in locks :
        HashOfFields(d) /\ d.recipient # ZeroAddress /\ d.blockNumber = megaBlockNumber
  BY <1>1, CallLocksFields DEF MegaTakeLocks
<1>3. \A d \in locks : d.lockHash \notin ethProcessedLocks
  BY <1>2, MegaHashFresh
<1>4. UNCHANGED <<ethProcessedLocks, megaProcessedLocks, ethLockLog, megaBlockNumber,
                  ethBlockNumber>> /\ megaLockLog' = megaLockLog \cup locks
  BY DEF MegaTakeLocks, ethVars
<1>5. ToEth' = ToEth \cup locks /\ ToMega' = ToMega
  BY <1>3, <1>4 DEF ToMega, ToEth
<1>6. TokensOf(OfBridged(locks)) \subseteq FreeOnMega
  <2>1. \A d \in locks : /\ d.tokenId \in Token /\ d.tokenId \notin megaLockedTokens
                        /\ megaOwnerOf[d.tokenId] # ZeroAddress
    BY <1>1, AddressAssumption DEF MegaTakeLocks, LockData
  <2>2. \A t \in Bridged \cap TokensOf(locks) : t \in FreeOnMega
    BY <2>1 DEF FreeOnMega, TokensOf, BridgeInv, MintedIsActive
  <2> QED
    BY <1>0, <2>2
<1>7. FreeOnMega' = FreeOnMega \ TokensOf(OfBridged(locks)) /\ FreeOnEth' = FreeOnEth
  BY <1>0 DEF MegaTakeLocks, ethVars, FreeOnEth, FreeOnMega
<1>8. ToEth \cap OfBridged(locks) = {}
  <2>1. TokensOf(OfBridged(ToEth)) \cap TokensOf(OfBridged(locks)) = {}
    BY <1>6 DEF BridgeInv, InOnePlace, OnePlace
  <2> QED
    BY <2>1 DEF TokensOf, OfBridged
<1>9. InOnePlace'
  BY <1>1, <1>5, <1>6, <1>7, <1>0, OnePlaceDepart, OnePlaceSymmetric
     DEF BridgeInv, InOnePlace
<1>10. RecordsTrue'
  BY <1>2, <1>4 DEF BridgeInv, RecordsTrue, MegaTakeLocks, Store, ethVars
<1>11. MegaClosedLocks \subseteq MegaClosedLocks' /\ EthClosedLocks' = EthClosedLocks
  BY <1>4 DEF EthClosedLocks, MegaClosedLocks
<1>12. RootsTrue' /\ ProcessedTrue'
  BY <1>4, <1>11 DEF BridgeInv, RootsTrue, ProcessedTrue, MegaTakeLocks, ethVars, HashesOf
<1>13. MintedIsActive'
  <2>1. \A t \in Bridged \cap TokensOf(locks) : t \in activeOnMegaETH
    BY <1>0, <1>6 DEF FreeOnMega
  <2> QED
    BY <2>1 DEF BridgeInv, MintedIsActive, MegaTakeLocks, Bridged
<1>14. EthInv' /\ MegaInv'
  BY MegaTakeLocksInv, EthOtherInv DEF BridgeInv
<1> QED
  BY <1>5, <1>6, <1>8, <1>9, <1>10, <1>12, <1>13, <1>14 DEF BridgeInv

\* An unlock call frees tokens that were on their way.
LEMMA MegaReleaseKeeps ==
    ASSUME BridgeInv, NEW locks \in SUBSET megaLockData, MegaRelease(locks),
           UNCHANGED ethVars
    PROVE  /\ BridgeInv'
           /\ locks \subseteq ToMega /\ ToMega' = ToMega \ locks /\ ToEth' = ToEth
<1>0. /\ TokensOf(OfBridged(locks)) = Bridged \cap TokensOf(locks)
      /\ OfBridged(ToMega \ locks) = OfBridged(ToMega) \ OfBridged(locks)
      /\ locks \subseteq ToMega => OfBridged(locks) \subseteq OfBridged(ToMega)
      /\ OfBridged(locks) \subseteq locks
      /\ DistinctTokens(locks) => DistinctTokens(OfBridged(locks))
  BY OfBridgedLocks
<1>1. locks \subseteq EthClosedLocks /\ locks \subseteq ToMega
  BY MegaRedeemsArrivals
<1>2. /\ UNCHANGED <<ethProcessedLocks, megaLockLog, ethLockLog, megaBlockNumber, ethBlockNumber>>
      /\ megaProcessedLocks' = megaProcessedLocks \cup HashesOf(locks)
  BY DEF MegaRelease, ethVars
<1>3. ToMega' = ToMega \ locks /\ ToEth' = ToEth
  <2>1. \A d \in ToMega : d.lockHash \in HashesOf(locks) => d \in locks
    <3>1. \A d \in ethLockLog : d \in LockData /\ HashOfFields(d)
      BY DEF BridgeInv, EthInv, EthTypeOK, RecordsTrue
    <3> QED
      BY <1>1, <3>1, SameHashSameLock DEF ToMega, HashesOf
  <2> QED
    BY <1>1, <1>2, <2>1 DEF ToMega, ToEth, HashesOf
<1>4. FreeOnMega' = FreeOnMega \cup TokensOf(OfBridged(locks)) /\ FreeOnEth' = FreeOnEth
  BY <1>0 DEF MegaRelease, ethVars, FreeOnEth, FreeOnMega
<1>5. InOnePlace'
  BY <1>1, <1>3, <1>4, <1>0, OnePlaceArrive, OnePlaceSymmetric
     DEF BridgeInv, InOnePlace
<1>6. RecordsTrue'
  BY <1>2 DEF BridgeInv, RecordsTrue, MegaRelease, Erase, ethVars
<1>7. EthClosedLocks' = EthClosedLocks /\ MegaClosedLocks' = MegaClosedLocks
  BY <1>2 DEF EthClosedLocks, MegaClosedLocks
<1>8. RootsTrue' /\ ProcessedTrue'
  BY <1>1, <1>2, <1>7 DEF BridgeInv, RootsTrue, ProcessedTrue, MegaRelease, ethVars,
                          HashesOf
<1>9. MintedIsActive'
  BY DEF BridgeInv, MintedIsActive, MegaRelease, Bridged, ethVars
<1>10. EthInv' /\ MegaInv'
  BY MegaReleaseInv, EthOtherInv DEF BridgeInv
<1> QED
  BY <1>1, <1>3, <1>5, <1>6, <1>8, <1>9, <1>10 DEF BridgeInv

------------------------------------------------------------------------------
\* The submitter records closed locks under a root of closed locks.
LEMMA EthSetRootKeeps ==
    ASSUME BridgeInv, NEW caller, NEW n \in Block, NEW leaves \in SUBSET MegaClosedLocks,
           NEW locks \in SUBSET MegaClosedLocks, KeyedByHash(locks),
           \A d \in leaves : d.blockNumber = n,
           SetMegaEthBlockRoot(caller, n, RootOf(leaves), locks), UNCHANGED megaVars
    PROVE  BridgeInv' /\ ToMega' = ToMega /\ ToEth' = ToEth
<1>1. UNCHANGED <<ethLockedTokens, ethProcessedLocks, ethLockLog, ethBlockNumber, megaOwnerOf,
                  activeOnMegaETH, megaLockedTokens, megaProcessedLocks, megaLockLog,
                  megaBlockNumber>>
  BY DEF SetMegaEthBlockRoot, megaVars
<1>2. ToMega' = ToMega /\ ToEth' = ToEth /\ FreeOnEth' = FreeOnEth /\ FreeOnMega' = FreeOnMega
  BY <1>1 DEF ToMega, ToEth, FreeOnEth, FreeOnMega
<1>3. EthClosedLocks' = EthClosedLocks /\ MegaClosedLocks' = MegaClosedLocks
  BY <1>1 DEF EthClosedLocks, MegaClosedLocks
<1>4. InOnePlace' /\ ProcessedTrue' /\ MintedIsActive'
  BY <1>1, <1>2, <1>3 DEF BridgeInv, InOnePlace, ProcessedTrue, MintedIsActive
<1>5. RecordsTrue'
  <2>1. locks \subseteq ethLockLog \cup megaLockLog
    BY DEF EthClosedLocks, MegaClosedLocks
  <2> QED
    BY <1>1, <2>1 DEF BridgeInv, RecordsTrue, SetMegaEthBlockRoot, Store, megaVars
<1>6. RootsTrue'
  <2>1. \A leaf \in RootOf(leaves) : \E d \in MegaClosedLocks : leaf = LeafOf(d) /\ d.blockNumber = n
    BY DEF RootOf
  <2>2. megaEthBlockRoots' = [megaEthBlockRoots EXCEPT ![n] = RootOf(leaves)]
    BY DEF SetMegaEthBlockRoot
  <2>3. \A m \in Block : m # n => megaEthBlockRoots'[m] = megaEthBlockRoots[m]
    BY <2>2 DEF BridgeInv, EthInv, EthTypeOK
  <2>4. megaEthBlockRoots'[n] = RootOf(leaves)
    BY <2>2 DEF BridgeInv, EthInv, EthTypeOK
  <2> QED
    BY <1>3, <2>1, <2>3, <2>4 DEF BridgeInv, RootsTrue, SetMegaEthBlockRoot, megaVars
<1>7. EthInv' /\ MegaInv'
  <2>1. leaves \subseteq LockData /\ locks \subseteq LockData
    BY DEF MegaClosedLocks, BridgeInv, MegaInv, MegaTypeOK
  <2> QED
    BY <2>1, EthSetRootInv, MegaOtherInv DEF BridgeInv
<1> QED
  BY <1>2, <1>4, <1>5, <1>6, <1>7 DEF BridgeInv

\* Every other call leaves locks, hashes and records alone.
EthQuiet ==
    \/ \E t \in Token, to \in Recipient : EthTransfer(t, to)
    \/ EthMineBlock
    \/ \E n \in Block : ClearMegaEthBlockRoot(n)
    \/ \E paused \in BOOLEAN : EthSetPaused(paused)
    \/ \E new \in Submitter : EthSetRootSubmitter(new)
    \/ UNCHANGED ethVars

\* They preserve the invariant and leave the locks on their way as they are.
LEMMA EthQuietKeeps ==
    ASSUME BridgeInv, EthQuiet, UNCHANGED megaVars
    PROVE  BridgeInv' /\ ToMega' = ToMega /\ ToEth' = ToEth
<1>1. UNCHANGED <<ethLockedTokens, ethProcessedLocks, ethLockData, ethLockLog, activeOnMegaETH,
                  megaLockedTokens, megaProcessedLocks, megaLockData, megaLockLog>>
  BY DEF EthQuiet, EthTransfer, EthMineBlock, ClearMegaEthBlockRoot, EthSetPaused,
         EthSetRootSubmitter, ethVars, megaVars
<1>2. ToMega' = ToMega /\ ToEth' = ToEth /\ FreeOnEth' = FreeOnEth /\ FreeOnMega' = FreeOnMega
  BY <1>1 DEF ToMega, ToEth, FreeOnEth, FreeOnMega
<1>3. EthClosedLocks \subseteq EthClosedLocks' /\ MegaClosedLocks \subseteq MegaClosedLocks'
  <2>1. ethBlockNumber' = ethBlockNumber \/ ethBlockNumber' = ethBlockNumber + 1
    BY DEF EthQuiet, EthTransfer, EthMineBlock, ClearMegaEthBlockRoot, EthSetPaused,
           EthSetRootSubmitter, ethVars
  <2>2. ethBlockNumber \in Int /\ \A d \in ethLockLog : d.blockNumber \in Int
    BY MaxBlockAssumption DEF BridgeInv, EthInv, EthTypeOK, LockData, Block
  <2> QED
    BY <1>1, <2>1, <2>2 DEF EthClosedLocks, MegaClosedLocks, megaVars
<1>4. InOnePlace' /\ RecordsTrue'
  BY <1>1, <1>2 DEF BridgeInv, InOnePlace, RecordsTrue
<1>5. ProcessedTrue'
  BY <1>1, <1>3 DEF BridgeInv, ProcessedTrue, HashesOf
<1>6. RootsTrue'
  <2>1. \A n \in Block : megaEthBlockRoots'[n] \subseteq megaEthBlockRoots[n]
    BY DEF EthQuiet, EthTransfer, EthMineBlock, ClearMegaEthBlockRoot, EthClearable,
           EthSetPaused, EthSetRootSubmitter,
           ethVars, BridgeInv, EthInv, EthTypeOK, NoRoot
  <2> QED
    BY <1>3, <2>1 DEF BridgeInv, RootsTrue, megaVars
<1>7. MintedIsActive'
  BY DEF BridgeInv, MintedIsActive, megaVars
<1>8. EthInv' /\ MegaInv'
  BY EthTransferInv, EthClearRootInv, EthOtherInv, MegaOtherInv DEF BridgeInv, EthQuiet
<1> QED
  BY <1>2, <1>4, <1>5, <1>6, <1>7, <1>8 DEF BridgeInv

------------------------------------------------------------------------------
\* The submitter records closed locks under a root of closed locks.
LEMMA MegaSetRootKeeps ==
    ASSUME BridgeInv, NEW caller, NEW n \in Block, NEW leaves \in SUBSET EthClosedLocks,
           NEW locks \in SUBSET EthClosedLocks, KeyedByHash(locks),
           \A d \in leaves : d.blockNumber = n,
           SetBlockRoot(caller, n, RootOf(leaves), locks), UNCHANGED ethVars
    PROVE  BridgeInv' /\ ToMega' = ToMega /\ ToEth' = ToEth
<1>1. UNCHANGED <<ethLockedTokens, ethProcessedLocks, ethLockLog, ethBlockNumber, megaOwnerOf,
                  activeOnMegaETH, megaLockedTokens, megaProcessedLocks, megaLockLog,
                  megaBlockNumber>>
  BY DEF SetBlockRoot, ethVars
<1>2. ToMega' = ToMega /\ ToEth' = ToEth /\ FreeOnEth' = FreeOnEth /\ FreeOnMega' = FreeOnMega
  BY <1>1 DEF ToMega, ToEth, FreeOnEth, FreeOnMega
<1>3. EthClosedLocks' = EthClosedLocks /\ MegaClosedLocks' = MegaClosedLocks
  BY <1>1 DEF EthClosedLocks, MegaClosedLocks
<1>4. InOnePlace' /\ ProcessedTrue' /\ MintedIsActive'
  BY <1>1, <1>2, <1>3 DEF BridgeInv, InOnePlace, ProcessedTrue, MintedIsActive
<1>5. RecordsTrue'
  <2>1. locks \subseteq ethLockLog \cup megaLockLog
    BY DEF EthClosedLocks, MegaClosedLocks
  <2> QED
    BY <1>1, <2>1 DEF BridgeInv, RecordsTrue, SetBlockRoot, Store, ethVars
<1>6. RootsTrue'
  <2>1. \A leaf \in RootOf(leaves) : \E d \in EthClosedLocks : leaf = LeafOf(d) /\ d.blockNumber = n
    BY DEF RootOf
  <2>2. blockRoots' = [blockRoots EXCEPT ![n] = RootOf(leaves)]
    BY DEF SetBlockRoot
  <2>3. \A m \in Block : m # n => blockRoots'[m] = blockRoots[m]
    BY <2>2 DEF BridgeInv, MegaInv, MegaTypeOK
  <2>4. blockRoots'[n] = RootOf(leaves)
    BY <2>2 DEF BridgeInv, MegaInv, MegaTypeOK
  <2> QED
    BY <1>3, <2>1, <2>3, <2>4 DEF BridgeInv, RootsTrue, SetBlockRoot, ethVars
<1>7. EthInv' /\ MegaInv'
  <2>1. leaves \subseteq LockData /\ locks \subseteq LockData
    BY DEF EthClosedLocks, BridgeInv, EthInv, EthTypeOK
  <2> QED
    BY <2>1, MegaSetRootInv, EthOtherInv DEF BridgeInv
<1> QED
  BY <1>2, <1>4, <1>5, <1>6, <1>7 DEF BridgeInv

\* Every other call leaves locks, hashes and records alone.
MegaQuiet ==
    \/ \E t \in Token, to \in Recipient : MegaTransfer(t, to)
    \/ \E t \in Airdrop, to \in User : MegaAirdrop(t, to)
    \/ MegaMineBlock
    \/ \E n \in Block : ClearBlockRoot(n)
    \/ \E paused \in BOOLEAN : MegaSetPaused(paused)
    \/ \E new \in Submitter : MegaSetRootSubmitter(new)
    \/ UNCHANGED megaVars

\* They preserve the invariant and leave the locks on their way as they are.
LEMMA MegaQuietKeeps ==
    ASSUME BridgeInv, MegaQuiet, UNCHANGED ethVars
    PROVE  BridgeInv' /\ ToMega' = ToMega /\ ToEth' = ToEth
<1>1. UNCHANGED <<ethLockedTokens, ethProcessedLocks, ethLockData, ethLockLog, activeOnMegaETH,
                  megaLockedTokens, megaProcessedLocks, megaLockData, megaLockLog>>
  BY DEF MegaQuiet, MegaTransfer, MegaAirdrop, MegaMineBlock, ClearBlockRoot,
           MegaSetPaused,
         MegaSetRootSubmitter, ethVars, megaVars
<1>2. ToMega' = ToMega /\ ToEth' = ToEth /\ FreeOnEth' = FreeOnEth /\ FreeOnMega' = FreeOnMega
  BY <1>1 DEF ToMega, ToEth, FreeOnEth, FreeOnMega
<1>3. EthClosedLocks \subseteq EthClosedLocks' /\ MegaClosedLocks \subseteq MegaClosedLocks'
  <2>1. megaBlockNumber' = megaBlockNumber \/ megaBlockNumber' = megaBlockNumber + 1
    BY DEF MegaQuiet, MegaTransfer, MegaAirdrop, MegaMineBlock, ClearBlockRoot,
           MegaSetPaused,
           MegaSetRootSubmitter, megaVars
  <2>2. megaBlockNumber \in Int /\ \A d \in megaLockLog : d.blockNumber \in Int
    BY MaxBlockAssumption DEF BridgeInv, MegaInv, MegaTypeOK, LockData, Block
  <2> QED
    BY <1>1, <2>1, <2>2 DEF EthClosedLocks, MegaClosedLocks, ethVars
<1>4. InOnePlace' /\ RecordsTrue'
  BY <1>1, <1>2 DEF BridgeInv, InOnePlace, RecordsTrue
<1>5. ProcessedTrue'
  BY <1>1, <1>3 DEF BridgeInv, ProcessedTrue, HashesOf
<1>6. RootsTrue'
  <2>1. \A n \in Block : blockRoots'[n] \subseteq blockRoots[n]
    BY DEF MegaQuiet, MegaTransfer, MegaAirdrop, MegaMineBlock, ClearBlockRoot, MegaClearable,
           MegaSetPaused, MegaSetRootSubmitter,
           megaVars, BridgeInv, MegaInv, MegaTypeOK, NoRoot
  <2> QED
    BY <1>3, <2>1 DEF BridgeInv, RootsTrue, ethVars
<1>7. MintedIsActive'
  <2>1. \A t \in Bridged : megaOwnerOf'[t] # ZeroAddress => megaOwnerOf[t] # ZeroAddress
    BY AddressAssumption
       DEF MegaQuiet, MegaTransfer, MegaAirdrop, MegaMineBlock, ClearBlockRoot,
           MegaSetPaused,
           MegaSetRootSubmitter, megaVars, BridgeInv, MegaInv, MegaTypeOK, Bridged
  <2> QED
    BY <1>1, <2>1 DEF BridgeInv, MintedIsActive
<1>8. EthInv' /\ MegaInv'
  BY MegaTransferInv, MegaAirdropInv, MegaClearRootInv, MegaOtherInv, EthOtherInv
     DEF BridgeInv, MegaQuiet
<1> QED
  BY <1>2, <1>4, <1>5, <1>6, <1>7, <1>8 DEF BridgeInv

------------------------------------------------------------------------------
\* Every step of the two contracts is one of these.
EthCall ==
    /\ UNCHANGED megaVars
    /\ \/ \E locks : CallLocks(locks, ethBlockNumber, EthBridge) /\ EthTakeLocks(locks)
       \/ \E locks \in SUBSET ethLockData : EthRelease(locks)
       \/ \E caller \in Submitter, n \in Block, leaves \in SUBSET MegaClosedLocks,
             locks \in SUBSET MegaClosedLocks :
             /\ \A d \in leaves : d.blockNumber = n
             /\ KeyedByHash(locks)
             /\ SetMegaEthBlockRoot(caller, n, RootOf(leaves), locks)
       \/ EthQuiet

MegaCall ==
    /\ UNCHANGED ethVars
    /\ \/ \E locks : CallLocks(locks, megaBlockNumber, MegaBridge) /\ MegaTakeLocks(locks)
       \/ \E locks \in SUBSET megaLockData : MegaRelease(locks)
       \/ \E caller \in Submitter, n \in Block, leaves \in SUBSET EthClosedLocks,
             locks \in SUBSET EthClosedLocks :
             /\ \A d \in leaves : d.blockNumber = n
             /\ KeyedByHash(locks)
             /\ SetBlockRoot(caller, n, RootOf(leaves), locks)
       \/ MegaQuiet

\* Nothing else happens.
LEMMA BridgeStepKinds ==
    ASSUME BridgeInv, [Next]_vars
    PROVE  EthCall \/ MegaCall
<1>1. EthClosedLocks \subseteq LockData /\ MegaClosedLocks \subseteq LockData
  BY DEF BridgeInv, EthInv, EthTypeOK, MegaInv, MegaTypeOK, EthClosedLocks,
         MegaClosedLocks
<1>2. CASE EthStep
  BY <1>1, <1>2, EthStepKinds DEF EthStep, EthCall, EthQuiet
<1>3. CASE MegaStep
  BY <1>1, <1>3, MegaStepKinds DEF MegaStep, MegaCall, MegaQuiet
<1>4. CASE UNCHANGED vars
  BY <1>4 DEF vars, EthCall, EthQuiet
<1> QED
  BY <1>2, <1>3, <1>4 DEF Next

\* Every step preserves the invariant.
LEMMA BridgeStepInv ==
    ASSUME BridgeInv, [Next]_vars
    PROVE  BridgeInv'
<1>1. CASE EthCall
  BY <1>1, EthTakeLocksKeeps, EthReleaseKeeps, EthSetRootKeeps, EthQuietKeeps DEF EthCall
<1>2. CASE MegaCall
  BY <1>2, MegaTakeLocksKeeps, MegaReleaseKeeps, MegaSetRootKeeps, MegaQuietKeeps
     DEF MegaCall
<1> QED
  BY <1>1, <1>2, BridgeStepKinds

\* The invariant holds in every reachable state of the bridge.
THEOREM BridgeInvariant == Spec => []BridgeInv
<1>1. Init => BridgeInv
  BY BridgeInitInv
<1>2. BridgeInv /\ [Next]_vars => BridgeInv'
  BY BridgeStepInv
<1> QED
  BY <1>1, <1>2, PTL DEF Spec

\* Every bridged token is in exactly one place, whatever is airdropped.
THEOREM TokensInOnePlace == Spec => []TokenInOnePlace
<1>1. BridgeInv => TokenInOnePlace
  BY OnePlaceMeans DEF BridgeInv, EthInv, MegaInv
<1> QED
  BY <1>1, BridgeInvariant, PTL

\* The remaining requires and the transfer of an unlock of a proven lock of a
\* bridged token cannot fail.
THEOREM ProvenLocksRedeemable == Spec => []ProvenLockRedeemable
<1>1. ASSUME BridgeInv PROVE ProvenLockRedeemable
  <2>1. ASSUME NEW d \in OfBridged(ethLockData), EthProven(d), d \in ToEth
        PROVE  EthUnlockable(d)
    <3>1. d.lockHash \notin ethProcessedLocks /\ d.recipient # ZeroAddress /\ d.tokenId \in Bridged
      BY <1>1, <2>1 DEF OfBridged, ToEth, BridgeInv, RecordsTrue, MegaInv, MegaTypeOK, LockData
    <3>2. d.tokenId \in ethLockedTokens
      BY <1>1, <2>1, <3>1 DEF BridgeInv, InOnePlace, OnePlace, TokensOf, OfBridged, FreeOnEth
    <3> QED
      BY <1>1, <2>1, <3>1, <3>2
         DEF EthUnlockable, EthRecorded, EthReleasable, BridgeInv, EthInv, EthLockedIsHeld,
             OfBridged
  <2>2. ASSUME NEW d \in OfBridged(megaLockData), MegaProven(d), d \in ToMega
        PROVE  \/ MegaUnlockable(d)
               \/ d.recipient = MegaBridge /\ d.tokenId \notin activeOnMegaETH
    <3>1. d.lockHash \notin megaProcessedLocks /\ d.recipient \in Address /\ d.tokenId \in Bridged
      BY <1>1, <2>2 DEF OfBridged, ToMega, BridgeInv, RecordsTrue, EthInv, EthTypeOK, LockData
    <3>2. d.tokenId \in activeOnMegaETH => d.tokenId \in megaLockedTokens
      BY <1>1, <2>2, <3>1 DEF BridgeInv, InOnePlace, OnePlace, TokensOf, OfBridged, FreeOnMega
    <3>3. d.recipient # ZeroAddress
      BY <3>1, AddressAssumption DEF Address
    <3>4. CASE d.tokenId \in activeOnMegaETH
      BY <1>1, <2>2, <3>1, <3>2, <3>3, <3>4
         DEF MegaUnlockable, MegaRecorded, MegaReturnable, BridgeInv, MegaInv, MegaLockedIsHeld,
             OfBridged
    <3>5. CASE d.tokenId \notin activeOnMegaETH
      BY <1>1, <2>2, <3>1, <3>5
         DEF MegaUnlockable, MegaRecorded, MegaMintable, BridgeInv, MintedIsActive, OfBridged
    <3> QED
      BY <3>4, <3>5
  <2> QED
    BY <2>1, <2>2 DEF ProvenLockRedeemable
<1> QED
  BY <1>1, BridgeInvariant, PTL
------------------------------------------------------------------------------
\* Tokens are newly locked only by new locks.
LEMMA EthNewLockLogged ==
    ASSUME BridgeInv, [Next]_vars,
           NEW t \in Bridged, t \in ethLockedTokens' \ ethLockedTokens
    PROVE  \E d \in ethLockLog' \ ethLockLog : d.tokenId = t
<1>1. PICK locks : /\ CallLocks(locks, ethBlockNumber, EthBridge) /\ EthTakeLocks(locks)
                   /\ UNCHANGED megaVars
  <2>1. ~UNCHANGED ethLockedTokens
    OBVIOUS
  <2>2. ASSUME NEW locks, EthRelease(locks) PROVE ethLockedTokens' \subseteq ethLockedTokens
    BY <2>2 DEF EthRelease, EthStillLocked
  <2>3. EthQuiet => UNCHANGED ethLockedTokens
    BY DEF EthQuiet, EthTransfer, EthMineBlock, ClearMegaEthBlockRoot, EthSetPaused,
           EthSetRootSubmitter, ethVars
  <2>4. EthCall
    BY <2>1, BridgeStepKinds DEF MegaCall, ethVars
  <2> QED
    BY <2>1, <2>2, <2>3, <2>4 DEF EthCall, SetMegaEthBlockRoot
<1>2. ToMega \cap OfBridged(locks) = {}
  BY <1>1, EthTakeLocksKeeps
<1>3. \A d \in locks : d.lockHash \notin megaProcessedLocks
  BY <1>1, CallLocksFields, EthHashFresh DEF EthTakeLocks
<1>4. OfBridged(locks) \subseteq ethLockLog' /\ OfBridged(locks) \cap ethLockLog = {}
  BY <1>1, <1>2, <1>3 DEF EthTakeLocks, ToMega, OfBridged
<1> QED
  BY <1>1, <1>4 DEF EthTakeLocks, TokensOf, OfBridged

\* Tokens are newly locked only by new locks.
LEMMA MegaNewLockLogged ==
    ASSUME BridgeInv, [Next]_vars,
           NEW t \in Bridged, t \in megaLockedTokens' \ megaLockedTokens
    PROVE  \E d \in megaLockLog' \ megaLockLog : d.tokenId = t
<1>1. PICK locks : /\ CallLocks(locks, megaBlockNumber, MegaBridge) /\ MegaTakeLocks(locks)
                   /\ UNCHANGED ethVars
  <2>1. ~UNCHANGED megaLockedTokens
    OBVIOUS
  <2>2. ASSUME NEW locks, MegaRelease(locks) PROVE megaLockedTokens' \subseteq megaLockedTokens
    BY <2>2 DEF MegaRelease
  <2>3. MegaQuiet => UNCHANGED megaLockedTokens
    BY DEF MegaQuiet, MegaTransfer, MegaAirdrop, MegaMineBlock, ClearBlockRoot,
           MegaSetPaused,
           MegaSetRootSubmitter, megaVars
  <2>4. MegaCall
    BY <2>1, BridgeStepKinds DEF EthCall, megaVars
  <2> QED
    BY <2>1, <2>2, <2>3, <2>4 DEF MegaCall, SetBlockRoot
<1>2. ToEth \cap OfBridged(locks) = {}
  BY <1>1, MegaTakeLocksKeeps
<1>3. \A d \in locks : d.lockHash \notin ethProcessedLocks
  BY <1>1, CallLocksFields, MegaHashFresh DEF MegaTakeLocks
<1>4. OfBridged(locks) \subseteq megaLockLog' /\ OfBridged(locks) \cap megaLockLog = {}
  BY <1>1, <1>2, <1>3 DEF MegaTakeLocks, ToEth, OfBridged
<1> QED
  BY <1>1, <1>4 DEF MegaTakeLocks, TokensOf, OfBridged

\* The hash of a new lock was not redeemed before, and of a bridged token not
\* used before either.
THEOREM HashesFresh == Spec => LockHashesFresh
<1> DEFINE Fresh ==
             /\ \A d \in ethLockLog' :
                   (d.tokenId \in ethLockedTokens' \ ethLockedTokens
                      /\ d.blockNumber = ethBlockNumber)
                   => d.lockHash \notin megaProcessedLocks
             /\ \A d \in megaLockLog' :
                   (d.tokenId \in megaLockedTokens' \ megaLockedTokens
                      /\ d.blockNumber = megaBlockNumber)
                   => d.lockHash \notin ethProcessedLocks
             /\ \A t \in Bridged \cap (ethLockedTokens' \ ethLockedTokens) :
                   \E d \in ethLockLog' \ ethLockLog : d.tokenId = t
             /\ \A t \in Bridged \cap (megaLockedTokens' \ megaLockedTokens) :
                   \E d \in megaLockLog' \ megaLockLog : d.tokenId = t
<1>1. ASSUME BridgeInv, [Next]_vars PROVE Fresh
  <2>1. \A d \in ethLockLog' \cup megaLockLog' : HashOfFields(d)
    BY <1>1, BridgeStepInv DEF BridgeInv, RecordsTrue
  <2> QED
    BY <1>1, <2>1, EthHashFresh, MegaHashFresh, EthNewLockLogged, MegaNewLockLogged
<1>2. BridgeInv /\ [Next]_vars => [Fresh]_vars
  BY <1>1
<1> QED
  BY <1>2, BridgeInvariant, PTL DEF Spec, LockHashesFresh

------------------------------------------------------------------------------
\* No lock joins a block that has a root on MegaETH.
LEMMA MegaNoLateArrival ==
    ASSUME BridgeInv, [Next]_vars, NEW n \in Block, blockRoots[n] # NoRoot,
           NEW d \in ToMega', d.blockNumber = n
    PROVE  d \in ToMega
<1>1. n < ethBlockNumber /\ ethBlockNumber \in Int
  BY MaxBlockAssumption
     DEF BridgeInv, RootsTrue, NoRoot, EthClosedLocks, EthInv, EthTypeOK
<1>2. \A e \in ToMega' \ ToMega : e.blockNumber = ethBlockNumber
  <2>1. ASSUME NEW locks, CallLocks(locks, ethBlockNumber, EthBridge), EthTakeLocks(locks),
               UNCHANGED megaVars
        PROVE  ToMega' = ToMega \cup locks /\ \A e \in locks : e.blockNumber = ethBlockNumber
    BY <2>1, EthTakeLocksKeeps, CallLocksType DEF EthTakeLocks
  <2>2. CASE EthCall
    BY <2>1, <2>2, EthReleaseKeeps, EthSetRootKeeps, EthQuietKeeps DEF EthCall
  <2>3. CASE MegaCall
    BY <2>3, MegaTakeLocksKeeps, MegaReleaseKeeps, MegaSetRootKeeps, MegaQuietKeeps
       DEF MegaCall
  <2> QED
    BY <2>2, <2>3, BridgeStepKinds
<1> QED
  BY <1>1, <1>2

\* A record stays until its lock is redeemed.
LEMMA MegaRecordStays ==
    ASSUME BridgeInv, [Next]_vars, NEW d \in megaLockData,
           d.lockHash \notin megaProcessedLocks'
    PROVE  d \in megaLockData'
<1>1. d \in LockData /\ HashOfFields(d)
  BY DEF BridgeInv, MegaInv, MegaTypeOK, RecordsTrue
<1>2. ASSUME NEW locks \in SUBSET LockData, \A c \in locks : HashOfFields(c),
             megaLockData' = Store(megaLockData, locks)
      PROVE  d \in megaLockData'
  BY <1>1, <1>2, SameHashSameLock DEF Store, HashesOf
<1>3. ASSUME NEW locks, CallLocks(locks, megaBlockNumber, MegaBridge), MegaTakeLocks(locks)
      PROVE  d \in megaLockData'
  BY <1>2, <1>3, CallLocksType, CallLocksFields DEF MegaTakeLocks
<1>4. ASSUME NEW caller, NEW n, NEW root, NEW locks \in SUBSET EthClosedLocks,
             SetBlockRoot(caller, n, root, locks)
      PROVE  d \in megaLockData'
  <2>1. locks \subseteq LockData /\ \A c \in locks : HashOfFields(c)
    BY DEF BridgeInv, EthInv, EthTypeOK, RecordsTrue, EthClosedLocks
  <2> QED
    BY <1>2, <1>4, <2>1 DEF SetBlockRoot
<1>5. ASSUME NEW locks, MegaRelease(locks) PROVE d \in megaLockData'
  BY <1>5 DEF MegaRelease, Erase
<1>6. ASSUME MegaQuiet PROVE d \in megaLockData'
  BY <1>6 DEF MegaQuiet, MegaTransfer, MegaAirdrop, MegaMineBlock, ClearBlockRoot,
           MegaSetPaused,
              MegaSetRootSubmitter, megaVars
<1>7. CASE MegaCall
  BY <1>3, <1>4, <1>5, <1>6, <1>7 DEF MegaCall
<1>8. CASE EthCall
  BY <1>8 DEF EthCall, megaVars
<1> QED
  BY <1>7, <1>8, BridgeStepKinds

\* No lock joins a block that has a root on Ethereum.
LEMMA EthNoLateArrival ==
    ASSUME BridgeInv, [Next]_vars, NEW n \in Block,
           megaEthBlockRoots[n] # NoRoot,
           NEW d \in ToEth', d.blockNumber = n
    PROVE  d \in ToEth
<1>1. n < megaBlockNumber /\ megaBlockNumber \in Int
  BY MaxBlockAssumption
     DEF BridgeInv, RootsTrue, NoRoot, MegaClosedLocks, MegaInv, MegaTypeOK
<1>2. \A e \in ToEth' \ ToEth : e.blockNumber = megaBlockNumber
  <2>1. ASSUME NEW locks, CallLocks(locks, megaBlockNumber, MegaBridge), MegaTakeLocks(locks),
               UNCHANGED ethVars
        PROVE  ToEth' = ToEth \cup locks /\ \A e \in locks : e.blockNumber = megaBlockNumber
    BY <2>1, MegaTakeLocksKeeps, CallLocksType DEF MegaTakeLocks
  <2>2. CASE MegaCall
    BY <2>1, <2>2, MegaReleaseKeeps, MegaSetRootKeeps, MegaQuietKeeps DEF MegaCall
  <2>3. CASE EthCall
    BY <2>3, EthTakeLocksKeeps, EthReleaseKeeps, EthSetRootKeeps, EthQuietKeeps
       DEF EthCall
  <2> QED
    BY <2>2, <2>3, BridgeStepKinds
<1> QED
  BY <1>1, <1>2

\* A record stays until its lock is redeemed.
LEMMA EthRecordStays ==
    ASSUME BridgeInv, [Next]_vars, NEW d \in ethLockData,
           d.lockHash \notin ethProcessedLocks'
    PROVE  d \in ethLockData'
<1>1. d \in LockData /\ HashOfFields(d)
  BY DEF BridgeInv, EthInv, EthTypeOK, RecordsTrue
<1>2. ASSUME NEW locks \in SUBSET LockData, \A c \in locks : HashOfFields(c),
             ethLockData' = Store(ethLockData, locks)
      PROVE  d \in ethLockData'
  BY <1>1, <1>2, SameHashSameLock DEF Store, HashesOf
<1>3. ASSUME NEW locks, CallLocks(locks, ethBlockNumber, EthBridge), EthTakeLocks(locks)
      PROVE  d \in ethLockData'
  BY <1>2, <1>3, CallLocksType, CallLocksFields DEF EthTakeLocks
<1>4. ASSUME NEW caller, NEW n, NEW root, NEW locks \in SUBSET MegaClosedLocks,
             SetMegaEthBlockRoot(caller, n, root, locks)
      PROVE  d \in ethLockData'
  <2>1. locks \subseteq LockData /\ \A c \in locks : HashOfFields(c)
    BY DEF BridgeInv, MegaInv, MegaTypeOK, RecordsTrue, MegaClosedLocks
  <2> QED
    BY <1>2, <1>4, <2>1 DEF SetMegaEthBlockRoot
<1>5. ASSUME NEW locks, EthRelease(locks) PROVE d \in ethLockData'
  BY <1>5 DEF EthRelease, Erase
<1>6. ASSUME EthQuiet PROVE d \in ethLockData'
  BY <1>6 DEF EthQuiet, EthTransfer, EthMineBlock, ClearMegaEthBlockRoot, EthSetPaused,
              EthSetRootSubmitter, ethVars
<1>7. CASE EthCall
  BY <1>3, <1>4, <1>5, <1>6, <1>7 DEF EthCall
<1>8. CASE MegaCall
  BY <1>8 DEF MegaCall, ethVars
<1> QED
  BY <1>7, <1>8, BridgeStepKinds

\* A lock covered by the root of its block stays covered until it is redeemed.
THEOREM CoverageLasts == Spec => CoveredStaysCovered
<1> DEFINE Lasts ==
             \A n \in Block :
               LET inBlock(locks) == {d \in locks : d.blockNumber = n}
               IN  /\ blockRoots[n] # NoRoot /\ blockRoots'[n] = blockRoots[n]
                      /\ Covers(blockRoots[n], megaLockData, inBlock(ToMega))
                      => Covers(blockRoots[n], megaLockData', inBlock(ToMega'))
                   /\ megaEthBlockRoots[n] # NoRoot
                      /\ megaEthBlockRoots'[n] = megaEthBlockRoots[n]
                      /\ Covers(megaEthBlockRoots[n], ethLockData, inBlock(ToEth))
                      => Covers(megaEthBlockRoots[n], ethLockData', inBlock(ToEth'))
<1>1. ASSUME BridgeInv, [Next]_vars PROVE Lasts
  <2>1. /\ \A d \in ToMega' : d.lockHash \notin megaProcessedLocks'
        /\ \A d \in ToEth' : d.lockHash \notin ethProcessedLocks'
    BY DEF ToMega, ToEth
  <2>2. ASSUME NEW n \in Block, blockRoots[n] # NoRoot, NEW d \in ToMega', d.blockNumber = n
        PROVE  d \in ToMega /\ (d \in megaLockData => d \in megaLockData')
    BY <1>1, <2>1, <2>2, MegaNoLateArrival, MegaRecordStays
  <2>3. ASSUME NEW n \in Block, megaEthBlockRoots[n] # NoRoot, NEW d \in ToEth', d.blockNumber = n
        PROVE  d \in ToEth /\ (d \in ethLockData => d \in ethLockData')
    BY <1>1, <2>1, <2>3, EthNoLateArrival, EthRecordStays
  <2> QED
    BY <2>2, <2>3 DEF Covers
<1>2. BridgeInv /\ [Next]_vars => [Lasts]_vars
  BY <1>1
<1> QED
  BY <1>2, BridgeInvariant, PTL DEF Spec, CoveredStaysCovered
------------------------------------------------------------------------------
\* The custody of a token, read off the free tokens and the locks on their way.
CustodyRead ==
    /\ \A t \in FreeOnEth : CustodyOf(t) = Custody!OnEthereum(ethOwnerOf[t])
    /\ \A d \in OfBridged(ToMega) : CustodyOf(d.tokenId) = Custody!ToMegaETH(d.recipient)
    /\ \A d \in OfBridged(ToEth) : CustodyOf(d.tokenId) = Custody!ToEthereum(d.recipient)
    /\ \A t \in FreeOnMega : CustodyOf(t) = Custody!OnMegaETH(megaOwnerOf[t])

\* With one lock per token, the recipient recorded for a token is its lock's.
LEMMA RecipientOfLock ==
    ASSUME NEW locks, DistinctTokens(locks), NEW d \in locks
    PROVE  d.tokenId \in TokensOf(locks) /\ RecipientIn(locks, d.tokenId) = d.recipient
<1>1. d.tokenId \in TokensOf(locks)
  BY DEF TokensOf
<1>2. PICK c \in locks : c.tokenId = d.tokenId /\ RecipientIn(locks, d.tokenId) = c.recipient
  BY <1>1, RecipientRecorded
<1> QED
  BY <1>1, <1>2 DEF DistinctTokens

\* So it is for a bridged token, among the locks of all tokens.
LEMMA RecipientOfBridgedLock ==
    ASSUME NEW locks, DistinctTokens(OfBridged(locks)), NEW d \in OfBridged(locks)
    PROVE  d.tokenId \in TokensOf(locks) /\ RecipientIn(locks, d.tokenId) = d.recipient
<1>1. d \in locks /\ d.tokenId \in TokensOf(locks)
  BY DEF TokensOf, OfBridged
<1>2. PICK c \in locks : c.tokenId = d.tokenId /\ RecipientIn(locks, d.tokenId) = c.recipient
  BY <1>1, RecipientRecorded
<1>3. c = d
  BY <1>2 DEF DistinctTokens, OfBridged
<1> QED
  BY <1>1, <1>2, <1>3

\* The invariant makes the reading unambiguous.
LEMMA ReadCustody == BridgeInv => CustodyRead
<1> SUFFICES ASSUME BridgeInv PROVE CustodyRead
  OBVIOUS
<1>0. InOnePlace
  BY DEF BridgeInv
<1>1. ASSUME NEW t \in FreeOnEth
      PROVE  CustodyOf(t) = Custody!OnEthereum(ethOwnerOf[t])
  BY DEF CustodyOf, FreeOnEth, Custody!OnEthereum
<1>2. ASSUME NEW d \in OfBridged(ToMega)
      PROVE  CustodyOf(d.tokenId) = Custody!ToMegaETH(d.recipient)
  <2>0. d.tokenId \in Bridged /\ d.tokenId \in TokensOf(OfBridged(ToMega))
    BY DEF OfBridged, TokensOf
  <2>1. d.tokenId \in TokensOf(ToMega) /\ RecipientIn(ToMega, d.tokenId) = d.recipient
    BY <1>0, RecipientOfBridgedLock DEF InOnePlace, OnePlace
  <2>2. d.tokenId \in ethLockedTokens
    BY <1>0, <2>0 DEF InOnePlace, OnePlace, FreeOnEth
  <2> QED
    BY <2>1, <2>2 DEF CustodyOf, Custody!ToMegaETH
<1>3. ASSUME NEW d \in OfBridged(ToEth)
      PROVE  CustodyOf(d.tokenId) = Custody!ToEthereum(d.recipient)
  <2>0. d.tokenId \in Bridged /\ d.tokenId \in TokensOf(OfBridged(ToEth))
    BY DEF OfBridged, TokensOf
  <2>1. d.tokenId \in TokensOf(ToEth) /\ RecipientIn(ToEth, d.tokenId) = d.recipient
    BY <1>0, RecipientOfBridgedLock DEF InOnePlace, OnePlace
  <2>2. d.tokenId \in ethLockedTokens /\ d.tokenId \notin TokensOf(OfBridged(ToMega))
    BY <1>0, <2>0 DEF InOnePlace, OnePlace, FreeOnEth
  <2>3. d.tokenId \notin TokensOf(ToMega)
    BY <2>0, <2>2 DEF TokensOf, OfBridged
  <2> QED
    BY <2>1, <2>2, <2>3 DEF CustodyOf, Custody!ToEthereum
<1>4. ASSUME NEW t \in FreeOnMega
      PROVE  CustodyOf(t) = Custody!OnMegaETH(megaOwnerOf[t])
  <2>1. /\ t \in Bridged /\ t \in ethLockedTokens
        /\ t \notin TokensOf(OfBridged(ToMega)) /\ t \notin TokensOf(OfBridged(ToEth))
    BY <1>0 DEF InOnePlace, OnePlace, FreeOnEth
  <2>2. t \notin TokensOf(ToMega) /\ t \notin TokensOf(ToEth)
    BY <2>1 DEF TokensOf, OfBridged
  <2> QED
    BY <2>1, <2>2 DEF CustodyOf, Custody!OnMegaETH
<1> QED
  BY <1>1, <1>2, <1>3, <1>4 DEF CustodyRead

\* The same after a step.
LEMMA ReadCustodyNext == BridgeInv' => CustodyRead'
BY ReadCustody, PTL

\* A bridged token is free on a chain or under a lock on its way.
LEMMA FourPlaces ==
    ASSUME InOnePlace, NEW t \in Bridged
    PROVE  \/ t \in FreeOnEth \/ t \in FreeOnMega
           \/ \E d \in OfBridged(ToMega) : d.tokenId = t
           \/ \E d \in OfBridged(ToEth) : d.tokenId = t
BY DEF InOnePlace, OnePlace, TokensOf

\* At first every token is with a user on Ethereum.
LEMMA InitCustody == Init => Custody!CustodyInit
<1> SUFFICES ASSUME Init PROVE Custody!CustodyInit
  OBVIOUS
<1>1. \A t \in Bridged : CustodyOf(t) = Custody!OnEthereum(ethOwnerOf[t]) /\ ethOwnerOf[t] \in User
  BY DEF Init, EthInit, CustodyOf, Bridged, Custody!OnEthereum
<1> QED
  BY <1>1 DEF Custody!CustodyInit

\* A token outside S stays where it is when what it is read off does.
SameOutside(S) ==
    /\ \A t \in FreeOnEth \ S : t \in FreeOnEth' /\ ethOwnerOf'[t] = ethOwnerOf[t]
    /\ \A t \in FreeOnMega \ S : t \in FreeOnMega' /\ megaOwnerOf'[t] = megaOwnerOf[t]
    /\ \A d \in OfBridged(ToMega) : d.tokenId \notin S => d \in ToMega'
    /\ \A d \in OfBridged(ToEth) : d.tokenId \notin S => d \in ToEth'

\* Its custody is then the same.
LEMMA CustodyOutside ==
    ASSUME BridgeInv, BridgeInv', NEW S, SameOutside(S)
    PROVE  \A t \in Bridged \ S : CustodyOf(t)' = CustodyOf(t)
<1>1. CustodyRead /\ CustodyRead'
  BY ReadCustody, ReadCustodyNext
<1> SUFFICES ASSUME NEW t \in Bridged, t \notin S PROVE CustodyOf(t)' = CustodyOf(t)
  OBVIOUS
<1>2. CASE t \in FreeOnEth
  BY <1>1, <1>2 DEF SameOutside, CustodyRead, Custody!OnEthereum
<1>3. CASE t \in FreeOnMega
  BY <1>1, <1>3 DEF SameOutside, CustodyRead, Custody!OnMegaETH
<1>4. ASSUME NEW d \in OfBridged(ToMega), d.tokenId = t PROVE CustodyOf(t)' = CustodyOf(t)
  <2>1. d \in OfBridged(ToMega')
    BY <1>4 DEF SameOutside, OfBridged
  <2> QED
    BY <1>1, <1>4, <2>1 DEF CustodyRead, Custody!ToMegaETH
<1>5. ASSUME NEW d \in OfBridged(ToEth), d.tokenId = t PROVE CustodyOf(t)' = CustodyOf(t)
  <2>1. d \in OfBridged(ToEth')
    BY <1>5 DEF SameOutside, OfBridged
  <2> QED
    BY <1>1, <1>5, <2>1 DEF CustodyRead, Custody!ToEthereum
<1> QED
  BY <1>2, <1>3, <1>4, <1>5, FourPlaces DEF BridgeInv

\* A lock call on Ethereum is a departure.
LEMMA EthDeparture ==
    ASSUME BridgeInv, NEW locks, CallLocks(locks, ethBlockNumber, EthBridge),
           EthTakeLocks(locks),
           UNCHANGED megaVars
    PROVE  \E a \in Address : Custody!Depart(TokensOf(OfBridged(locks)), a)
<1>1. PICK sender \in User, a \in Address :
        \A d \in locks : d.owner = sender /\ d.recipient = a
  <2>1. PICK sender \in User, a \in Recipient :
          \A d \in locks : d.owner = sender /\ d.recipient = a
    BY CallLocksFields DEF EthTakeLocks
  <2>2. CASE locks = {}
    BY <2>2 DEF Address
  <2>3. CASE locks # {}
    BY <2>1, <2>3, AddressAssumption DEF EthTakeLocks, Address
  <2> QED
    BY <2>2, <2>3
<1>2. /\ BridgeInv' /\ ToMega' = ToMega \cup locks /\ ToEth' = ToEth
      /\ TokensOf(OfBridged(locks)) \subseteq FreeOnEth
  BY EthTakeLocksKeeps
<1>3. CustodyRead /\ CustodyRead'
  BY <1>2, ReadCustody, ReadCustodyNext
<1>4. \A t \in TokensOf(OfBridged(locks)) : CustodyOf(t) = Custody!OnEthereum(sender)
  <2>1. \A t \in TokensOf(OfBridged(locks)) : ethOwnerOf[t] = sender
    BY <1>1 DEF EthTakeLocks, TokensOf, OfBridged
  <2> QED
    BY <1>2, <1>3, <2>1 DEF CustodyRead
<1>5. \A t \in TokensOf(OfBridged(locks)) : CustodyOf(t)' = Custody!ToMegaETH(a)
  <2>1. ASSUME NEW d \in OfBridged(locks) PROVE CustodyOf(d.tokenId)' = Custody!ToMegaETH(a)
    <3>1. d \in OfBridged(ToMega') /\ d.recipient = a
      BY <1>1, <1>2 DEF OfBridged
    <3> QED
      BY <1>3, <3>1 DEF CustodyRead, Custody!ToMegaETH
  <2> QED
    BY <2>1 DEF TokensOf
<1>6. FreeOnEth \subseteq Bridged /\ FreeOnMega \subseteq Bridged
  BY DEF FreeOnEth, FreeOnMega, BridgeInv, MegaInv, MegaTypeOK
<1>7. \A t \in Bridged \ TokensOf(OfBridged(locks)) : CustodyOf(t)' = CustodyOf(t)
  <2>1. SameOutside(TokensOf(OfBridged(locks)))
    BY <1>2, <1>6 DEF SameOutside, EthTakeLocks, OfBridged, TokensOf,
                       megaVars, FreeOnEth, FreeOnMega, Bridged
  <2> QED
    BY <1>2, <2>1, CustodyOutside
<1> HIDE DEF CustodyOf
<1> QED
  BY <1>2, <1>4, <1>5, <1>6, <1>7 DEF Custody!Depart

\* An unlock call on Ethereum is an arrival.
LEMMA EthArrival ==
    ASSUME BridgeInv, NEW locks \in SUBSET ethLockData, EthRelease(locks),
           UNCHANGED megaVars
    PROVE  Custody!Arrive(TokensOf(OfBridged(locks)))
<1>1. BridgeInv' /\ locks \subseteq ToEth /\ ToEth' = ToEth \ locks /\ ToMega' = ToMega
  BY EthReleaseKeeps
<1>2. CustodyRead /\ CustodyRead'
  BY <1>1, ReadCustody, ReadCustodyNext
<1>3. TokensOf(OfBridged(locks)) \subseteq Bridged
  BY DEF TokensOf, OfBridged
<1>4. \A d \in OfBridged(locks) : /\ CustodyOf(d.tokenId) = Custody!ToEthereum(d.recipient)
                     /\ CustodyOf(d.tokenId)' = Custody!OnEthereum(d.recipient)
  <2> SUFFICES ASSUME NEW d \in OfBridged(locks)
               PROVE  /\ CustodyOf(d.tokenId) = Custody!ToEthereum(d.recipient)
                      /\ CustodyOf(d.tokenId)' = Custody!OnEthereum(d.recipient)
    OBVIOUS
  <2>1. CustodyOf(d.tokenId) = Custody!ToEthereum(d.recipient)
    <3>1. d \in OfBridged(ToEth)
      BY <1>1 DEF OfBridged
    <3> QED
      BY <1>2, <3>1 DEF CustodyRead
  <2>2. d.tokenId \in Bridged /\ d.tokenId \in TokensOf(locks) /\ d.tokenId \in Token
    BY DEF OfBridged, TokensOf, Bridged
  <2>3. RecipientIn(locks, d.tokenId) = d.recipient
    BY RecipientOfLock DEF EthRelease, OfBridged
  <2>4. d.tokenId \in FreeOnEth' /\ ethOwnerOf'[d.tokenId] = d.recipient
    BY <2>2, <2>3 DEF EthRelease, FreeOnEth, EthStillLocked
  <2>5. CustodyOf(d.tokenId)' = Custody!OnEthereum(d.recipient)
    BY <1>2, <2>4 DEF CustodyRead, Custody!OnEthereum
  <2> QED
    BY <2>1, <2>5
<1>5. \A t \in TokensOf(OfBridged(locks)) : \E a : /\ CustodyOf(t) = Custody!ToEthereum(a)
                                     /\ CustodyOf(t)' = Custody!OnEthereum(a)
  BY <1>4 DEF TokensOf
<1>6. FreeOnEth \subseteq Bridged /\ FreeOnMega \subseteq Bridged
  BY DEF FreeOnEth, FreeOnMega, BridgeInv, MegaInv, MegaTypeOK
<1>7. \A t \in Bridged \ TokensOf(OfBridged(locks)) : CustodyOf(t)' = CustodyOf(t)
  <2>1. \A d \in OfBridged(ToEth) : d \in locks => d.tokenId \in TokensOf(OfBridged(locks))
    BY DEF TokensOf, OfBridged
  <2>2. /\ FreeOnEth \subseteq FreeOnEth' /\ FreeOnMega \subseteq FreeOnMega'
        /\ OfBridged(ToMega) \subseteq ToMega /\ OfBridged(ToEth) \subseteq ToEth
    BY DEF EthRelease, megaVars, FreeOnEth, FreeOnMega, EthStillLocked, OfBridged
  <2>3. \A t \in Bridged \ TokensOf(OfBridged(locks)) :
          ethOwnerOf'[t] = ethOwnerOf[t]
    BY DEF EthRelease, TokensOf, OfBridged, Bridged
  <2>4. SameOutside(TokensOf(OfBridged(locks)))
    BY <1>1, <1>6, <2>1, <2>2, <2>3 DEF SameOutside, megaVars
  <2> QED
    BY <1>1, <2>4, CustodyOutside
<1> HIDE DEF CustodyOf
<1>8. \A t \in TokensOf(OfBridged(locks)) : /\ CustodyOf(t).place = "toEthereum"
                              /\ CustodyOf(t)' = Custody!OnEthereum(CustodyOf(t).who)
  BY <1>5 DEF Custody!ToEthereum, Custody!OnEthereum
<1> QED
  BY <1>3, <1>7, <1>8 DEF Custody!Arrive

\* A transfer on Ethereum hands a token over.
LEMMA EthHandOver ==
    ASSUME BridgeInv, NEW t \in Bridged, NEW to \in Recipient, EthTransfer(t, to),
           UNCHANGED megaVars
    PROVE  \E a \in Address : Custody!HandOver(t, a)
<1>1. BridgeInv' /\ ToMega' = ToMega /\ ToEth' = ToEth
  <2>1. t \in Token
    BY DEF Bridged
  <2> QED
    BY <2>1, EthQuietKeeps DEF EthQuiet
<1>2. CustodyRead /\ CustodyRead'
  BY <1>1, ReadCustody, ReadCustodyNext
<1>3. to \in Address /\ ethOwnerOf[t] \in User /\ ethOwnerOf[t] # EthBridge /\ ethOwnerOf[t] # ZeroAddress
  BY AddressAssumption DEF EthTransfer, Address
<1>4. t \in FreeOnEth /\ FreeOnEth' = FreeOnEth
  BY <1>3 DEF BridgeInv, EthInv, EthLockedIsHeld, EthTransfer, FreeOnEth
<1>5. ethOwnerOf'[t] = to /\ \A u \in Bridged \ {t} : ethOwnerOf'[u] = ethOwnerOf[u]
  BY DEF EthTransfer, BridgeInv, EthInv, EthTypeOK, Bridged
<1>6. CustodyOf(t) = Custody!OnEthereum(ethOwnerOf[t]) /\ CustodyOf(t)' = Custody!OnEthereum(to)
  BY <1>2, <1>4, <1>5 DEF CustodyRead
<1>7. FreeOnEth \subseteq Bridged /\ FreeOnMega \subseteq Bridged
  BY DEF FreeOnEth, FreeOnMega, BridgeInv, MegaInv, MegaTypeOK
<1>8. \A u \in Bridged \ {t} : CustodyOf(u)' = CustodyOf(u)
  <2>1. SameOutside({t})
    BY <1>1, <1>5, <1>7 DEF SameOutside, EthTransfer, OfBridged, megaVars,
                                   FreeOnEth, FreeOnMega
  <2> QED
    BY <1>1, <2>1, CustodyOutside
<1> HIDE DEF CustodyOf
<1>9. [CustodyOf(t) EXCEPT !.who = to] = CustodyOf(t)'
  BY <1>6 DEF Custody!OnEthereum
<1>10. CustodyOf(t).place \in {"ethereum", "megaeth"} /\ CustodyOf(t).who \in User
  BY <1>3, <1>6 DEF Custody!OnEthereum
<1>11. [u \in Bridged |-> CustodyOf(u)'] =
         [[u \in Bridged |-> CustodyOf(u)] EXCEPT ![t] = [CustodyOf(t) EXCEPT !.who = to]]
  BY <1>8, <1>9
<1> QED
  BY <1>3, <1>10, <1>11 DEF Custody!HandOver

\* A lock call on MegaETH is a departure.
LEMMA MegaDeparture ==
    ASSUME BridgeInv, NEW locks, CallLocks(locks, megaBlockNumber, MegaBridge),
           MegaTakeLocks(locks),
           UNCHANGED ethVars
    PROVE  \E a \in Address : Custody!Depart(TokensOf(OfBridged(locks)), a)
<1>1. PICK sender \in User, a \in Address :
        \A d \in locks : d.owner = sender /\ d.recipient = a
  <2>1. PICK sender \in User, a \in Recipient :
          \A d \in locks : d.owner = sender /\ d.recipient = a
    BY CallLocksFields DEF MegaTakeLocks
  <2>2. CASE locks = {}
    BY <2>2 DEF Address
  <2>3. CASE locks # {}
    BY <2>1, <2>3, AddressAssumption DEF MegaTakeLocks, Address
  <2> QED
    BY <2>2, <2>3
<1>2. /\ BridgeInv' /\ ToEth' = ToEth \cup locks /\ ToMega' = ToMega
      /\ TokensOf(OfBridged(locks)) \subseteq FreeOnMega
  BY MegaTakeLocksKeeps
<1>3. CustodyRead /\ CustodyRead'
  BY <1>2, ReadCustody, ReadCustodyNext
<1>4. \A t \in TokensOf(OfBridged(locks)) : CustodyOf(t) = Custody!OnMegaETH(sender)
  <2>1. \A t \in TokensOf(OfBridged(locks)) : megaOwnerOf[t] = sender
    BY <1>1 DEF MegaTakeLocks, TokensOf, OfBridged
  <2> QED
    BY <1>2, <1>3, <2>1 DEF CustodyRead
<1>5. \A t \in TokensOf(OfBridged(locks)) : CustodyOf(t)' = Custody!ToEthereum(a)
  <2>1. ASSUME NEW d \in OfBridged(locks) PROVE CustodyOf(d.tokenId)' = Custody!ToEthereum(a)
    <3>1. d \in OfBridged(ToEth') /\ d.recipient = a
      BY <1>1, <1>2 DEF OfBridged
    <3> QED
      BY <1>3, <3>1 DEF CustodyRead, Custody!ToEthereum
  <2> QED
    BY <2>1 DEF TokensOf
<1>6. FreeOnEth \subseteq Bridged /\ FreeOnMega \subseteq Bridged
  BY DEF FreeOnEth, FreeOnMega, BridgeInv, MegaInv, MegaTypeOK
<1>7. \A t \in Bridged \ TokensOf(OfBridged(locks)) : CustodyOf(t)' = CustodyOf(t)
  <2>1. SameOutside(TokensOf(OfBridged(locks)))
    BY <1>2, <1>6 DEF SameOutside, MegaTakeLocks, OfBridged, TokensOf,
                       ethVars, FreeOnEth, FreeOnMega, Bridged
  <2> QED
    BY <1>2, <2>1, CustodyOutside
<1> HIDE DEF CustodyOf
<1> QED
  BY <1>2, <1>4, <1>5, <1>6, <1>7 DEF Custody!Depart

\* An unlock call on MegaETH is an arrival.
LEMMA MegaArrival ==
    ASSUME BridgeInv, NEW locks \in SUBSET megaLockData, MegaRelease(locks),
           UNCHANGED ethVars
    PROVE  Custody!Arrive(TokensOf(OfBridged(locks)))
<1>1. BridgeInv' /\ locks \subseteq ToMega /\ ToMega' = ToMega \ locks /\ ToEth' = ToEth
  BY MegaReleaseKeeps
<1>2. CustodyRead /\ CustodyRead'
  BY <1>1, ReadCustody, ReadCustodyNext
<1>3. TokensOf(OfBridged(locks)) \subseteq Bridged
  BY DEF TokensOf, OfBridged
<1>4. \A d \in OfBridged(locks) : /\ CustodyOf(d.tokenId) = Custody!ToMegaETH(d.recipient)
                     /\ CustodyOf(d.tokenId)' = Custody!OnMegaETH(d.recipient)
  <2> SUFFICES ASSUME NEW d \in OfBridged(locks)
               PROVE  /\ CustodyOf(d.tokenId) = Custody!ToMegaETH(d.recipient)
                      /\ CustodyOf(d.tokenId)' = Custody!OnMegaETH(d.recipient)
    OBVIOUS
  <2>1. CustodyOf(d.tokenId) = Custody!ToMegaETH(d.recipient)
    <3>1. d \in OfBridged(ToMega)
      BY <1>1 DEF OfBridged
    <3> QED
      BY <1>2, <3>1 DEF CustodyRead
  <2>2. d.tokenId \in Bridged /\ d.tokenId \in TokensOf(locks) /\ d.tokenId \in Token
    BY DEF OfBridged, TokensOf, Bridged
  <2>3. RecipientIn(locks, d.tokenId) = d.recipient
    BY RecipientOfLock DEF MegaRelease, OfBridged
  <2>4. d.tokenId \in FreeOnMega' /\ megaOwnerOf'[d.tokenId] = d.recipient
    BY <2>2, <2>3 DEF MegaRelease, FreeOnMega
  <2>5. CustodyOf(d.tokenId)' = Custody!OnMegaETH(d.recipient)
    BY <1>2, <2>4 DEF CustodyRead, Custody!OnMegaETH
  <2> QED
    BY <2>1, <2>5
<1>5. \A t \in TokensOf(OfBridged(locks)) : \E a : /\ CustodyOf(t) = Custody!ToMegaETH(a)
                                     /\ CustodyOf(t)' = Custody!OnMegaETH(a)
  BY <1>4 DEF TokensOf
<1>6. FreeOnEth \subseteq Bridged /\ FreeOnMega \subseteq Bridged
  BY DEF FreeOnEth, FreeOnMega, BridgeInv, MegaInv, MegaTypeOK
<1>7. \A t \in Bridged \ TokensOf(OfBridged(locks)) : CustodyOf(t)' = CustodyOf(t)
  <2>1. \A d \in OfBridged(ToMega) : d \in locks => d.tokenId \in TokensOf(OfBridged(locks))
    BY DEF TokensOf, OfBridged
  <2>2. /\ FreeOnEth \subseteq FreeOnEth' /\ FreeOnMega \subseteq FreeOnMega'
        /\ OfBridged(ToMega) \subseteq ToMega /\ OfBridged(ToEth) \subseteq ToEth
    BY DEF MegaRelease, ethVars, FreeOnEth, FreeOnMega, OfBridged
  <2>3. \A t \in Bridged \ TokensOf(OfBridged(locks)) :
          megaOwnerOf'[t] = megaOwnerOf[t]
    BY DEF MegaRelease, TokensOf, OfBridged, Bridged
  <2>4. SameOutside(TokensOf(OfBridged(locks)))
    BY <1>1, <1>6, <2>1, <2>2, <2>3 DEF SameOutside, ethVars
  <2> QED
    BY <1>1, <2>4, CustodyOutside
<1> HIDE DEF CustodyOf
<1>8. \A t \in TokensOf(OfBridged(locks)) : /\ CustodyOf(t).place = "toMegaeth"
                              /\ CustodyOf(t)' = Custody!OnMegaETH(CustodyOf(t).who)
  BY <1>5 DEF Custody!ToMegaETH, Custody!OnMegaETH
<1> QED
  BY <1>3, <1>7, <1>8 DEF Custody!Arrive

\* A transfer on MegaETH hands a token over.
LEMMA MegaHandOver ==
    ASSUME BridgeInv, NEW t \in Bridged, NEW to \in Recipient, MegaTransfer(t, to),
           UNCHANGED ethVars
    PROVE  \E a \in Address : Custody!HandOver(t, a)
<1>1. BridgeInv' /\ ToMega' = ToMega /\ ToEth' = ToEth
  <2>1. t \in Token
    BY DEF Bridged
  <2> QED
    BY <2>1, MegaQuietKeeps DEF MegaQuiet
<1>2. CustodyRead /\ CustodyRead'
  BY <1>1, ReadCustody, ReadCustodyNext
<1>3. to \in Address /\ megaOwnerOf[t] \in User /\ megaOwnerOf[t] # MegaBridge /\ megaOwnerOf[t] # ZeroAddress
  BY AddressAssumption DEF MegaTransfer, Address
<1>4. t \in FreeOnMega /\ FreeOnMega' = FreeOnMega
  BY <1>3 DEF BridgeInv, MegaInv, MegaLockedIsHeld, MintedIsActive, MegaTransfer,
              FreeOnMega
<1>5. megaOwnerOf'[t] = to /\ \A u \in Bridged \ {t} : megaOwnerOf'[u] = megaOwnerOf[u]
  BY DEF MegaTransfer, BridgeInv, MegaInv, MegaTypeOK, Bridged
<1>6. CustodyOf(t) = Custody!OnMegaETH(megaOwnerOf[t]) /\ CustodyOf(t)' = Custody!OnMegaETH(to)
  BY <1>2, <1>4, <1>5 DEF CustodyRead
<1>7. FreeOnEth \subseteq Bridged /\ FreeOnMega \subseteq Bridged
  BY DEF FreeOnEth, FreeOnMega, BridgeInv, MegaInv, MegaTypeOK
<1>8. \A u \in Bridged \ {t} : CustodyOf(u)' = CustodyOf(u)
  <2>1. SameOutside({t})
    BY <1>1, <1>5, <1>7 DEF SameOutside, MegaTransfer, OfBridged, ethVars,
                                   FreeOnEth, FreeOnMega
  <2> QED
    BY <1>1, <2>1, CustodyOutside
<1> HIDE DEF CustodyOf
<1>9. [CustodyOf(t) EXCEPT !.who = to] = CustodyOf(t)'
  BY <1>6 DEF Custody!OnMegaETH
<1>10. CustodyOf(t).place \in {"ethereum", "megaeth"} /\ CustodyOf(t).who \in User
  BY <1>3, <1>6 DEF Custody!OnMegaETH
<1>11. [u \in Bridged |-> CustodyOf(u)'] =
         [[u \in Bridged |-> CustodyOf(u)] EXCEPT ![t] = [CustodyOf(t) EXCEPT !.who = to]]
  BY <1>8, <1>9
<1> QED
  BY <1>3, <1>10, <1>11 DEF Custody!HandOver

\* Any other call leaves every bridged token where it is.
LEMMA CustodyStays ==
    ASSUME BridgeInv, BridgeInv', ToMega' = ToMega, ToEth' = ToEth,
           UNCHANGED <<ethLockedTokens, activeOnMegaETH, megaLockedTokens>>,
           \A t \in Bridged : ethOwnerOf'[t] = ethOwnerOf[t] /\ megaOwnerOf'[t] = megaOwnerOf[t]
    PROVE  UNCHANGED [t \in Bridged |-> CustodyOf(t)]
<1>1. SameOutside({})
  BY DEF SameOutside, FreeOnEth, FreeOnMega, OfBridged
<1>2. \A t \in Bridged : CustodyOf(t)' = CustodyOf(t)
  BY <1>1, CustodyOutside
<1> HIDE DEF CustodyOf
<1> QED
  BY <1>2

\* A call on Ethereum is a departure, an arrival or a hand-over, or moves no token.
LEMMA EthCallCustody ==
    ASSUME BridgeInv, EthCall
    PROVE  Custody!CustodyNext \/ UNCHANGED [t \in Bridged |-> CustodyOf(t)]
<1>1. ASSUME NEW locks, CallLocks(locks, ethBlockNumber, EthBridge), EthTakeLocks(locks)
      PROVE  Custody!CustodyNext
  <2>1. TokensOf(OfBridged(locks)) \in SUBSET Bridged
    BY DEF TokensOf, OfBridged
  <2> QED
    BY <1>1, <2>1, EthDeparture DEF EthCall, Custody!CustodyNext
<1>2. ASSUME NEW locks \in SUBSET ethLockData, EthRelease(locks)
      PROVE  Custody!CustodyNext
  <2>1. TokensOf(OfBridged(locks)) \in SUBSET Bridged
    BY DEF TokensOf, OfBridged
  <2> QED
    BY <1>2, <2>1, EthArrival DEF EthCall, Custody!CustodyNext
<1>3. ASSUME NEW t \in Bridged, NEW to \in Recipient, EthTransfer(t, to)
      PROVE  Custody!CustodyNext
  BY <1>3, EthHandOver DEF EthCall, Custody!CustodyNext
<1>4. ASSUME NEW caller \in Submitter, NEW n \in Block,
             NEW leaves \in SUBSET MegaClosedLocks,
             NEW locks \in SUBSET MegaClosedLocks,
             \A d \in leaves : d.blockNumber = n, KeyedByHash(locks),
             SetMegaEthBlockRoot(caller, n, RootOf(leaves), locks)
      PROVE  UNCHANGED [t \in Bridged |-> CustodyOf(t)]
  <2>1. BridgeInv' /\ ToMega' = ToMega /\ ToEth' = ToEth
    BY <1>4, EthSetRootKeeps DEF EthCall
  <2>2. /\ UNCHANGED <<ethLockedTokens, activeOnMegaETH, megaLockedTokens>>
        /\ \A t \in Bridged : ethOwnerOf'[t] = ethOwnerOf[t] /\ megaOwnerOf'[t] = megaOwnerOf[t]
    BY <1>4 DEF SetMegaEthBlockRoot, EthCall, megaVars
  <2> QED
    BY <2>1, <2>2, CustodyStays
<1>5. ASSUME EthQuiet, ~\E t \in Bridged, to \in Recipient : EthTransfer(t, to)
      PROVE  UNCHANGED [t \in Bridged |-> CustodyOf(t)]
  <2>1. BridgeInv' /\ ToMega' = ToMega /\ ToEth' = ToEth
    BY <1>5, EthQuietKeeps DEF EthCall
  <2>2. /\ UNCHANGED <<ethLockedTokens, activeOnMegaETH, megaLockedTokens>>
        /\ \A t \in Bridged : ethOwnerOf'[t] = ethOwnerOf[t] /\ megaOwnerOf'[t] = megaOwnerOf[t]
    BY <1>5 DEF EthQuiet, EthTransfer, EthMineBlock, ClearMegaEthBlockRoot, EthSetPaused,
                EthSetRootSubmitter, EthCall,
                ethVars, megaVars, Bridged, BridgeInv, EthInv, EthTypeOK
  <2> QED
    BY <2>1, <2>2, CustodyStays
<1> HIDE DEF CustodyOf
<1> QED
  BY <1>1, <1>2, <1>3, <1>4, <1>5 DEF EthCall, EthQuiet

\* So is a call on MegaETH.
LEMMA MegaCallCustody ==
    ASSUME BridgeInv, MegaCall
    PROVE  Custody!CustodyNext \/ UNCHANGED [t \in Bridged |-> CustodyOf(t)]
<1>1. ASSUME NEW locks, CallLocks(locks, megaBlockNumber, MegaBridge), MegaTakeLocks(locks)
      PROVE  Custody!CustodyNext
  <2>1. TokensOf(OfBridged(locks)) \in SUBSET Bridged
    BY DEF TokensOf, OfBridged
  <2> QED
    BY <1>1, <2>1, MegaDeparture DEF MegaCall, Custody!CustodyNext
<1>2. ASSUME NEW locks \in SUBSET megaLockData, MegaRelease(locks)
      PROVE  Custody!CustodyNext
  <2>1. TokensOf(OfBridged(locks)) \in SUBSET Bridged
    BY DEF TokensOf, OfBridged
  <2> QED
    BY <1>2, <2>1, MegaArrival DEF MegaCall, Custody!CustodyNext
<1>3. ASSUME NEW t \in Bridged, NEW to \in Recipient, MegaTransfer(t, to)
      PROVE  Custody!CustodyNext
  BY <1>3, MegaHandOver DEF MegaCall, Custody!CustodyNext
<1>4. ASSUME NEW caller \in Submitter, NEW n \in Block,
             NEW leaves \in SUBSET EthClosedLocks,
             NEW locks \in SUBSET EthClosedLocks,
             \A d \in leaves : d.blockNumber = n, KeyedByHash(locks),
             SetBlockRoot(caller, n, RootOf(leaves), locks)
      PROVE  UNCHANGED [t \in Bridged |-> CustodyOf(t)]
  <2>1. BridgeInv' /\ ToMega' = ToMega /\ ToEth' = ToEth
    BY <1>4, MegaSetRootKeeps DEF MegaCall
  <2>2. /\ UNCHANGED <<ethLockedTokens, activeOnMegaETH, megaLockedTokens>>
        /\ \A t \in Bridged : ethOwnerOf'[t] = ethOwnerOf[t] /\ megaOwnerOf'[t] = megaOwnerOf[t]
    BY <1>4 DEF SetBlockRoot, MegaCall, ethVars
  <2> QED
    BY <2>1, <2>2, CustodyStays
<1>5. ASSUME MegaQuiet, ~\E t \in Bridged, to \in Recipient : MegaTransfer(t, to)
      PROVE  UNCHANGED [t \in Bridged |-> CustodyOf(t)]
  <2>1. BridgeInv' /\ ToMega' = ToMega /\ ToEth' = ToEth
    BY <1>5, MegaQuietKeeps DEF MegaCall
  <2>2. /\ UNCHANGED <<ethLockedTokens, activeOnMegaETH, megaLockedTokens>>
        /\ \A t \in Bridged : ethOwnerOf'[t] = ethOwnerOf[t] /\ megaOwnerOf'[t] = megaOwnerOf[t]
    BY <1>5 DEF MegaQuiet, MegaTransfer, MegaAirdrop, MegaMineBlock, ClearBlockRoot,
           MegaSetPaused,
                MegaSetRootSubmitter, MegaCall,
                ethVars, megaVars, Bridged, BridgeInv, MegaInv, MegaTypeOK
  <2> QED
    BY <2>1, <2>2, CustodyStays
<1> HIDE DEF CustodyOf
<1> QED
  BY <1>1, <1>2, <1>3, <1>4, <1>5 DEF MegaCall, MegaQuiet

\* The two contracts and the submitter implement the abstract custody of the
\* bridged tokens.
THEOREM CustodyImplemented == Spec => ImplementsCustody
<1>1. Init => Custody!CustodyInit
  BY InitCustody
<1>2. ASSUME BridgeInv, [Next]_vars
      PROVE  Custody!CustodyNext \/ UNCHANGED [t \in Bridged |-> CustodyOf(t)]
  BY <1>2, BridgeStepKinds, EthCallCustody, MegaCallCustody
<1>3. BridgeInv /\ [Next]_vars => [Custody!CustodyNext]_([t \in Bridged |-> CustodyOf(t)])
  BY <1>2
<1> QED
  BY <1>1, <1>3, BridgeInvariant, PTL DEF Spec, ImplementsCustody, Custody!CustodySpec
==============================================================================
