----------------------------- MODULE BridgeLemmas -----------------------------
(***************************************************************************)
(* Lemmas about the operators of BridgeTypes that the proofs about both    *)
(* contracts rest on.                                                      *)
(***************************************************************************)
EXTENDS BridgeTypes, TLAPS

\* A lock record built by a call of a bridge is a LockData.
LEMMA RecordType ==
    ASSUME NEW t \in Token, NEW sender \in User, NEW recipient \in Recipient,
           NEW n \in Block, NEW bridge \in {EthBridge, MegaBridge}, NEW i \in Int
    PROVE  LockRecord(t, sender, recipient, n, bridge, i) \in LockData
BY AddressAssumption DEF LockRecord, LockHash, LockData, Hash, Address

\* Writing entries keeps lockData keyed by hash.
LEMMA StoreKeyed ==
    ASSUME NEW m, NEW locks, KeyedByHash(m), KeyedByHash(locks)
    PROVE  KeyedByHash(Store(m, locks))
BY DEF KeyedByHash, Store, HashesOf

\* Deleting entries keeps lockData keyed by hash.
LEMMA EraseKeyed ==
    ASSUME NEW m, NEW hashes, KeyedByHash(m)
    PROVE  KeyedByHash(Erase(m, hashes))
BY DEF KeyedByHash, Erase

\* The leaves of a root are typed.
LEMMA RootOfType ==
    ASSUME NEW locks \in SUBSET LockData
    PROVE  RootOf(locks) \in SUBSET Leaf
BY DEF RootOf, LeafOf, LockData, Leaf

\* The token a batch releases goes to a recipient recorded for it.
LEMMA RecipientRecorded ==
    ASSUME NEW locks, NEW t \in TokensOf(locks)
    PROVE  \E d \in locks : d.tokenId = t /\ RecipientIn(locks, t) = d.recipient
BY DEF TokensOf, RecipientIn

------------------------------------------------------------------------------
\* The locks that one call of a lock function of bridge makes in block n.
CallLocks(locks, n, bridge) ==
    \E sender \in User, recipient \in Recipient, S \in SUBSET Token :
        \E pos \in [S -> Int] :
            locks = {LockRecord(t, sender, recipient, n, bridge, pos[t]) : t \in S}

LEMMA CallLocksIntro ==
    ASSUME NEW sender \in User, NEW recipient \in Recipient, NEW n, NEW bridge,
           NEW S \in SUBSET Token, NEW pos \in [S -> Int]
    PROVE  CallLocks({LockRecord(t, sender, recipient, n, bridge, pos[t]) : t \in S},
                     n, bridge)
BY DEF CallLocks

\* A call with one token is the call of a one-element batch.
LEMMA SingleCallLocks ==
    ASSUME NEW sender \in User, NEW t \in Token, NEW recipient \in Recipient,
           NEW n, NEW bridge
    PROVE  CallLocks({LockRecord(t, sender, recipient, n, bridge, Single)}, n, bridge)
<1> DEFINE pos == [u \in {t} |-> Single]
           batch == {LockRecord(u, sender, recipient, n, bridge, pos[u]) : u \in {t}}
<1>1. pos \in [{t} -> Int] /\ {t} \in SUBSET Token
  BY DEF Single
<1>2. batch = {LockRecord(t, sender, recipient, n, bridge, Single)}
  OBVIOUS
<1>3. CallLocks(batch, n, bridge)
  <2> HIDE DEF pos
  <2> QED BY <1>1, CallLocksIntro
<1> QED
  BY <1>2, <1>3

\* What every lock of a call has in common with the others, and what is
\* different: the token, which its hash records together with the block.
LEMMA CallLocksType ==
    ASSUME NEW n \in Block, NEW bridge \in {EthBridge, MegaBridge},
           NEW locks, CallLocks(locks, n, bridge)
    PROVE  /\ locks \subseteq LockData
           /\ KeyedByHash(locks)
           /\ DistinctTokens(locks)
           /\ TokensOf(locks) \subseteq Token
           /\ \A d \in locks : /\ d.blockNumber = n
                               /\ d.lockHash[1] = d.tokenId
                               /\ d.lockHash[4] = n
                               /\ d.owner \in User
<1>1. PICK sender \in User, recipient \in Recipient, S \in SUBSET Token :
        \E pos \in [S -> Int] :
            locks = {LockRecord(t, sender, recipient, n, bridge, pos[t]) : t \in S}
  BY DEF CallLocks
<1>2. PICK pos \in [S -> Int] :
        locks = {LockRecord(t, sender, recipient, n, bridge, pos[t]) : t \in S}
  BY <1>1
<1>3. locks \subseteq LockData
  BY <1>2, RecordType
<1>4. \A t \in S : LET d == LockRecord(t, sender, recipient, n, bridge, pos[t])
                  IN  /\ d.tokenId = t
                      /\ d.blockNumber = n
                      /\ d.lockHash[1] = t
                      /\ d.lockHash[4] = n
                      /\ d.owner \in User
  BY DEF LockRecord, LockHash
<1>5. KeyedByHash(locks) /\ DistinctTokens(locks)
  BY <1>2, <1>4 DEF KeyedByHash, DistinctTokens
<1>6. TokensOf(locks) \subseteq Token
  BY <1>2, <1>4 DEF TokensOf
<1> QED
  BY <1>2, <1>3, <1>4, <1>5, <1>6
==============================================================================
