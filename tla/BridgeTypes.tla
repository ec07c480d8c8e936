----------------------------- MODULE BridgeTypes -----------------------------
(***************************************************************************)
(* The data both bridge contracts share: addresses, lock records, lock     *)
(* hashes, Merkle leaves and roots, and the lockData mapping.              *)
(*                                                                         *)
(* keccak256 is taken to be injective: a lock hash IS the tuple of the     *)
(* fields that are hashed, a leaf IS the record of its fields, and a       *)
(* Merkle root IS the set of the leaves that have a proof against it       *)
(* (the empty set stands for bytes32(0)).                                  *)
(***************************************************************************)
EXTENDS Integers, FiniteSets

CONSTANTS
    Token,        \* token ids, the same on both collections
    User,         \* externally owned accounts
    EthBridge,    \* address of the EthereumBridge contract
    MegaBridge,   \* address of the MegaEthBridge contract
    ZeroAddress,  \* address(0)
    Recipient,    \* addresses that callers name as recipients
    Submitter,    \* accounts that may be made a root submitter
    MaxBlock      \* bound: a lock is made in a block of 1..MaxBlock

ASSUME AddressAssumption ==
    /\ {EthBridge, MegaBridge} \cap User = {}
    /\ ZeroAddress \notin User \cup {EthBridge, MegaBridge}
    /\ Recipient \subseteq User \cup {EthBridge, MegaBridge, ZeroAddress}

ASSUME MaxBlockAssumption == MaxBlock \in Nat \ {0}

Address == User \cup {EthBridge, MegaBridge}
Block == 1..MaxBlock

\* Definitions called Slip... are wrong on purpose: each is what a plausible
\* slip would have made of the definition that follows it, and is used by
\* nothing.  The README says which property tells the two apart.

SlipHashWithoutBlock(tokenId, owner, recipient, blockNumber, bridge, i) ==
    <<tokenId, owner, recipient, 1, bridge, i>>

\* keccak256(abi.encodePacked(tokenId, msg.sender, recipient, block.number,
\* address(this))) for a single lock; a batch appends the position i.
Single == -1
LockHash(tokenId, owner, recipient, blockNumber, bridge, i) ==
    <<tokenId, owner, recipient, blockNumber, bridge, i>>
Hash == Token \X Address \X (Address \cup {ZeroAddress}) \X Block
          \X {EthBridge, MegaBridge} \X Int

\* struct LockData, also the arguments of the NFTLocked event.
LockData == [tokenId: Token, owner: Address, recipient: Address \cup {ZeroAddress},
             blockNumber: Block, lockHash: Hash]
LockRecord(tokenId, owner, recipient, blockNumber, bridge, i) ==
    [tokenId |-> tokenId, owner |-> owner, recipient |-> recipient,
     blockNumber |-> blockNumber,
     lockHash |-> LockHash(tokenId, owner, recipient, blockNumber, bridge, i)]

\* keccak256(abi.encodePacked(tokenId, recipient, lockHash, blockNumber))
Leaf == [tokenId: Token, recipient: Address \cup {ZeroAddress},
         blockNumber: Block, lockHash: Hash]
SlipLeafOfWholeRecord(d) == d
LeafOf(d) == [tokenId |-> d.tokenId, recipient |-> d.recipient,
              blockNumber |-> d.blockNumber, lockHash |-> d.lockHash]
RootOf(locks) == {LeafOf(d) : d \in locks}
NoRoot == {}

TokensOf(locks) == {d.tokenId : d \in locks}
HashesOf(locks) == {d.lockHash : d \in locks}

\* A mapping lockHash => LockData is the set of its values, which are keyed
\* by their lockHash; Store writes entries and Erase deletes them.
KeyedByHash(locks) == \A c, d \in locks : c.lockHash = d.lockHash => c = d
Store(mapping, locks) ==
    {d \in mapping : d.lockHash \notin HashesOf(locks)} \cup locks
Erase(mapping, hashes) == {d \in mapping : d.lockHash \notin hashes}

\* The orders in which a batch may list the tokens of S: the position of each.
\* A token listed twice makes the whole batch revert.
BatchOrder(S) ==
    {pos \in [S -> 0..(Cardinality(S) - 1)] :
        \A t, u \in S : pos[t] = pos[u] => t = u}

\* The token at position pos[t] of a batch goes to the recipient of its lock.
RecipientIn(locks, t) == (CHOOSE d \in locks : d.tokenId = t).recipient
DistinctTokens(locks) == \A c, d \in locks : c.tokenId = d.tokenId => c = d
==============================================================================
